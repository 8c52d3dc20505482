-------------------------------- MODULE Roster --------------------------------
(***************************************************************************)
(* The three pages that list rows, add one and delete one: Tokens.tsx,     *)
(* Users.tsx and TokenMappings.tsx.  What was created or invited has a     *)
(* secret that is shown once; a mapping has none, and closes the form.     *)
(***************************************************************************)
EXTENDS Console

VARIABLES
  showCreate,  \* showCreate, or showInvite: the panel is open
  created      \* it shows the secret of what was created, not the form

rosterVars == <<showCreate, created>>
RosterInit == showCreate = FALSE /\ created = FALSE
RosterKept == UNCHANGED rosterVars

New ==
  /\ page \in Rosters
  /\ showCreate' = TRUE
  /\ created' = FALSE
  /\ UNCHANGED consoleVars

\* "Cancel", also while a creation is in flight, and "Done".
Hide ==
  /\ page \in Rosters /\ showCreate
  /\ showCreate' = FALSE
  /\ UNCHANGED <<consoleVars, created>>

CreateRow ==
  /\ page \in Rosters /\ showCreate /\ ~created /\ busy = ""
  /\ Ask("create", "", revision)
  /\ busy' = "page" /\ error' = FALSE
  /\ UNCHANGED <<revision, display>> /\ RosterKept

\* Not disabled while busy; the operator confirmed it.
DeleteRow ==
  /\ page \in Rosters
  /\ Ask("delete", "", revision)
  /\ UNCHANGED <<busy, error, revision, display>> /\ RosterKept

\* An invite adds no row.
ServeRow(c, how) ==
  /\ page \in Rosters /\ c.op \in {"create", "delete"}
  /\ Settled(c, how, how = "ok" /\ ~(page = "users" /\ c.op = "create"))
  /\ RosterKept

RowCreated(c) ==
  /\ page \in Rosters /\ Back(c, {"create"}) /\ c.at = "ok"
  /\ created' = (page # "mappings")
  /\ showCreate' = (showCreate /\ page # "mappings")
  /\ busy' = ""
  /\ GoesOn(c, "load")
  /\ Promised(c)
  /\ UNCHANGED error

\* Seeded fault: the row that was deleted stays on display.
RowDeletedOnly(c) ==
  /\ page \in Rosters /\ Back(c, {"delete"}) /\ c.at = "ok"
  /\ Over(c)
  /\ Promised(c)
  /\ UNCHANGED <<busy, error>> /\ RosterKept

RowDeleted(c) ==
  /\ page \in Rosters /\ Back(c, {"delete"}) /\ c.at = "ok"
  /\ GoesOn(c, "load")
  /\ Promised(c)
  /\ UNCHANGED <<busy, error>> /\ RosterKept

\* A deletion that fails leaves the `busy` of a creation alone.
RowFailed(c) ==
  /\ page \in Rosters /\ Back(c, {"create", "delete"}) /\ c.at # "ok"
  /\ error' = TRUE
  /\ busy' = IF c.op = "create" THEN "" ELSE busy
  /\ Over(c)
  /\ UNCHANGED display /\ RosterKept

\* A load that succeeds leaves an earlier error on display.
RowsLoaded(c) ==
  /\ page \in Rosters /\ Back(c, {"load"})
  /\ IF c.at = "ok" THEN Displays(c) /\ UNCHANGED error
                    ELSE LoadFails /\ error' = TRUE
  /\ Over(c)
  /\ UNCHANGED busy /\ RosterKept

RosterClicks == New \/ Hide \/ CreateRow \/ DeleteRow
RosterAnswer(c) == RowCreated(c) \/ RowDeleted(c) \/ RowFailed(c) \/ RowsLoaded(c)
===============================================================================
