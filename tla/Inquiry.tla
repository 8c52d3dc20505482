-------------------------------- MODULE Inquiry --------------------------------
(***************************************************************************)
(* The pages that ask the server a question: Logs.tsx for the entries that *)
(* pass a filter, Connect.tsx for the snippet of a client, Import.tsx for  *)
(* what the configurations of clients hold, of which some is imported, and *)
(* the log of an upstream on Routes.tsx, while it is unfolded.             *)
(***************************************************************************)
EXTENDS Console

VARIABLES
  open,      \* the log of the upstream is unfolded
  scanned,   \* the configurations of clients are on display
  selected   \* upstreams ticked of the client that is imported from

inquiryVars == <<open, scanned, selected>>
InquiryInit == open = FALSE /\ scanned = FALSE /\ selected = {}
InquiryKept == UNCHANGED inquiryVars

\* The question of now is asked: its answer is what the operator waits for.
Inquire(q) ==
  /\ Ask("load", "", q)
  /\ due' = q
  /\ UNCHANGED <<shown, missed>>

SetFilter ==
  /\ page = "logs" /\ Room
  /\ revision' = revision + 1
  /\ UNCHANGED <<page, calls, busy, error, display, failures>> /\ InquiryKept

\* As the filter loses the focus, loading or not, and by "Refresh".
RefreshLogs ==
  /\ page = "logs"
  /\ Inquire(revision)
  /\ busy' = "page"
  /\ UNCHANGED <<error, revision>> /\ InquiryKept

\* The effect on [tab, url, tokenEnv]; it has no cleanup.
ChangeClient ==
  /\ page = "connect"
  /\ Inquire(revision + 1)
  /\ revision' = revision + 1
  /\ UNCHANGED <<busy, error>> /\ InquiryKept

\* To unfold the log loads it, to fold it keeps what it shows.
Toggle ==
  /\ page = "upstream logs"
  /\ open' = ~open
  /\ IF open' THEN Inquire(revision) ELSE UNCHANGED <<page, calls, display, failures>>
  /\ UNCHANGED <<busy, error, revision, scanned, selected>>

\* There is no button before a first scan succeeded.
Rescan ==
  /\ page = "import" /\ scanned
  /\ Inquire(revision)
  /\ error' = FALSE
  /\ UNCHANGED <<busy, revision>> /\ InquiryKept

Tick(name) ==
  /\ page = "import" /\ scanned
  /\ selected' = IF name \in selected THEN selected \ {name} ELSE selected \cup {name}
  /\ UNCHANGED <<consoleVars, open, scanned>>

\* All that is ticked, in place of what there is.
ImportSelected ==
  /\ page = "import" /\ busy = "" /\ selected # {}
  /\ Ask("import", selected, revision)
  /\ busy' = "page" /\ error' = FALSE
  /\ UNCHANGED <<revision, display>> /\ InquiryKept

ServeImport(c, how) ==
  /\ page = "import" /\ c.op = "import"
  /\ Settled(c, how, FALSE)
  /\ InquiryKept

\* What was ticked meanwhile is no longer either.
Imported(c) ==
  /\ page = "import" /\ Back(c, {"import"})
  /\ IF c.at = "ok" THEN selected' = {} /\ UNCHANGED error
                    ELSE error' = TRUE /\ UNCHANGED selected
  /\ busy' = ""
  /\ Over(c)
  /\ UNCHANGED <<display, open, scanned>>

\* Two of the four remove an error when they succeed.
Answered(c) ==
  /\ page \in Asking /\ Back(c, {"load"})
  /\ IF c.at = "ok"
     THEN Displays(c) /\ error' = (error /\ page \in {"connect", "import"})
     ELSE LoadFails /\ error' = TRUE
  /\ busy' = IF page = "logs" THEN "" ELSE busy
  /\ scanned' = (scanned \/ (page = "import" /\ c.at = "ok"))
  /\ Over(c)
  /\ UNCHANGED <<open, selected>>

InquiryClicks ==
  \/ SetFilter \/ RefreshLogs \/ ChangeClient \/ Toggle \/ Rescan
  \/ \E name \in Names : Tick(name)
  \/ ImportSelected
InquiryAnswer(c) == Imported(c) \/ Answered(c)
===============================================================================
