-------------------------------- MODULE Console -------------------------------
(***************************************************************************)
(* What the pages of the dashboard that show data of the server and change *)
(* it have in common: requests in flight, a `busy` that disables buttons,  *)
(* an error, and an answer of the server on display.                       *)
(*                                                                         *)
(* A handler runs up to its first await when the operator clicks, and goes *)
(* on when the answer comes.  Answers come in any order.  Of the data only *)
(* its revision is kept: each change of what the server holds makes a new  *)
(* one, and on a page of questions each new question.  This is one visit   *)
(* of one page: an answer to a page that was left sets the state of        *)
(* nothing, and the next visit starts anew.                                *)
(***************************************************************************)
EXTENDS Naturals, FiniteSets

CONSTANTS
  Names,        \* names of upstreams
  MaxCalls,     \* the operator asks for no more while that many are in flight
  MaxRevision, MaxFailures

ASSUME ConsoleConstants ==
  /\ Names \cap {"", "all", "page"} = {}
  /\ MaxCalls \in Nat \ {0} /\ {MaxRevision, MaxFailures} \subseteq Nat

VARIABLES
  page,      \* the page visited
  calls,     \* requests in flight, as in Call
  busy,      \* "" or what is busy
  error,     \* an error is on display
  revision,  \* of the server, or of the question
  shown,     \* the revision on display
  due,       \* and the one that the operator has been promised
  missed,    \* a load failed, or was overtaken by a later one
  failures

display == <<shown, due, missed>>
consoleVars == <<page, calls, busy, error, revision, display, failures>>

Rosters == {"tokens", "users", "mappings"}
Editing == {"policies", "config"}
Asking == {"logs", "connect", "import", "upstream logs"}
AllPages == Rosters \cup Editing \cup Asking \cup {"routes", "browse"}

Ids == 1..MaxCalls

\* `at` is "sent", or how it ended: "ok", "refused" by the server, or "lost".
Call(id, op, arg, v) == [id |-> id, op |-> op, arg |-> arg, v |-> v, at |-> "sent"]

Loads == {"load", "poll", "reload", "rediscover"}

ConsoleInit ==
  /\ page \in AllPages
  /\ calls = IF page = "upstream logs" THEN {} ELSE {Call(1, "load", "", 0)}
  /\ busy = IF page = "logs" THEN "page" ELSE ""
  /\ error = FALSE
  /\ revision = 0 /\ shown = 0 /\ due = 0 /\ missed = FALSE
  /\ failures = 0

(***************************************************************************)
(* Requests.                                                               *)
(***************************************************************************)
Room == Cardinality(calls) < MaxCalls /\ revision + Cardinality(calls) < MaxRevision
NextId == CHOOSE i \in Ids : \A c \in calls : c.id # i

Ask(op, arg, v) ==
  /\ Room
  /\ calls' = calls \cup {Call(NextId, op, arg, v)}
  /\ UNCHANGED <<page, failures>>

\* The handler of c goes on: it makes another request, or is over.
GoesOn(c, op) ==
  /\ calls' = (calls \ {c}) \cup {Call(c.id, op, c.arg, revision)}
  /\ UNCHANGED <<page, revision, failures>>
Over(c) ==
  /\ calls' = calls \ {c}
  /\ UNCHANGED <<page, revision, failures>>

Back(c, ops) == c \in calls /\ c.op \in ops /\ c.at # "sent"

\* The server deals with c.  On the pages of questions an answer is to the
\* question of its time; elsewhere it has what the server holds by now.
Settled(c, how, changes) ==
  /\ c.at = "sent"
  /\ revision' = IF changes THEN revision + 1 ELSE revision
  /\ calls' = (calls \ {c}) \cup
       {[c EXCEPT !.at = how, !.v = IF page \in Asking THEN c.v ELSE revision']}
  /\ UNCHANGED <<page, busy, error, display, failures>>

ServeLoad(c) == c.op \in Loads /\ Settled(c, "ok", FALSE)

\* It does not get there, or its answer does not get back.
Lose(c) ==
  /\ c.at # "lost" /\ failures < MaxFailures
  /\ failures' = failures + 1
  /\ calls' = (calls \ {c}) \cup {[c EXCEPT !.at = "lost"]}
  /\ UNCHANGED <<page, busy, error, revision, display>>

\* Another administrator, or another tab.
Elsewhere ==
  /\ page \notin Asking \cup {"browse"} /\ Room
  /\ revision' = revision + 1
  /\ UNCHANGED <<page, calls, busy, error, display, failures>>

(***************************************************************************)
(* What an answer does to the page.                                        *)
(***************************************************************************)
Displays(c) ==
  /\ shown' = c.v
  /\ missed' = (c.v < due /\ (missed \/ c.v < shown))
  /\ UNCHANGED due

LoadFails == missed' = TRUE /\ UNCHANGED <<shown, due>>

\* The operator has been told that the change was made.
Promised(c) ==
  /\ due' = IF c.v > due THEN c.v ELSE due
  /\ UNCHANGED <<shown, missed>>

ConsoleTypeOK ==
  /\ page \in AllPages
  /\ \A c \in calls : c.id \in Ids /\ c.at \in {"sent", "ok", "refused", "lost"}
  /\ busy \in Names \cup {"", "all", "page"}
  /\ {error, missed} \subseteq BOOLEAN
  /\ {revision, shown, due} \subseteq 0..MaxRevision
===============================================================================
