---------------------------- MODULE ForwardLedger ----------------------------
(***************************************************************************)
(* What ProxyBridge promises to the HTTP layer that calls forward(),       *)
(* without saying how.  A call is accepted only while the bridge is open,  *)
(* let in only while a place is free, and committed to be sent only while  *)
(* the bridge is still open.  Every call that is committed is sent, also   *)
(* when the bridge closes in between: closing stops no message that passed *)
(* the last check.  A call that is over stays over, closing is for good.   *)
(* There is no queue, no task and no counter here: a place is taken by     *)
(* being inside.                                                           *)
(***************************************************************************)
EXTENDS FiniteSets, Naturals

CONSTANTS Calls, QueueSize

VARIABLES
  stage,   \* stage[c]: how far call c has come
  closed   \* the bridge is shutting down

ledgerVars == <<stage, closed>>

Inside == {c \in Calls : stage[c] \in {"inside", "committed", "sent"}}

LedgerInit ==
  /\ stage = [c \in Calls |-> "new"]
  /\ closed = FALSE

\* The call is turned away: it never takes a place.
TurnAway(c) ==
  /\ stage[c] \in {"new", "accepted"}
  /\ stage' = [stage EXCEPT ![c] = "over"]
  /\ UNCHANGED closed

Accept(c) ==
  /\ stage[c] = "new"
  /\ ~closed
  /\ stage' = [stage EXCEPT ![c] = "accepted"]
  /\ UNCHANGED closed

LetIn(c) ==
  /\ stage[c] = "accepted"
  /\ Cardinality(Inside) < QueueSize
  /\ stage' = [stage EXCEPT ![c] = "inside"]
  /\ UNCHANGED closed

\* The point of no return.
Commit(c) ==
  /\ stage[c] = "inside"
  /\ ~closed
  /\ stage' = [stage EXCEPT ![c] = "committed"]
  /\ UNCHANGED closed

Send(c) ==
  /\ stage[c] = "committed"
  /\ stage' = [stage EXCEPT ![c] = "sent"]
  /\ UNCHANGED closed

\* The place is given back, never between the commitment and the sending.
Leave(c) ==
  /\ stage[c] \in {"inside", "sent"}
  /\ stage' = [stage EXCEPT ![c] = "over"]
  /\ UNCHANGED closed

Close ==
  /\ closed' = TRUE
  /\ UNCHANGED stage

LedgerNext ==
  \/ Close
  \/ \E c \in Calls : \/ TurnAway(c) \/ Accept(c) \/ LetIn(c)
                      \/ Commit(c) \/ Send(c) \/ Leave(c)

LedgerSpec == LedgerInit /\ [][LedgerNext]_ledgerVars
==============================================================================
