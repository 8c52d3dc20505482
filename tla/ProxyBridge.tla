----------------------------- MODULE ProxyBridge -----------------------------
(***************************************************************************)
(* ProxyBridge.forward() and what can happen around it.  Each call is one  *)
(* asyncio task running forward(); the event loop runs it from one await   *)
(* to the next without interruption, so an action is the code between two  *)
(* awaits.  The exception is start_shutdown(): it is called from a POSIX   *)
(* signal handler too, which runs between any two instructions.  The head  *)
(* of forward() is therefore cut at its two shutdown checks; `turn` names  *)
(* the task that holds the event loop there, and only that handler can     *)
(* come in.  A task that is created runs when the event loop gets to it:   *)
(* the message goes to the transport then, not when the task is made.      *)
(*                                                                         *)
(* The policy verdict, the registry lookup and the upstream's answer are   *)
(* nondeterministic; so is the moment the HTTP layer abandons a call (the  *)
(* request timeout, or the client hanging up), which cancels forward().    *)
(***************************************************************************)
EXTENDS Naturals, FiniteSets

CONSTANTS
  Calls,          \* the calls of forward()
  Notifications,  \* those whose message has no id
  QueueSize,      \* ProxyBridge(queue_size)
  NoCall

ASSUME CallsAssumption ==
  /\ IsFiniteSet(Calls)
  /\ Notifications \subseteq Calls
  /\ NoCall \notin Calls

ASSUME QueueAssumption == QueueSize \in Nat \ {0}

VARIABLES
  pc,        \* pc[c]: the await forward() is at
  task,      \* task[c]: state of request_task (of the awaited send, for a notification)
  waiter,    \* waiter[c]: state of shutdown_waiter
  slots,     \* self.queue.qsize()
  shutdown,  \* self._shutdown_event.is_set()
  outcome,   \* outcome[c]: how forward() ended
  records,   \* records[c]: how often the traffic recorder was called for c
  turn       \* the call that holds the event loop, or NoCall

vars == <<pc, task, waiter, slots, shutdown, outcome, records, turn>>

\* The places of a call that holds the event loop: past the first shutdown
\* check, in the queue, past the second shutdown check.
Holding  == {"arrived", "admitted", "cleared"}
Waiting  == {"notifying", "racing", "cancelling", "collecting"}
Answered == {"response", "error_response", "nothing"}
Settled  == Answered \cup {"raised", "cancelled"}
Refusals == {"denied", "overloaded", "unavailable", "shutting_down"}
Outcomes == Refusals \cup {"ok", "upstream_error", "exception", "abandoned"}

\* The calls between queue.put_nowait and the finally clause.
InTryBlock == {c \in Calls : pc[c] \in {"admitted", "cleared"} \cup Waiting}

Init ==
  /\ pc = [c \in Calls |-> "new"]
  /\ task = [c \in Calls |-> "absent"]
  /\ waiter = [c \in Calls |-> "absent"]
  /\ slots = 0
  /\ shutdown = FALSE
  /\ outcome = [c \in Calls |-> "pending"]
  /\ records = [c \in Calls |-> 0]
  /\ turn = NoCall

(***************************************************************************)
(* Endings.                                                                *)
(***************************************************************************)
\* forward() ends with outcome o and tells the traffic recorder.
EndRecorded(c, o) ==
  /\ pc' = [pc EXCEPT ![c] = "done"]
  /\ outcome' = [outcome EXCEPT ![c] = o]
  /\ records' = [records EXCEPT ![c] = @ + 1]

\* forward() ends by an exception nothing in it catches: no record is made.
EndUnrecorded(c, o) ==
  /\ pc' = [pc EXCEPT ![c] = "done"]
  /\ outcome' = [outcome EXCEPT ![c] = o]
  /\ UNCHANGED records

\* Seeded fault: no finally clause, the place is never given back.
ReleaseSlotNever == slots' = slots

\* The finally clause: queue.get_nowait().
ReleaseSlot == slots' = slots - 1

OutcomeOf(answer) ==
  CASE answer = "response" -> "ok"
    [] answer = "error_response" -> "upstream_error"
    [] answer = "nothing" -> "unavailable"

(***************************************************************************)
(* The synchronous head of forward().                                      *)
(***************************************************************************)
StartShutdown ==
  /\ ~shutdown
  /\ shutdown' = TRUE
  /\ UNCHANGED <<pc, task, waiter, slots, outcome, records, turn>>

\* The shutdown check at the top of forward().
Arrive(c) ==
  /\ turn = NoCall
  /\ pc[c] = "new"
  /\ IF shutdown THEN EndRecorded(c, "shutting_down") /\ UNCHANGED turn
     ELSE /\ pc' = [pc EXCEPT ![c] = "arrived"]
          /\ turn' = c
          /\ UNCHANGED <<outcome, records>>
  /\ UNCHANGED <<task, waiter, slots, shutdown>>

\* Turned away before or at the queue: by the policy engine, by a full queue,
\* or (place taken and given back) by the registry.
Refuse(c, o) ==
  /\ turn = c
  /\ pc[c] = "arrived"
  /\ \/ o = "denied"
     \/ o = "overloaded" /\ slots >= QueueSize
     \/ o = "unavailable" /\ slots < QueueSize
  /\ EndRecorded(c, o)
  /\ turn' = NoCall
  /\ UNCHANGED <<task, waiter, slots, shutdown>>

Admit(c) ==
  /\ turn = c
  /\ pc[c] = "arrived"
  /\ slots < QueueSize
  /\ slots' = slots + 1
  /\ pc' = [pc EXCEPT ![c] = "admitted"]
  /\ UNCHANGED <<task, waiter, shutdown, outcome, records, turn>>

\* The shutdown check inside the try block.
RefuseInFlight(c) ==
  /\ turn = c
  /\ pc[c] = "admitted"
  /\ shutdown
  /\ EndRecorded(c, "shutting_down")
  /\ ReleaseSlot
  /\ turn' = NoCall
  /\ UNCHANGED <<task, waiter, shutdown>>

\* Seeded fault: no shutdown check inside the try block.
PassCheckAlways(c) ==
  /\ turn = c
  /\ pc[c] = "admitted"
  /\ pc' = [pc EXCEPT ![c] = "cleared"]
  /\ UNCHANGED <<task, waiter, slots, shutdown, outcome, records, turn>>

PassCheck(c) ==
  /\ turn = c
  /\ pc[c] = "admitted"
  /\ ~shutdown
  /\ pc' = [pc EXCEPT ![c] = "cleared"]
  /\ UNCHANGED <<task, waiter, slots, shutdown, outcome, records, turn>>

\* send_notification() is awaited in place: it runs without a task.
DispatchNotification(c) ==
  /\ turn = c
  /\ pc[c] = "cleared"
  /\ c \in Notifications
  /\ pc' = [pc EXCEPT ![c] = "notifying"]
  /\ task' = [task EXCEPT ![c] = "running"]
  /\ turn' = NoCall
  /\ UNCHANGED <<waiter, slots, shutdown, outcome, records>>

DispatchRequest(c) ==
  /\ turn = c
  /\ pc[c] = "cleared"
  /\ c \notin Notifications
  /\ pc' = [pc EXCEPT ![c] = "racing"]
  /\ task' = [task EXCEPT ![c] = "created"]
  /\ waiter' = [waiter EXCEPT ![c] = "waiting"]
  /\ turn' = NoCall
  /\ UNCHANGED <<slots, shutdown, outcome, records>>

(***************************************************************************)
(* The tasks forward() waits for.                                          *)
(***************************************************************************)
\* The first step of request_task: the message is handed to the transport,
\* whatever was signalled since the task was made.
StartRequestTask(c) ==
  /\ turn = NoCall
  /\ task[c] = "created"
  /\ task' = [task EXCEPT ![c] = "running"]
  /\ UNCHANGED <<pc, waiter, slots, shutdown, outcome, records, turn>>

\* The transport's request() returns or raises.  This may come after the
\* call was abandoned: nobody collects the result then.
UpstreamSettles(c, answer) ==
  /\ turn = NoCall
  /\ task[c] = "running"
  /\ c \notin Notifications
  /\ answer \in Answered \cup {"raised"}
  /\ task' = [task EXCEPT ![c] = answer]
  /\ UNCHANGED <<pc, waiter, slots, shutdown, outcome, records, turn>>

\* Seeded fault: forward() awaits the request alone, the event wakes nobody.
ShutdownWaiterNeverFires(c) == FALSE /\ UNCHANGED vars

\* The event loop starts tasks in the order they were made: shutdown_waiter
\* runs after the first step of request_task.
ShutdownWaiterFires(c) ==
  /\ turn = NoCall
  /\ shutdown
  /\ waiter[c] = "waiting"
  /\ task[c] # "created"
  /\ waiter' = [waiter EXCEPT ![c] = "fired"]
  /\ UNCHANGED <<pc, task, slots, shutdown, outcome, records, turn>>

(***************************************************************************)
(* forward() resumes.                                                      *)
(***************************************************************************)
NotificationSent(c) ==
  /\ turn = NoCall
  /\ pc[c] = "notifying"
  /\ task' = [task EXCEPT ![c] = "nothing"]
  /\ EndRecorded(c, "ok")
  /\ ReleaseSlot
  /\ UNCHANGED <<waiter, shutdown, turn>>

NotificationRaises(c) ==
  /\ turn = NoCall
  /\ pc[c] = "notifying"
  /\ task' = [task EXCEPT ![c] = "raised"]
  /\ EndUnrecorded(c, "exception")
  /\ ReleaseSlot
  /\ UNCHANGED <<waiter, shutdown, turn>>

\* Seeded fault: the shutdown branch raises without cancelling the task.
ShutdownWinsWithoutCancel(c) ==
  /\ turn = NoCall
  /\ pc[c] = "racing"
  /\ waiter[c] = "fired"
  /\ task[c] \notin Settled
  /\ EndRecorded(c, "shutting_down")
  /\ ReleaseSlot
  /\ UNCHANGED <<task, waiter, shutdown, turn>>

\* asyncio.wait returns with the shutdown waiter done: the request task is
\* cancelled.  A task that has not settled takes another turn to end.
ShutdownWins(c) ==
  /\ turn = NoCall
  /\ pc[c] = "racing"
  /\ waiter[c] = "fired"
  /\ task[c] \notin Settled
  /\ pc' = [pc EXCEPT ![c] = "cancelling"]
  /\ task' = [task EXCEPT ![c] = "cancelling"]
  /\ UNCHANGED <<waiter, slots, shutdown, outcome, records, turn>>

\* The same with a task that has settled already: awaiting it gives its
\* answer, which is dropped, or raises what it raised.
ShutdownWinsLate(c) ==
  /\ turn = NoCall
  /\ pc[c] = "racing"
  /\ waiter[c] = "fired"
  /\ IF task[c] = "raised" THEN EndUnrecorded(c, "exception")
     ELSE task[c] \in Answered /\ EndRecorded(c, "shutting_down")
  /\ ReleaseSlot
  /\ UNCHANGED <<task, waiter, shutdown, turn>>

CancelTakesEffect(c) ==
  /\ turn = NoCall
  /\ pc[c] = "cancelling"
  /\ task' = [task EXCEPT ![c] = "cancelled"]
  /\ EndRecorded(c, "shutting_down")
  /\ ReleaseSlot
  /\ UNCHANGED <<waiter, shutdown, turn>>

\* asyncio.wait returns with only the request task done: the waiter is
\* cancelled and awaited.
RequestWins(c) ==
  /\ turn = NoCall
  /\ pc[c] = "racing"
  /\ task[c] \in Settled
  /\ waiter[c] # "fired"
  /\ pc' = [pc EXCEPT ![c] = "collecting"]
  /\ waiter' = [waiter EXCEPT ![c] = "cancelled"]
  /\ UNCHANGED <<task, slots, shutdown, outcome, records, turn>>

\* Seeded fault: the unavailable branch records, then falls through to the
\* record at the end of the try block.
CollectAnswerTwice(c) ==
  /\ turn = NoCall
  /\ pc[c] = "collecting"
  /\ pc' = [pc EXCEPT ![c] = "done"]
  /\ outcome' = [outcome EXCEPT ![c] = IF task[c] = "raised" THEN "exception"
                                        ELSE OutcomeOf(task[c])]
  /\ records' = [records EXCEPT ![c] = CASE task[c] = "raised" -> @
                                         [] task[c] = "nothing" -> @ + 2
                                         [] OTHER -> @ + 1]
  /\ ReleaseSlot
  /\ UNCHANGED <<task, waiter, shutdown, turn>>

CollectAnswer(c) ==
  /\ turn = NoCall
  /\ pc[c] = "collecting"
  /\ IF task[c] = "raised" THEN EndUnrecorded(c, "exception")
     ELSE EndRecorded(c, OutcomeOf(task[c]))
  /\ ReleaseSlot
  /\ UNCHANGED <<task, waiter, shutdown, turn>>

\* wait_for's timeout, or a disconnect, cancels forward().  At "cancelling"
\* and "collecting" suppress(CancelledError) swallows the cancellation.
\* asyncio.wait does not cancel the tasks it waits for: both stay behind.
\* forward() is resumed after the tasks that were ready before it was
\* cancelled, the first step of request_task among them.
Abandon(c) ==
  /\ turn = NoCall
  /\ pc[c] \in {"notifying", "racing"}
  /\ task[c] # "created"
  /\ task' = IF pc[c] = "notifying" THEN [task EXCEPT ![c] = "cancelled"] ELSE task
  /\ EndUnrecorded(c, "abandoned")
  /\ ReleaseSlot
  /\ UNCHANGED <<waiter, shutdown, turn>>

Resume(c) ==
  \/ Admit(c) \/ \E o \in Refusals : Refuse(c, o)
  \/ RefuseInFlight(c) \/ PassCheck(c) \/ DispatchNotification(c) \/ DispatchRequest(c)
  \/ StartRequestTask(c) \/ ShutdownWaiterFires(c)
  \/ ShutdownWins(c) \/ ShutdownWinsLate(c) \/ CancelTakesEffect(c)
  \/ RequestWins(c) \/ CollectAnswer(c)

Environment(c) ==
  \/ \E answer \in Answered \cup {"raised"} : UpstreamSettles(c, answer)
  \/ NotificationSent(c) \/ NotificationRaises(c)
  \/ Abandon(c)

Next ==
  \/ StartShutdown
  \/ \E c \in Calls : Arrive(c) \/ Resume(c) \/ Environment(c)

Spec == Init /\ [][Next]_vars

\* The event loop runs every task that is ready.  Nothing is promised about
\* clients, signals, upstreams or timeouts.
FairSpec == Spec /\ \A c \in Calls : WF_vars(Resume(c))

(***************************************************************************)
(* Properties.                                                             *)
(***************************************************************************)
\* Every variable keeps its type, and the queue never holds more than its
\* maxsize (asyncio.Queue of bridge.py:38).
TypeOK ==
  /\ pc \in [Calls -> {"new", "done"} \cup Holding \cup Waiting]
  /\ task \in [Calls -> {"absent", "created", "running", "cancelling"} \cup Settled]
  /\ waiter \in [Calls -> {"absent", "waiting", "fired", "cancelled"}]
  /\ slots \in 0..QueueSize
  /\ shutdown \in BOOLEAN
  /\ outcome \in [Calls -> {"pending"} \cup Outcomes]
  /\ records \in [Calls -> Nat]
  /\ turn \in Calls \cup {NoCall}

\* Backpressure neither leaks nor loses places: the queue holds one entry for
\* each call inside the try block, whatever way calls end (bridge.py:171-242).
SlotsMatchCalls == slots = Cardinality(InTryBlock)

\* A call the bridge answered or refused left exactly one traffic record, and
\* only an exception passing through or an abandoned call left none: no path
\* through forward() records twice.
OneRecordPerAnswer ==
  \A c \in Calls :
    records[c] = IF outcome[c] \in {"pending", "exception", "abandoned"} THEN 0 ELSE 1

\* When forward() is over its request task is over and its shutdown waiter is
\* gone, on every path but one: asyncio.wait leaves both to an abandoned call.
OnlyAbandonedCallsLeaveTasks ==
  \A c \in Calls : pc[c] = "done" /\ outcome[c] # "abandoned" =>
    task[c] \in {"absent"} \cup Settled /\ waiter[c] # "waiting"

\* Where a call stands in the abstract ledger: a request whose task was made
\* and has not run is committed, not sent.
StageOf(place, state) ==
  CASE place = "new" -> "new"
    [] place = "arrived" -> "accepted"
    [] place = "admitted" -> "inside"
    [] place = "cleared" \/ (place = "racing" /\ state = "created") -> "committed"
    [] place \in Waiting /\ ~(place = "racing" /\ state = "created") -> "sent"
    [] place = "done" -> "over"

Stage == [c \in Calls |-> StageOf(pc[c], task[c])]

Ledger == INSTANCE ForwardLedger WITH stage <- Stage, closed <- shutdown

\* forward() keeps the contract of ForwardLedger: never more calls inside than
\* places, no call accepted or committed once the bridge is closed, after the
\* close only the messages of the calls committed before it, and none of those
\* forgotten (bridge.py:141-207).
ImplementsLedger == Ledger!LedgerSpec

\* start_shutdown() rejects the forwards in flight (bridge.py:57): every
\* request then leaves the bridge though its upstream may never answer.
\* Notifications are not raced with the event and are left out.
ShutdownDrains ==
  \A c \in Calls \ Notifications :
    (shutdown /\ c \in InTryBlock) ~> c \notin InTryBlock
==============================================================================
