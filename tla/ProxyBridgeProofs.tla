-------------------------- MODULE ProxyBridgeProofs --------------------------
(***************************************************************************)
(* ProxyBridge for any finite set of calls, any choice of notifications    *)
(* and any queue size: its type invariant, the agreement of the queue with *)
(* the calls inside forward(), the traffic records, the tasks left behind, *)
(* and that it implements ForwardLedger.                                   *)
(***************************************************************************)
EXTENDS ProxyBridge, FiniteSetTheorems, TLAPS

\* The types, without the bound on the queue: that one follows from the count.
Typing ==
  /\ pc \in [Calls -> {"new", "done"} \cup Holding \cup Waiting]
  /\ task \in [Calls -> {"absent", "created", "running", "cancelling"} \cup Settled]
  /\ waiter \in [Calls -> {"absent", "waiting", "fired", "cancelled"}]
  /\ slots \in Nat
  /\ shutdown \in BOOLEAN
  /\ outcome \in [Calls -> {"pending"} \cup Outcomes]
  /\ records \in [Calls -> Nat]
  /\ turn \in Calls \cup {NoCall}

\* Exactly the call that is inside the head of forward(), short of its first
\* await, holds the event loop.
TurnHolder == \A c \in Calls : turn = c <=> pc[c] \in Holding

\* Where forward() is, given its two tasks.
TasksFollow(c) ==
  /\ pc[c] \in {"new"} \cup Holding => task[c] = "absent" /\ waiter[c] = "absent"
  /\ pc[c] = "notifying" => /\ c \in Notifications
                            /\ task[c] = "running" /\ waiter[c] = "absent"
  /\ pc[c] = "racing" => /\ task[c] \in {"created", "running", "raised"} \cup Answered
                         /\ waiter[c] \in {"waiting", "fired"}
  /\ task[c] = "created" => pc[c] = "racing" /\ waiter[c] = "waiting"
  /\ pc[c] = "cancelling" => task[c] = "cancelling" /\ waiter[c] = "fired"
  /\ pc[c] = "collecting" => /\ task[c] \in {"raised"} \cup Answered
                             /\ waiter[c] = "cancelled"

OutcomeFollows(c) == outcome[c] = "pending" <=> pc[c] # "done"

BridgeInv ==
  /\ Typing
  /\ TurnHolder
  /\ SlotsMatchCalls
  /\ slots <= QueueSize
  /\ OneRecordPerAnswer
  /\ OnlyAbandonedCallsLeaveTasks
  /\ \A c \in Calls : TasksFollow(c) /\ OutcomeFollows(c)

-----------------------------------------------------------------------------
\* The set counted by SlotsMatchCalls is finite.
LEMMA TryBlockFinite == IsFiniteSet(InTryBlock) /\ Cardinality(InTryBlock) \in Nat
  <1>1. InTryBlock \in SUBSET Calls
    BY DEF InTryBlock
  <1>2. IsFiniteSet(InTryBlock)
    BY <1>1, CallsAssumption, FS_Subset
  <1> QED
    BY <1>2, FS_CardinalityType

\* A call that takes its place enlarges the count by one.
LEMMA Entering ==
  ASSUME NEW c \in Calls, Typing, SlotsMatchCalls,
         pc[c] = "arrived", pc' = [pc EXCEPT ![c] = "admitted"], slots' = slots + 1
  PROVE  SlotsMatchCalls'
  <1>1. InTryBlock' = InTryBlock \cup {c} /\ c \notin InTryBlock
    BY DEF InTryBlock, Typing, Holding, Waiting
  <1> QED
    BY <1>1, TryBlockFinite, FS_AddElement DEF SlotsMatchCalls

\* The finally clause gives back the place of the call that ends, and there
\* is one to give back.
LEMMA Leaving ==
  ASSUME NEW c \in Calls, Typing, SlotsMatchCalls, c \in InTryBlock,
         pc' = [pc EXCEPT ![c] = "done"], slots' = slots - 1
  PROVE  SlotsMatchCalls' /\ slots' \in Nat
  <1>1. InTryBlock' = InTryBlock \ {c}
    BY DEF InTryBlock, Typing, Waiting
  <1>2. Cardinality(InTryBlock \ {c}) = Cardinality(InTryBlock) - 1
    BY TryBlockFinite, FS_RemoveElement
  <1>3. IsFiniteSet(InTryBlock \ {c})
    BY TryBlockFinite, FS_RemoveElement
  <1>4. Cardinality(InTryBlock \ {c}) \in Nat
    BY <1>3, FS_CardinalityType
  <1> QED
    BY <1>1, <1>2, <1>4 DEF SlotsMatchCalls

\* A step that keeps the same calls in the try block keeps the count.
LEMMA Staying ==
  ASSUME SlotsMatchCalls, InTryBlock' = InTryBlock, slots' = slots
  PROVE  SlotsMatchCalls'
  BY DEF SlotsMatchCalls

-----------------------------------------------------------------------------
LEMMA InitInv == Init => BridgeInv
  <1> SUFFICES ASSUME Init PROVE BridgeInv
    OBVIOUS
  <1>1. InTryBlock = {}
    BY DEF Init, InTryBlock, Waiting
  <1>2. SlotsMatchCalls
    BY <1>1, FS_EmptySet DEF SlotsMatchCalls, Init
  <1>3. Typing
    BY DEF Init, Typing
  <1>4. TurnHolder
    BY CallsAssumption DEF Init, TurnHolder, Holding
  <1>5. slots <= QueueSize
    BY QueueAssumption DEF Init
  <1>6. OneRecordPerAnswer /\ OnlyAbandonedCallsLeaveTasks
    BY DEF Init, OneRecordPerAnswer, OnlyAbandonedCallsLeaveTasks
  <1>7. \A c \in Calls : TasksFollow(c) /\ OutcomeFollows(c)
    BY DEF Init, TasksFollow, OutcomeFollows, Holding
  <1> QED
    BY <1>2, <1>3, <1>4, <1>5, <1>6, <1>7 DEF BridgeInv
-----------------------------------------------------------------------------
\* The shutdown check inside the try block keeps the invariant.
LEMMA RefuseInFlightInv ==
  ASSUME BridgeInv, NEW c \in Calls, RefuseInFlight(c)
  PROVE  BridgeInv'
  <1> USE DEF BridgeInv, Holding
  <1>1. c \in InTryBlock
    BY DEF InTryBlock, RefuseInFlight, TurnHolder
  <1>2. pc' = [pc EXCEPT ![c] = "done"] /\ slots' = slots - 1
    BY DEF RefuseInFlight, EndRecorded, ReleaseSlot
  <1>3. SlotsMatchCalls' /\ slots' \in Nat
    BY <1>1, <1>2, Leaving
  <1>4. slots' <= QueueSize
    BY <1>2, QueueAssumption DEF Typing
  <1>5. Typing'
    BY <1>3 DEF RefuseInFlight, Typing, EndRecorded, Outcomes, Refusals
  <1>6. TurnHolder'
    BY CallsAssumption DEF RefuseInFlight, TurnHolder, EndRecorded, Typing
  <1>7. OneRecordPerAnswer' /\ OnlyAbandonedCallsLeaveTasks'
    BY DEF RefuseInFlight, EndRecorded, Typing, OneRecordPerAnswer, TasksFollow, TurnHolder,
       OnlyAbandonedCallsLeaveTasks, OutcomeFollows
  <1>8. \A d \in Calls : TasksFollow(d)' /\ OutcomeFollows(d)'
    BY DEF RefuseInFlight, EndRecorded, Typing, TasksFollow, OutcomeFollows
  <1> QED
    BY <1>3, <1>4, <1>5, <1>6, <1>7, <1>8

\* A notification that was sent.
LEMMA NotificationSentInv ==
  ASSUME BridgeInv, NEW c \in Calls, NotificationSent(c)
  PROVE  BridgeInv'
  <1> USE DEF BridgeInv, Holding
  <1>1. c \in InTryBlock
    BY DEF InTryBlock, NotificationSent, Waiting
  <1>2. pc' = [pc EXCEPT ![c] = "done"] /\ slots' = slots - 1
    BY DEF NotificationSent, EndRecorded, ReleaseSlot
  <1>3. SlotsMatchCalls' /\ slots' \in Nat
    BY <1>1, <1>2, Leaving
  <1>4. slots' <= QueueSize
    BY <1>2, QueueAssumption DEF Typing
  <1>5. Typing'
    BY <1>3 DEF NotificationSent, Typing, EndRecorded, Outcomes, Settled, Answered
  <1>6. TurnHolder'
    BY DEF NotificationSent, TurnHolder, EndRecorded
  <1>7. OneRecordPerAnswer' /\ OnlyAbandonedCallsLeaveTasks'
    BY DEF NotificationSent, EndRecorded, Typing, OneRecordPerAnswer, TasksFollow,
       OnlyAbandonedCallsLeaveTasks, OutcomeFollows, Settled, Answered
  <1>8. \A d \in Calls : TasksFollow(d)' /\ OutcomeFollows(d)'
    BY DEF NotificationSent, EndRecorded, Typing, TasksFollow, OutcomeFollows
  <1> QED
    BY <1>3, <1>4, <1>5, <1>6, <1>7, <1>8

\* A notification whose transport raised.
LEMMA NotificationRaisesInv ==
  ASSUME BridgeInv, NEW c \in Calls, NotificationRaises(c)
  PROVE  BridgeInv'
  <1> USE DEF BridgeInv, Holding
  <1>1. c \in InTryBlock
    BY DEF InTryBlock, NotificationRaises, Waiting
  <1>2. pc' = [pc EXCEPT ![c] = "done"] /\ slots' = slots - 1
    BY DEF NotificationRaises, EndUnrecorded, ReleaseSlot
  <1>3. SlotsMatchCalls' /\ slots' \in Nat
    BY <1>1, <1>2, Leaving
  <1>4. slots' <= QueueSize
    BY <1>2, QueueAssumption DEF Typing
  <1>5. Typing'
    BY <1>3 DEF NotificationRaises, Typing, EndUnrecorded, Outcomes, Settled
  <1>6. TurnHolder'
    BY DEF NotificationRaises, TurnHolder, EndUnrecorded
  <1>7. OneRecordPerAnswer' /\ OnlyAbandonedCallsLeaveTasks'
    BY DEF NotificationRaises, EndUnrecorded, Typing, OneRecordPerAnswer, TasksFollow,
       OnlyAbandonedCallsLeaveTasks, OutcomeFollows, Settled
  <1>8. \A d \in Calls : TasksFollow(d)' /\ OutcomeFollows(d)'
    BY DEF NotificationRaises, EndUnrecorded, Typing, TasksFollow, OutcomeFollows
  <1> QED
    BY <1>3, <1>4, <1>5, <1>6, <1>7, <1>8

\* Shutdown found the request settled.
LEMMA ShutdownWinsLateInv ==
  ASSUME BridgeInv, NEW c \in Calls, ShutdownWinsLate(c)
  PROVE  BridgeInv'
  <1> USE DEF BridgeInv, Holding
  <1>1. c \in InTryBlock
    BY DEF InTryBlock, ShutdownWinsLate, Waiting
  <1>2. pc' = [pc EXCEPT ![c] = "done"] /\ slots' = slots - 1
    BY DEF ShutdownWinsLate, EndRecorded, EndUnrecorded, ReleaseSlot
  <1>3. SlotsMatchCalls' /\ slots' \in Nat
    BY <1>1, <1>2, Leaving
  <1>4. slots' <= QueueSize
    BY <1>2, QueueAssumption DEF Typing
  <1>5. Typing'
    BY <1>3 DEF ShutdownWinsLate, Typing, EndRecorded, EndUnrecorded, Outcomes, Refusals
  <1>6. TurnHolder'
    BY DEF ShutdownWinsLate, TurnHolder, EndRecorded, EndUnrecorded, Typing
  <1>7. OneRecordPerAnswer' /\ OnlyAbandonedCallsLeaveTasks'
    BY DEF ShutdownWinsLate, EndRecorded, EndUnrecorded, Typing, OneRecordPerAnswer,
       OnlyAbandonedCallsLeaveTasks, OutcomeFollows, Answered
  <1>8. \A d \in Calls : TasksFollow(d)' /\ OutcomeFollows(d)'
    BY DEF ShutdownWinsLate, EndRecorded, EndUnrecorded, Typing, TasksFollow, OutcomeFollows
  <1> QED
    BY <1>3, <1>4, <1>5, <1>6, <1>7, <1>8

\* The cancelled request task ended.
LEMMA CancelTakesEffectInv ==
  ASSUME BridgeInv, NEW c \in Calls, CancelTakesEffect(c)
  PROVE  BridgeInv'
  <1> USE DEF BridgeInv, Holding
  <1>1. c \in InTryBlock
    BY DEF InTryBlock, CancelTakesEffect, Waiting
  <1>2. pc' = [pc EXCEPT ![c] = "done"] /\ slots' = slots - 1
    BY DEF CancelTakesEffect, EndRecorded, ReleaseSlot
  <1>3. SlotsMatchCalls' /\ slots' \in Nat
    BY <1>1, <1>2, Leaving
  <1>4. slots' <= QueueSize
    BY <1>2, QueueAssumption DEF Typing
  <1>5. Typing'
    BY <1>3 DEF CancelTakesEffect, Typing, EndRecorded, Outcomes, Refusals, Settled
  <1>6. TurnHolder'
    BY DEF CancelTakesEffect, TurnHolder, EndRecorded
  <1>7. OneRecordPerAnswer' /\ OnlyAbandonedCallsLeaveTasks'
    BY DEF CancelTakesEffect, EndRecorded, Typing, OneRecordPerAnswer, TasksFollow,
       OnlyAbandonedCallsLeaveTasks, OutcomeFollows, Settled
  <1>8. \A d \in Calls : TasksFollow(d)' /\ OutcomeFollows(d)'
    BY DEF CancelTakesEffect, EndRecorded, Typing, TasksFollow, OutcomeFollows
  <1> QED
    BY <1>3, <1>4, <1>5, <1>6, <1>7, <1>8

\* The answer is collected.
LEMMA CollectAnswerInv ==
  ASSUME BridgeInv, NEW c \in Calls, CollectAnswer(c)
  PROVE  BridgeInv'
  <1> USE DEF BridgeInv, Holding
  <1>1. c \in InTryBlock
    BY DEF InTryBlock, CollectAnswer, Waiting
  <1>2. pc' = [pc EXCEPT ![c] = "done"] /\ slots' = slots - 1
    BY DEF CollectAnswer, EndRecorded, EndUnrecorded, ReleaseSlot
  <1>3. SlotsMatchCalls' /\ slots' \in Nat
    BY <1>1, <1>2, Leaving
  <1>4. slots' <= QueueSize
    BY <1>2, QueueAssumption DEF Typing
  <1>5. Typing'
    BY <1>3, CallsAssumption
       DEF CollectAnswer, Typing, EndRecorded, EndUnrecorded, Outcomes, Refusals, Settled,
       Answered, OutcomeOf, TasksFollow
  <1>6. TurnHolder'
    BY DEF CollectAnswer, TurnHolder, EndRecorded, EndUnrecorded, Typing
  <1>7. OneRecordPerAnswer' /\ OnlyAbandonedCallsLeaveTasks'
    BY DEF CollectAnswer, EndRecorded, EndUnrecorded, Typing, OneRecordPerAnswer,
       TasksFollow, TurnHolder, OnlyAbandonedCallsLeaveTasks, OutcomeFollows, Settled,
       Answered, OutcomeOf
  <1>8. \A d \in Calls : TasksFollow(d)' /\ OutcomeFollows(d)'
    BY DEF CollectAnswer, EndRecorded, EndUnrecorded, Typing, TasksFollow, OutcomeFollows,
       OutcomeOf, Answered
  <1> QED
    BY <1>3, <1>4, <1>5, <1>6, <1>7, <1>8

\* The call is abandoned.
LEMMA AbandonInv ==
  ASSUME BridgeInv, NEW c \in Calls, Abandon(c)
  PROVE  BridgeInv'
  <1> USE DEF BridgeInv, Holding
  <1>1. c \in InTryBlock
    BY DEF InTryBlock, Abandon, Waiting
  <1>2. pc' = [pc EXCEPT ![c] = "done"] /\ slots' = slots - 1
    BY DEF Abandon, EndUnrecorded, ReleaseSlot
  <1>3. SlotsMatchCalls' /\ slots' \in Nat
    BY <1>1, <1>2, Leaving
  <1>4. slots' <= QueueSize
    BY <1>2, QueueAssumption DEF Typing
  <1>5. Typing'
    BY <1>3 DEF Abandon, Typing, EndUnrecorded, Outcomes, Settled
  <1>6. TurnHolder'
    BY DEF Abandon, TurnHolder, EndUnrecorded
  <1>7. OneRecordPerAnswer' /\ OnlyAbandonedCallsLeaveTasks'
    BY DEF Abandon, EndUnrecorded, Typing, OneRecordPerAnswer, OnlyAbandonedCallsLeaveTasks,
       OutcomeFollows
  <1>8. \A d \in Calls : TasksFollow(d)' /\ OutcomeFollows(d)'
    BY DEF Abandon, EndUnrecorded, Typing, TasksFollow, OutcomeFollows
  <1> QED
    BY <1>3, <1>4, <1>5, <1>6, <1>7, <1>8

\* The check at the top: the call is refused, or it takes the event loop.
LEMMA ArriveInv ==
  ASSUME BridgeInv, NEW c \in Calls, Arrive(c)
  PROVE  BridgeInv'
  <1> USE DEF BridgeInv, Holding
  <1>1. InTryBlock' = InTryBlock /\ slots' = slots
    BY DEF Arrive, Typing, InTryBlock, Waiting, EndRecorded
  <1>2. SlotsMatchCalls' /\ slots' <= QueueSize
    BY <1>1, Staying
  <1>3. Typing'
    BY DEF Arrive, Typing, EndRecorded, Outcomes, Refusals
  <1>4. TurnHolder'
    BY CallsAssumption DEF Arrive, TurnHolder, Typing, EndRecorded
  <1>5. OneRecordPerAnswer' /\ OnlyAbandonedCallsLeaveTasks'
    BY DEF Arrive, Typing, OneRecordPerAnswer, OnlyAbandonedCallsLeaveTasks, TasksFollow,
       OutcomeFollows, EndRecorded
  <1>6. \A d \in Calls : TasksFollow(d)' /\ OutcomeFollows(d)'
    BY DEF Arrive, Typing, TasksFollow, OutcomeFollows, EndRecorded
  <1> QED
    BY <1>2, <1>3, <1>4, <1>5, <1>6

\* A call turned away never touches the queue.
LEMMA RefuseInv ==
  ASSUME BridgeInv, NEW c \in Calls, NEW o \in Refusals, Refuse(c, o)
  PROVE  BridgeInv'
  <1> USE DEF BridgeInv, Holding
  <1>1. InTryBlock' = InTryBlock /\ slots' = slots
    BY DEF Refuse, Typing, InTryBlock, Waiting, EndRecorded
  <1>2. SlotsMatchCalls' /\ slots' <= QueueSize
    BY <1>1, Staying
  <1>3. Typing'
    BY DEF Refuse, Typing, EndRecorded, Outcomes
  <1>4. TurnHolder'
    BY CallsAssumption DEF Refuse, TurnHolder, Typing, EndRecorded
  <1>5. OneRecordPerAnswer' /\ OnlyAbandonedCallsLeaveTasks'
    BY DEF Refuse, Typing, OneRecordPerAnswer, OnlyAbandonedCallsLeaveTasks, TasksFollow,
       OutcomeFollows, EndRecorded
  <1>6. \A d \in Calls : TasksFollow(d)' /\ OutcomeFollows(d)'
    BY DEF Refuse, Typing, TasksFollow, OutcomeFollows, EndRecorded
  <1> QED
    BY <1>2, <1>3, <1>4, <1>5, <1>6

\* A call takes its place only while the queue has one.
LEMMA AdmitInv ==
  ASSUME BridgeInv, NEW c \in Calls, Admit(c)
  PROVE  BridgeInv'
  <1> USE DEF BridgeInv, Holding
  <1>1. SlotsMatchCalls'
    BY Entering DEF Admit
  <1>2. slots' <= QueueSize
    BY QueueAssumption DEF Admit, Typing
  <1>3. Typing'
    BY DEF Admit, Typing
  <1>4. TurnHolder'
    BY CallsAssumption DEF Admit, TurnHolder, Typing
  <1>5. OneRecordPerAnswer' /\ OnlyAbandonedCallsLeaveTasks'
    BY DEF Admit, OneRecordPerAnswer, OnlyAbandonedCallsLeaveTasks
  <1>6. \A d \in Calls : TasksFollow(d)' /\ OutcomeFollows(d)'
    BY DEF Admit, TasksFollow, OutcomeFollows
  <1> QED
    BY <1>1, <1>2, <1>3, <1>4, <1>5, <1>6

\* The second shutdown check finds the bridge open.
LEMMA PassCheckInv ==
  ASSUME BridgeInv, NEW c \in Calls, PassCheck(c)
  PROVE  BridgeInv'
  <1> USE DEF BridgeInv, Holding
  <1>1. InTryBlock' = InTryBlock /\ slots' = slots
    BY DEF PassCheck, Typing, InTryBlock, Waiting
  <1>2. SlotsMatchCalls' /\ slots' <= QueueSize
    BY <1>1, Staying
  <1>3. Typing'
    BY DEF PassCheck, Typing
  <1>4. TurnHolder'
    BY CallsAssumption DEF PassCheck, TurnHolder, Typing
  <1>5. OneRecordPerAnswer' /\ OnlyAbandonedCallsLeaveTasks'
    BY DEF PassCheck, OneRecordPerAnswer, OnlyAbandonedCallsLeaveTasks
  <1>6. \A d \in Calls : TasksFollow(d)' /\ OutcomeFollows(d)'
    BY DEF PassCheck, Typing, TasksFollow, OutcomeFollows
  <1> QED
    BY <1>2, <1>3, <1>4, <1>5, <1>6

\* The message of a notification is sent.
LEMMA DispatchNotificationInv ==
  ASSUME BridgeInv, NEW c \in Calls, DispatchNotification(c)
  PROVE  BridgeInv'
  <1> USE DEF BridgeInv, Holding
  <1>1. InTryBlock' = InTryBlock /\ slots' = slots
    BY DEF DispatchNotification, InTryBlock, Waiting, TurnHolder
  <1>2. SlotsMatchCalls' /\ slots' <= QueueSize
    BY <1>1, Staying
  <1>3. Typing'
    BY DEF DispatchNotification, Typing, Waiting
  <1>4. TurnHolder'
    BY CallsAssumption DEF DispatchNotification, TurnHolder, Typing
  <1>5. OneRecordPerAnswer' /\ OnlyAbandonedCallsLeaveTasks'
    BY DEF DispatchNotification, OneRecordPerAnswer, OnlyAbandonedCallsLeaveTasks,
       TurnHolder
  <1>6. \A d \in Calls : TasksFollow(d)' /\ OutcomeFollows(d)'
    BY DEF DispatchNotification, Typing, TasksFollow, OutcomeFollows, TurnHolder
  <1> QED
    BY <1>2, <1>3, <1>4, <1>5, <1>6

\* The request task and the shutdown waiter are created.
LEMMA DispatchRequestInv ==
  ASSUME BridgeInv, NEW c \in Calls, DispatchRequest(c)
  PROVE  BridgeInv'
  <1> USE DEF BridgeInv, Holding
  <1>1. InTryBlock' = InTryBlock /\ slots' = slots
    BY DEF DispatchRequest, InTryBlock, Waiting, TurnHolder
  <1>2. SlotsMatchCalls' /\ slots' <= QueueSize
    BY <1>1, Staying
  <1>3. Typing'
    BY DEF DispatchRequest, Typing, Waiting
  <1>4. TurnHolder'
    BY CallsAssumption DEF DispatchRequest, TurnHolder, Typing
  <1>5. OneRecordPerAnswer' /\ OnlyAbandonedCallsLeaveTasks'
    BY DEF DispatchRequest, OneRecordPerAnswer, OnlyAbandonedCallsLeaveTasks, TurnHolder
  <1>6. \A d \in Calls : TasksFollow(d)' /\ OutcomeFollows(d)'
    BY DEF DispatchRequest, Typing, TasksFollow, OutcomeFollows, TurnHolder
  <1> QED
    BY <1>2, <1>3, <1>4, <1>5, <1>6

\* The request task runs for the first time.
LEMMA StartRequestTaskInv ==
  ASSUME BridgeInv, NEW c \in Calls, StartRequestTask(c)
  PROVE  BridgeInv'
  <1> USE DEF BridgeInv, Holding
  <1>1. InTryBlock' = InTryBlock /\ slots' = slots
    BY DEF StartRequestTask, InTryBlock
  <1>2. SlotsMatchCalls' /\ slots' <= QueueSize
    BY <1>1, Staying
  <1>3. Typing'
    BY DEF StartRequestTask, Typing
  <1>4. TurnHolder'
    BY DEF StartRequestTask, TurnHolder
  <1>5. OneRecordPerAnswer' /\ OnlyAbandonedCallsLeaveTasks'
    BY DEF StartRequestTask, OneRecordPerAnswer, OnlyAbandonedCallsLeaveTasks, Settled,
       Answered
  <1>6. \A d \in Calls : TasksFollow(d)' /\ OutcomeFollows(d)'
    BY DEF StartRequestTask, TasksFollow, OutcomeFollows, Answered
  <1> QED
    BY <1>2, <1>3, <1>4, <1>5, <1>6

\* The shutdown waiter sees the event.
LEMMA ShutdownWaiterFiresInv ==
  ASSUME BridgeInv, NEW c \in Calls, ShutdownWaiterFires(c)
  PROVE  BridgeInv'
  <1> USE DEF BridgeInv, Holding
  <1>1. InTryBlock' = InTryBlock /\ slots' = slots
    BY DEF ShutdownWaiterFires, InTryBlock
  <1>2. SlotsMatchCalls' /\ slots' <= QueueSize
    BY <1>1, Staying
  <1>3. Typing'
    BY DEF ShutdownWaiterFires, Typing
  <1>4. TurnHolder'
    BY DEF ShutdownWaiterFires, TurnHolder
  <1>5. OneRecordPerAnswer' /\ OnlyAbandonedCallsLeaveTasks'
    BY DEF ShutdownWaiterFires, OneRecordPerAnswer, OnlyAbandonedCallsLeaveTasks
  <1>6. \A d \in Calls : TasksFollow(d)' /\ OutcomeFollows(d)'
    BY DEF ShutdownWaiterFires, TasksFollow, OutcomeFollows
  <1> QED
    BY <1>2, <1>3, <1>4, <1>5, <1>6

\* The shutdown branch cancels the request task.
LEMMA ShutdownWinsInv ==
  ASSUME BridgeInv, NEW c \in Calls, ShutdownWins(c)
  PROVE  BridgeInv'
  <1> USE DEF BridgeInv, Holding
  <1>1. InTryBlock' = InTryBlock /\ slots' = slots
    BY DEF ShutdownWins, InTryBlock, Waiting
  <1>2. SlotsMatchCalls' /\ slots' <= QueueSize
    BY <1>1, Staying
  <1>3. Typing'
    BY DEF ShutdownWins, Typing, Waiting
  <1>4. TurnHolder'
    BY DEF ShutdownWins, TurnHolder
  <1>5. OneRecordPerAnswer' /\ OnlyAbandonedCallsLeaveTasks'
    BY DEF ShutdownWins, OneRecordPerAnswer, OnlyAbandonedCallsLeaveTasks
  <1>6. \A d \in Calls : TasksFollow(d)' /\ OutcomeFollows(d)'
    BY DEF ShutdownWins, Typing, TasksFollow, OutcomeFollows
  <1> QED
    BY <1>2, <1>3, <1>4, <1>5, <1>6

\* The request settled first.
LEMMA RequestWinsInv ==
  ASSUME BridgeInv, NEW c \in Calls, RequestWins(c)
  PROVE  BridgeInv'
  <1> USE DEF BridgeInv, Holding
  <1>1. InTryBlock' = InTryBlock /\ slots' = slots
    BY DEF RequestWins, InTryBlock, Waiting
  <1>2. SlotsMatchCalls' /\ slots' <= QueueSize
    BY <1>1, Staying
  <1>3. Typing'
    BY DEF RequestWins, Typing, Waiting
  <1>4. TurnHolder'
    BY DEF RequestWins, TurnHolder
  <1>5. OneRecordPerAnswer' /\ OnlyAbandonedCallsLeaveTasks'
    BY DEF RequestWins, OneRecordPerAnswer, OnlyAbandonedCallsLeaveTasks
  <1>6. \A d \in Calls : TasksFollow(d)' /\ OutcomeFollows(d)'
    BY DEF RequestWins, Typing, TasksFollow, OutcomeFollows, Settled, Answered
  <1> QED
    BY <1>2, <1>3, <1>4, <1>5, <1>6

\* The upstream answers, also after the call was abandoned.
LEMMA UpstreamSettlesInv ==
  ASSUME BridgeInv, NEW c \in Calls, NEW answer, UpstreamSettles(c, answer)
  PROVE  BridgeInv'
  <1> USE DEF BridgeInv, Holding
  <1>1. InTryBlock' = InTryBlock /\ slots' = slots
    BY DEF UpstreamSettles, InTryBlock
  <1>2. SlotsMatchCalls' /\ slots' <= QueueSize
    BY <1>1, Staying
  <1>3. Typing'
    BY DEF UpstreamSettles, Typing, Settled
  <1>4. TurnHolder'
    BY DEF UpstreamSettles, TurnHolder
  <1>5. OneRecordPerAnswer' /\ OnlyAbandonedCallsLeaveTasks'
    BY DEF UpstreamSettles, OneRecordPerAnswer, OnlyAbandonedCallsLeaveTasks, Settled
  <1>6. \A d \in Calls : TasksFollow(d)' /\ OutcomeFollows(d)'
    BY DEF UpstreamSettles, TasksFollow, OutcomeFollows, Answered
  <1> QED
    BY <1>2, <1>3, <1>4, <1>5, <1>6

\* The signal handler may run between any two steps.
LEMMA StartShutdownInv ==
  ASSUME BridgeInv, StartShutdown \/ UNCHANGED vars
  PROVE  BridgeInv'
  <1> USE DEF BridgeInv, Holding
  <1>1. UNCHANGED <<pc, task, waiter, slots, outcome, records, turn>> /\ shutdown' \in BOOLEAN
    BY DEF StartShutdown, vars, Typing
  <1>2. SlotsMatchCalls'
    BY <1>1, Staying DEF InTryBlock
  <1>3. Typing' /\ TurnHolder' /\ slots' <= QueueSize
    BY <1>1 DEF Typing, TurnHolder
  <1>4. OneRecordPerAnswer' /\ OnlyAbandonedCallsLeaveTasks'
    BY <1>1 DEF OneRecordPerAnswer, OnlyAbandonedCallsLeaveTasks
  <1>5. \A d \in Calls : TasksFollow(d)' /\ OutcomeFollows(d)'
    BY <1>1 DEF TasksFollow, OutcomeFollows
  <1> QED
    BY <1>2, <1>3, <1>4, <1>5

-----------------------------------------------------------------------------
\* BridgeInv is inductive.
LEMMA NextInv == BridgeInv /\ [Next]_vars => BridgeInv'
  <1> SUFFICES ASSUME BridgeInv, [Next]_vars PROVE BridgeInv'
    OBVIOUS
  <1>1. CASE StartShutdown \/ UNCHANGED vars
    BY <1>1, StartShutdownInv
  <1>2. ASSUME NEW c \in Calls, Arrive(c) PROVE BridgeInv'
    BY <1>2, ArriveInv
  <1>3. ASSUME NEW c \in Calls, Resume(c) PROVE BridgeInv'
    BY <1>3, AdmitInv, RefuseInv, RefuseInFlightInv, PassCheckInv, DispatchNotificationInv, DispatchRequestInv,
       StartRequestTaskInv, ShutdownWaiterFiresInv, ShutdownWinsInv, ShutdownWinsLateInv,
       CancelTakesEffectInv, RequestWinsInv, CollectAnswerInv
       DEF Resume
  <1>4. ASSUME NEW c \in Calls, Environment(c) PROVE BridgeInv'
    BY <1>4, UpstreamSettlesInv, NotificationSentInv, NotificationRaisesInv, AbandonInv
       DEF Environment
  <1> QED
    BY <1>1, <1>2, <1>3, <1>4 DEF Next

\* Every state of the bridge satisfies the inductive invariant.
THEOREM Invariance == Spec => []BridgeInv
  BY InitInv, NextInv, PTL DEF Spec

\* The type invariant, with the queue never above its maxsize (bridge.py:38).
THEOREM TypeCorrect == Spec => []TypeOK
  <1>1. BridgeInv => TypeOK
    BY QueueAssumption DEF BridgeInv, Typing, TypeOK
  <1> QED
    BY <1>1, Invariance, PTL

\* The queue counts exactly the calls inside the try block: no path through
\* forward() leaks a place or gives one back twice.
THEOREM SlotsNeverLeak == Spec => []SlotsMatchCalls
  <1>1. BridgeInv => SlotsMatchCalls
    BY DEF BridgeInv
  <1> QED
    BY <1>1, Invariance, PTL

\* One traffic record for each call the bridge answered or refused.
THEOREM AnswersRecordedOnce == Spec => []OneRecordPerAnswer
  <1>1. BridgeInv => OneRecordPerAnswer
    BY DEF BridgeInv
  <1> QED
    BY <1>1, Invariance, PTL

\* Only an abandoned call leaves its tasks behind.
THEOREM TasksEndWithTheirCall == Spec => []OnlyAbandonedCallsLeaveTasks
  <1>1. BridgeInv => OnlyAbandonedCallsLeaveTasks
    BY DEF BridgeInv
  <1> QED
    BY <1>1, Invariance, PTL

-----------------------------------------------------------------------------
\* The instance carries its own copy of the standard operator.
LEMMA SameCardinality == \A S : Ledger!Cardinality(S) = Cardinality(S)
  BY DEF Ledger!Cardinality, Cardinality

\* The calls the ledger has inside are those in the try block.
LEMMA InsideIsTryBlock == Typing => Ledger!Inside = InTryBlock
  <1> SUFFICES ASSUME Typing, NEW c \in Calls
               PROVE  Stage[c] \in {"inside", "committed", "sent"}
                        <=> pc[c] \in {"admitted", "cleared"} \cup Waiting
    BY DEF Ledger!Inside, InTryBlock
  <1> QED
    BY DEF Typing, Stage, StageOf, Holding, Waiting

\* A step that moves one call, and its task at most, moves one stage.
LEMMA StageMoves ==
  ASSUME Typing, NEW c \in Calls, NEW p, NEW t, p = pc'[c], t = task'[c],
         \A d \in Calls \ {c} : pc'[d] = pc[d] /\ task'[d] = task[d]
  PROVE  Stage' = [Stage EXCEPT ![c] = StageOf(p, t)]
  BY DEF Typing, Stage

\* A call that is done has left the ledger, if its message was not waiting to
\* be sent.
LEMMA LeavingLeaves ==
  ASSUME Typing, NEW c \in Calls, c \in InTryBlock, shutdown' = shutdown,
         pc[c] # "cleared", pc[c] = "racing" => task[c] # "created",
         pc' = [pc EXCEPT ![c] = "done"],
         \A d \in Calls \ {c} : task'[d] = task[d]
  PROVE  Ledger!Leave(c)
  <1>1. \A d \in Calls \ {c} : pc'[d] = pc[d] /\ task'[d] = task[d]
    BY DEF Typing
  <1>2. pc'[c] = "done"
    BY DEF Typing
  <1>3. Stage' = [Stage EXCEPT ![c] = StageOf("done", task'[c])]
    BY <1>1, <1>2, StageMoves
  <1>4. StageOf("done", task'[c]) = "over"
    BY DEF StageOf, Waiting
  <1>5. Stage[c] \in {"inside", "sent"}
    BY DEF Typing, InTryBlock, Stage, StageOf, Waiting
  <1> QED
    BY <1>3, <1>4, <1>5 DEF Ledger!Leave

\* Moving between two awaits is invisible to the ledger, once the message is
\* sent.
LEMMA WaitingStays ==
  ASSUME Typing, NEW c \in Calls, pc[c] = "racing", task[c] # "created",
         NEW p \in {"cancelling", "collecting"}, pc' = [pc EXCEPT ![c] = p],
         \A d \in Calls \ {c} : task'[d] = task[d]
  PROVE  Stage' = Stage
  <1>1. \A d \in Calls \ {c} : pc'[d] = pc[d] /\ task'[d] = task[d]
    BY DEF Typing
  <1>2. pc'[c] = p
    BY DEF Typing
  <1>3. Stage' = [Stage EXCEPT ![c] = StageOf(p, task'[c])]
    BY <1>1, <1>2, StageMoves
  <1>4. StageOf(p, task'[c]) = "sent" /\ Stage[c] = "sent"
    BY DEF Stage, StageOf, Waiting
  <1> QED
    BY <1>3, <1>4 DEF Stage

LEMMA LedgerInitially == Init => Ledger!LedgerInit
  BY DEF Init, Ledger!LedgerInit, Stage, StageOf, Waiting

\* The head of forward(), step by step.
LEMMA HeadSteps ==
  ASSUME BridgeInv, NEW c \in Calls
  PROVE  /\ Arrive(c) => Ledger!TurnAway(c) \/ Ledger!Accept(c)
         /\ \A o \in Refusals : Refuse(c, o) => Ledger!TurnAway(c)
         /\ Admit(c) => Ledger!LetIn(c)
         /\ PassCheck(c) => Ledger!Commit(c)
         /\ DispatchNotification(c) => Ledger!Send(c)
         /\ DispatchRequest(c) => UNCHANGED Ledger!ledgerVars
  <1> USE DEF BridgeInv
  <1>1. ASSUME Arrive(c) PROVE Ledger!TurnAway(c) \/ Ledger!Accept(c)
    <2>1. Stage[c] = "new" /\ shutdown' = shutdown
      BY <1>1 DEF Arrive, Stage, StageOf, Waiting
    <2>2. CASE shutdown
      <3>1. Stage' = [Stage EXCEPT ![c] = "over"]
        BY <1>1, <2>2, StageMoves DEF Arrive, EndRecorded, Typing, StageOf, Waiting
      <3> QED
        BY <2>1, <3>1 DEF Ledger!TurnAway
    <2>3. CASE ~shutdown
      <3>1. Stage' = [Stage EXCEPT ![c] = "accepted"]
        BY <1>1, <2>3, StageMoves DEF Arrive, Typing, StageOf, Waiting
      <3> QED
        BY <2>1, <2>3, <3>1 DEF Ledger!Accept
    <2> QED
      BY <2>2, <2>3
  <1>2. ASSUME NEW o \in Refusals, Refuse(c, o) PROVE Ledger!TurnAway(c)
    <2>1. Stage' = [Stage EXCEPT ![c] = "over"] /\ Stage[c] = "accepted"
      BY <1>2, StageMoves DEF Refuse, EndRecorded, Typing, Stage, StageOf, Waiting
    <2> QED
      BY <1>2, <2>1 DEF Refuse, Ledger!TurnAway
  <1>3. ASSUME Admit(c) PROVE Ledger!LetIn(c)
    <2>1. Stage' = [Stage EXCEPT ![c] = "inside"] /\ Stage[c] = "accepted"
      BY <1>3, StageMoves DEF Admit, Typing, Stage, StageOf, Waiting
    <2>2. Ledger!Cardinality(Ledger!Inside) < QueueSize
      BY <1>3, InsideIsTryBlock, SameCardinality DEF Admit, SlotsMatchCalls
    <2>3. shutdown' = shutdown
      BY <1>3 DEF Admit
    <2> QED
      BY <2>1, <2>2, <2>3, Zenon DEF Ledger!LetIn
  <1>4. ASSUME PassCheck(c) PROVE Ledger!Commit(c)
    <2>1. Stage' = [Stage EXCEPT ![c] = "committed"] /\ Stage[c] = "inside"
      BY <1>4, StageMoves DEF PassCheck, Typing, Stage, StageOf, Waiting
    <2> QED
      BY <1>4, <2>1 DEF PassCheck, Ledger!Commit
  <1>5. ASSUME DispatchNotification(c) PROVE Ledger!Send(c)
    <2>1. Stage' = [Stage EXCEPT ![c] = "sent"] /\ Stage[c] = "committed"
      BY <1>5, StageMoves DEF DispatchNotification, Typing, Stage, StageOf, Waiting
    <2> QED
      BY <1>5, <2>1 DEF DispatchNotification, Ledger!Send
  <1>6. ASSUME DispatchRequest(c) PROVE UNCHANGED Ledger!ledgerVars
    <2>0. /\ pc[c] = "cleared" /\ pc'[c] = "racing" /\ task'[c] = "created"
          /\ \A d \in Calls \ {c} : pc'[d] = pc[d] /\ task'[d] = task[d]
      BY <1>6 DEF DispatchRequest, Typing
    <2>1. Stage' = [Stage EXCEPT ![c] = StageOf("racing", "created")]
      BY <2>0, StageMoves
    <2>2. StageOf("racing", "created") = "committed" /\ Stage[c] = "committed"
      BY <2>0 DEF Stage, StageOf, Waiting
    <2> QED
      BY <1>6, <2>1, <2>2 DEF DispatchRequest, Stage, Ledger!ledgerVars
  <1> QED
    BY <1>1, <1>2, <1>3, <1>4, <1>5, <1>6

\* The first step of a request task sends; a task that settles later is over
\* for the ledger, or was sent before.
LEMMA TaskSteps ==
  ASSUME BridgeInv, NEW c \in Calls
  PROVE  /\ StartRequestTask(c) => Ledger!Send(c)
         /\ \A answer : UpstreamSettles(c, answer) => UNCHANGED Ledger!ledgerVars
         /\ ShutdownWaiterFires(c) => UNCHANGED Ledger!ledgerVars
  <1> USE DEF BridgeInv
  <1>1. ASSUME StartRequestTask(c) PROVE Ledger!Send(c)
    <2>1. pc[c] = "racing"
      BY <1>1 DEF StartRequestTask, TasksFollow
    <2>2. pc' = pc /\ task' = [task EXCEPT ![c] = "running"] /\ task[c] = "created"
      BY <1>1 DEF StartRequestTask
    <2>3. Stage' = [Stage EXCEPT ![c] = StageOf("racing", "running")]
      BY <2>1, <2>2, StageMoves DEF Typing
    <2>4. StageOf("racing", "running") = "sent" /\ Stage[c] = "committed"
      BY <2>1, <2>2 DEF Stage, StageOf, Waiting
    <2> QED
      BY <1>1, <2>3, <2>4 DEF StartRequestTask, Ledger!Send
  <1>2. ASSUME NEW answer, UpstreamSettles(c, answer) PROVE UNCHANGED Ledger!ledgerVars
    <2>1. answer # "created" /\ task[c] # "created"
      BY <1>2 DEF UpstreamSettles, Answered
    <2>2. \A d \in Calls : pc'[d] = pc[d] /\ (d # c => task'[d] = task[d])
                          /\ task'[c] = answer
      BY <1>2 DEF UpstreamSettles, Typing
    <2>3. \A d \in Calls : StageOf(pc[d], task[d])' = StageOf(pc[d], task[d])
      BY <2>1, <2>2 DEF StageOf, Waiting
    <2> QED
      BY <1>2, <2>3 DEF UpstreamSettles, Stage, Ledger!ledgerVars
  <1>3. ASSUME ShutdownWaiterFires(c) PROVE UNCHANGED Ledger!ledgerVars
    BY <1>3 DEF ShutdownWaiterFires, Stage, Ledger!ledgerVars
  <1> QED
    BY <1>1, <1>2, <1>3

\* Every step of the bridge is a step of the ledger or leaves it alone.
LEMMA LedgerStep ==
  ASSUME BridgeInv, [Next]_vars
  PROVE  [Ledger!LedgerNext]_(Ledger!ledgerVars)
  <1> USE DEF BridgeInv
  <1>1. CASE UNCHANGED vars
    BY <1>1 DEF vars, Stage, Ledger!ledgerVars
  <1>2. CASE StartShutdown
    BY <1>2 DEF StartShutdown, Stage, Ledger!LedgerNext, Ledger!Close
  <1>3. ASSUME NEW c \in Calls,
               \/ RefuseInFlight(c) \/ NotificationSent(c) \/ NotificationRaises(c)
               \/ ShutdownWinsLate(c) \/ CancelTakesEffect(c) \/ CollectAnswer(c) \/ Abandon(c)
        PROVE  Ledger!Leave(c)
    <2>1. pc' = [pc EXCEPT ![c] = "done"] /\ shutdown' = shutdown
      BY <1>3
         DEF RefuseInFlight, NotificationSent, NotificationRaises, ShutdownWinsLate,
         CancelTakesEffect, CollectAnswer, Abandon, EndRecorded, EndUnrecorded
    <2>2. c \in InTryBlock /\ pc[c] # "cleared" /\ (pc[c] = "racing" => task[c] # "created")
      BY <1>3
         DEF RefuseInFlight, NotificationSent, NotificationRaises, ShutdownWinsLate,
         CancelTakesEffect, CollectAnswer, Abandon, InTryBlock, Waiting, Answered
    <2>3. \A d \in Calls \ {c} : task'[d] = task[d]
      BY <1>3
         DEF RefuseInFlight, NotificationSent, NotificationRaises, ShutdownWinsLate,
         CancelTakesEffect, CollectAnswer, Abandon, Typing
    <2> QED
      BY <2>1, <2>2, <2>3, LeavingLeaves
  <1>4. ASSUME NEW c \in Calls, ShutdownWins(c) \/ RequestWins(c)
        PROVE  UNCHANGED Ledger!ledgerVars
    <2>1. task[c] # "created"
      BY <1>4 DEF ShutdownWins, RequestWins, TasksFollow, Settled, Answered
    <2>2. pc[c] = "racing" /\ shutdown' = shutdown
          /\ \A d \in Calls \ {c} : task'[d] = task[d]
      BY <1>4 DEF ShutdownWins, RequestWins, Typing
    <2> QED
      BY <1>4, <2>1, <2>2, WaitingStays DEF ShutdownWins, RequestWins, Ledger!ledgerVars
  <1> QED
    BY <1>1, <1>2, <1>3, <1>4, HeadSteps, TaskSteps
       DEF Next, Resume, Environment, Ledger!LedgerNext

\* The bridge implements ForwardLedger.
THEOREM BridgeImplementsLedger == Spec => ImplementsLedger
  <1>1. BridgeInv /\ [Next]_vars => [Ledger!LedgerNext]_(Ledger!ledgerVars)
    BY LedgerStep
  <1> QED
    BY <1>1, LedgerInitially, Invariance, PTL DEF Spec, ImplementsLedger, Ledger!LedgerSpec
==============================================================================
