------------------------- MODULE StdioTransportProofs --------------------------
(***************************************************************************)
(* Proofs about StdioTransport, for any calls and ids and any number of    *)
(* processes.                                                              *)
(*                                                                         *)
(* The invariant has three parts.  TableInv is about the table of futures: *)
(* a call has its id and its future from the moment it is entered, so      *)
(* whoever finds it under an id may resolve it.  AnswerInv is about what   *)
(* the process was sent: a request it holds is open, one that was answered *)
(* was written, and an answer has the id of its request.  ProcessInv is    *)
(* about the reader and the process: a reader that is active belongs to    *)
(* the process that requests are written to, and a live process has a      *)
(* reader, a stop() that is not over, or a task whose crash every stop()   *)
(* runs into.                                                              *)
(***************************************************************************)
EXTENDS StdioTransport, TLAPS

(***************************************************************************)
(* The table of futures.                                                   *)
(***************************************************************************)
CallTypes ==
  /\ held \in [Spawns -> SUBSET Calls]
  /\ pending \in [Ids -> Calls \cup {NoCall}]
  /\ future \in [Calls -> {"none", "unset", "null", "reply", "cancelled"}]
  /\ answers \in [Calls -> Calls \cup {NoCall}]
  /\ idOf \in [Calls -> Ids \cup {NoId}]
  /\ pc \in [Calls -> {"new", "locking", "draining", "awaiting", "done"}]
  /\ target \in [Calls -> Spawns \cup {NoProc}]
  /\ writer \in Calls \cup {NoCall}

\* A call that has not started is nowhere in the table.
NewIsUnknown == \A c \in Calls : pc[c] = "new" => idOf[c] = NoId

\* A process answers requests, not notifications.
HeldAreRequests == \A g \in Spawns : \A c \in held[g] : idOf[c] # NoId

TableInv ==
  CallTypes /\ NewIsUnknown /\ HeldAreRequests /\ NoLostWaiter /\ PendingUnresolved

\* Where no call and no process takes a step, the table stays exact.
LEMMA TableStays ==
  ASSUME TableInv, UNCHANGED <<callVars, held>>
  PROVE  TableInv'
<1>1. UNCHANGED <<pending, future, answers, idOf, pc, target, writer, held>>
  BY DEF callVars
<1>2. CallTypes'
  BY <1>1 DEF TableInv, CallTypes
<1>3. NewIsUnknown' /\ HeldAreRequests'
  BY <1>1 DEF TableInv, NewIsUnknown, HeldAreRequests
<1>4. NoLostWaiter' /\ PendingUnresolved'
  BY <1>1 DEF TableInv, NoLostWaiter, PendingUnresolved, Requests
<1> QED BY <1>2, <1>3, <1>4 DEF TableInv

\* A call is entered, and queues for the lock or writes its line.
LEMMA Enters ==
  ASSUME TableInv, NEW c \in Calls, NEW i \in IdsOf[c], EnterTable(c, i),
         pc[c] = "new", NEW q \in {"locking", "draining"}, pc' = [pc EXCEPT ![c] = q],
         answers' = answers, writer' \in Calls \cup {NoCall},
         target' \in [Calls -> Spawns \cup {NoProc}], held' \in [Spawns -> SUBSET Calls],
         \A g \in Spawns : \A d \in held'[g] : d \in held[g] \/ (d = c /\ i # NoId)
  PROVE  TableInv'
<1>1. CallTypes /\ NewIsUnknown /\ HeldAreRequests /\ NoLostWaiter /\ PendingUnresolved
  BY DEF TableInv
<1>2. i \in Ids \cup {NoId}
  BY StdioAssumption
<1>3. idOf[c] = NoId
  BY <1>1 DEF NewIsUnknown
<1>4. /\ idOf' = [idOf EXCEPT ![c] = i]
      /\ future' = IF i = NoId THEN future ELSE [future EXCEPT ![c] = "unset"]
      /\ pending' = IF i = NoId THEN pending ELSE [pending EXCEPT ![i] = c]
  BY DEF EnterTable
<1>5. idOf'[c] = i /\ \A d \in Calls \ {c} : idOf'[d] = idOf[d] /\ future'[d] = future[d]
  BY <1>1, <1>4 DEF CallTypes
<1>6. pc'[c] = q /\ \A d \in Calls \ {c} : pc'[d] = pc[d]
  BY <1>1 DEF CallTypes
<1>7. CallTypes'
  <2>1. future' \in [Calls -> {"none", "unset", "null", "reply", "cancelled"}]
    BY <1>1, <1>4 DEF CallTypes
  <2>2. pending' \in [Ids -> Calls \cup {NoCall}]
    BY <1>1, <1>4 DEF CallTypes
  <2>3. idOf' \in [Calls -> Ids \cup {NoId}]
    BY <1>1, <1>2, <1>4 DEF CallTypes
  <2>4. pc' \in [Calls -> {"new", "locking", "draining", "awaiting", "done"}]
    BY <1>1 DEF CallTypes
  <2> QED BY <1>1, <2>1, <2>2, <2>3, <2>4 DEF CallTypes
<1>8. NewIsUnknown'
  BY <1>1, <1>5, <1>6 DEF NewIsUnknown
<1>9. HeldAreRequests'
  <2> SUFFICES ASSUME NEW g \in Spawns, NEW d \in held'[g] PROVE idOf'[d] # NoId
    BY DEF HeldAreRequests
  <2>1. d \in Calls
    BY <1>7 DEF CallTypes
  <2>2. d \in held[g] => idOf[d] # NoId
    BY <1>1 DEF HeldAreRequests
  <2> QED BY <1>3, <1>5, <2>1, <2>2
<1>10. Requests \subseteq Requests' /\ (i # NoId => c \in Requests')
  BY <1>3, <1>5 DEF Requests
<1>11. NoLostWaiter'
  <2> SUFFICES ASSUME NEW e \in Requests', pc'[e] \in InRequest, future'[e] = "unset"
               PROVE  \/ pending'[idOf'[e]] = e
                      \/ \E d \in Requests' \ {e} : idOf'[d] = idOf'[e]
    BY DEF NoLostWaiter
  <2>1. e \in Calls /\ idOf'[e] # NoId
    BY DEF Requests
  <2>2. CASE e = c
    <3>1. i # NoId /\ i \in Ids
      BY <1>2, <1>5, <2>1, <2>2
    <3> QED BY <1>1, <1>4, <1>5, <2>2, <3>1 DEF CallTypes
  <2>3. CASE e # c
    <3>1. e \in Requests /\ pc[e] \in InRequest /\ future[e] = "unset" /\ idOf'[e] = idOf[e]
      BY <1>5, <1>6, <2>1, <2>3 DEF Requests
    <3>2. CASE \E d \in Requests \ {e} : idOf[d] = idOf[e]
      <4>1. PICK d \in Requests \ {e} : idOf[d] = idOf[e]
        BY <3>2
      <4>2. d # c /\ d \in Calls
        BY <1>3, <4>1 DEF Requests
      <4> QED BY <1>5, <1>10, <3>1, <4>1, <4>2
    <3>3. CASE pending[idOf[e]] = e
      <4>1. CASE i # NoId /\ idOf[e] = i
        BY <1>5, <1>10, <2>3, <3>1, <4>1
      <4>2. CASE i = NoId \/ idOf[e] # i
        BY <1>1, <1>4, <3>1, <3>3, <4>2 DEF CallTypes
      <4> QED BY <4>1, <4>2
    <3> QED BY <1>1, <3>1, <3>2, <3>3 DEF NoLostWaiter
  <2> QED BY <2>2, <2>3
<1>12. PendingUnresolved'
  <2> SUFFICES ASSUME NEW j \in Ids, pending'[j] # NoCall
               PROVE  /\ idOf'[pending'[j]] = j
                      /\ future'[pending'[j]] \in {"unset", "cancelled"}
    BY DEF PendingUnresolved
  <2>1. CASE i # NoId /\ j = i
    <3>1. pending'[j] = c
      BY <1>1, <1>4, <2>1 DEF CallTypes
    <3>2. future'[c] = "unset"
      BY <1>1, <1>4, <2>1 DEF CallTypes
    <3> QED BY <1>5, <2>1, <3>1, <3>2
  <2>2. CASE i = NoId \/ j # i
    <3>1. pending'[j] = pending[j] /\ pending[j] \in Calls
      BY <1>1, <1>4, <1>7, <2>2 DEF CallTypes
    <3>2. idOf[pending[j]] = j /\ future[pending[j]] \in {"unset", "cancelled"}
      BY <1>1, <3>1 DEF PendingUnresolved
    <3>3. pending[j] # c
      BY <1>3, <3>2, StdioAssumption
    <3> QED BY <1>5, <3>1, <3>2, <3>3
  <2> QED BY <2>1, <2>2
<1> QED BY <1>7, <1>8, <1>9, <1>11, <1>12 DEF TableInv

\* A call goes on from one await to the next, or ends; at its end its future may
\* be cancelled.
LEMMA CallMoves ==
  ASSUME TableInv, NEW c \in Calls, NEW q \in {"draining", "awaiting", "done"},
         pc[c] \in InRequest \/ q = "done", pc' = [pc EXCEPT ![c] = q],
         NEW f, future' = [future EXCEPT ![c] = f],
         f = future[c] \/ (future[c] = "unset" /\ f = "cancelled" /\ q = "done"),
         UNCHANGED <<pending, answers, idOf>>, writer' \in Calls \cup {NoCall},
         target' \in [Calls -> Spawns \cup {NoProc}], held' \in [Spawns -> SUBSET Calls],
         \A g \in Spawns : \A d \in held'[g] : d \in held[g] \/ (d = c /\ idOf[c] # NoId)
  PROVE  TableInv'
<1>1. CallTypes /\ NewIsUnknown /\ HeldAreRequests /\ NoLostWaiter /\ PendingUnresolved
  BY DEF TableInv
<1>2. pc'[c] = q /\ future'[c] = f
  BY <1>1 DEF CallTypes
<1>3. \A d \in Calls \ {c} : pc'[d] = pc[d] /\ future'[d] = future[d]
  BY <1>1 DEF CallTypes
<1>4. CallTypes'
  <2>1. future' \in [Calls -> {"none", "unset", "null", "reply", "cancelled"}]
    BY <1>1 DEF CallTypes
  <2>2. pc' \in [Calls -> {"new", "locking", "draining", "awaiting", "done"}]
    BY <1>1 DEF CallTypes
  <2> QED BY <1>1, <2>1, <2>2 DEF CallTypes
<1>5. NewIsUnknown'
  BY <1>1, <1>2, <1>3 DEF NewIsUnknown
<1>6. HeldAreRequests'
  BY <1>1 DEF HeldAreRequests
<1>7. Requests' = Requests
  BY DEF Requests
<1>8. NoLostWaiter'
  <2> SUFFICES ASSUME NEW e \in Requests, pc'[e] \in InRequest, future'[e] = "unset"
               PROVE  \/ pending[idOf[e]] = e
                      \/ \E d \in Requests \ {e} : idOf[d] = idOf[e]
    BY <1>7 DEF NoLostWaiter
  <2>1. pc[e] \in InRequest /\ future[e] = "unset"
    BY <1>2, <1>3 DEF Requests, InRequest
  <2> QED BY <1>1, <2>1 DEF NoLostWaiter
<1>9. PendingUnresolved'
  <2> SUFFICES ASSUME NEW j \in Ids, pending[j] # NoCall
               PROVE  idOf[pending[j]] = j /\ future'[pending[j]] \in {"unset", "cancelled"}
    BY DEF PendingUnresolved
  <2>1. pending[j] \in Calls /\ idOf[pending[j]] = j /\ future[pending[j]] \in {"unset", "cancelled"}
    BY <1>1 DEF CallTypes, PendingUnresolved
  <2> QED BY <1>2, <1>3, <2>1
<1> QED BY <1>4, <1>5, <1>6, <1>8, <1>9 DEF TableInv

\* A line resolves the future that is entered under its id.
LEMMA Resolves ==
  ASSUME TableInv, NEW i \in Ids, NEW x \in Calls \cup {NoCall}, Resolve(i, x),
         UNCHANGED <<idOf, pc, target, writer>>, held' \in [Spawns -> SUBSET Calls],
         \A g \in Spawns : held'[g] \subseteq held[g]
  PROVE  TableInv'
<1>1. CallTypes /\ NewIsUnknown /\ HeldAreRequests /\ NoLostWaiter /\ PendingUnresolved
  BY DEF TableInv
<1>2. PICK d \in Calls : d = pending[i]
  BY <1>1 DEF Resolve, CallTypes
<1>3. idOf[d] = i /\ d # NoCall
  BY <1>1, <1>2, StdioAssumption DEF PendingUnresolved
<1>4. PICK f \in {"reply", "none", "null", "cancelled"} : future' = [future EXCEPT ![d] = f]
  <2>1. future' = [future EXCEPT ![d] = IF future[d] = "unset" THEN "reply" ELSE future[d]]
    BY <1>2 DEF Resolve
  <2>2. future[d] \in {"none", "unset", "null", "reply", "cancelled"}
    BY <1>1 DEF CallTypes
  <2> QED BY <2>1, <2>2
<1>5. pending' = [pending EXCEPT ![i] = NoCall]
  BY DEF Resolve
<1>6. CallTypes'
  <2>1. answers' \in [Calls -> Calls \cup {NoCall}]
    <3>1. PICK y \in Calls \cup {NoCall} : answers' = [answers EXCEPT ![d] = y]
      BY <1>1, <1>2 DEF Resolve, CallTypes
    <3> QED BY <1>1, <3>1 DEF CallTypes
  <2>2. future' \in [Calls -> {"none", "unset", "null", "reply", "cancelled"}]
    BY <1>1, <1>4 DEF CallTypes
  <2>3. pending' \in [Ids -> Calls \cup {NoCall}]
    BY <1>1, <1>5 DEF CallTypes
  <2> QED BY <1>1, <2>1, <2>2, <2>3 DEF CallTypes
<1>7. NewIsUnknown'
  BY <1>1 DEF NewIsUnknown
<1>8. HeldAreRequests'
  BY <1>1 DEF HeldAreRequests
<1>9. Requests' = Requests
  BY DEF Requests
<1>10. NoLostWaiter'
  <2> SUFFICES ASSUME NEW e \in Requests, pc[e] \in InRequest, future'[e] = "unset"
               PROVE  \/ pending'[idOf[e]] = e
                      \/ \E b \in Requests \ {e} : idOf[b] = idOf[e]
    BY <1>9 DEF NoLostWaiter
  <2>1. e # d /\ future[e] = "unset"
    BY <1>1, <1>4 DEF CallTypes, Requests
  <2>2. CASE idOf[e] = i
    <3>1. d \in Requests \ {e}
      BY <1>3, <2>1, StdioAssumption DEF Requests
    <3> QED BY <1>3, <2>2, <3>1
  <2>3. CASE idOf[e] # i
    <3>1. pending'[idOf[e]] = pending[idOf[e]]
      BY <1>1, <1>5, <2>3 DEF CallTypes, Requests
    <3> QED BY <1>1, <2>1, <3>1 DEF NoLostWaiter
  <2> QED BY <2>2, <2>3
<1>11. PendingUnresolved'
  <2> SUFFICES ASSUME NEW j \in Ids, pending'[j] # NoCall
               PROVE  idOf[pending'[j]] = j /\ future'[pending'[j]] \in {"unset", "cancelled"}
    BY DEF PendingUnresolved
  <2>1. pending'[j] = pending[j] /\ j # i /\ pending[j] \in Calls
    BY <1>1, <1>5 DEF CallTypes
  <2>2. idOf[pending[j]] = j /\ future[pending[j]] \in {"unset", "cancelled"}
    BY <1>1, <2>1 DEF PendingUnresolved
  <2>3. pending[j] # d
    BY <1>3, <2>1, <2>2
  <2> QED BY <1>1, <1>4, <2>1, <2>2, <2>3 DEF CallTypes
<1> QED BY <1>6, <1>7, <1>8, <1>10, <1>11 DEF TableInv

\* After a flush the table is empty, and nobody who was in it waits.
LEMMA Flushes ==
  ASSUME TableInv, FlushPending, held' = held
  PROVE  TableInv'
<1>1. CallTypes /\ NewIsUnknown /\ HeldAreRequests /\ NoLostWaiter /\ PendingUnresolved
  BY DEF TableInv
<1>2. /\ future' = [c \in Calls |-> IF future[c] = "unset" /\ \E i \in Ids : pending[i] = c
                                    THEN "null" ELSE future[c]]
      /\ pending' = [i \in Ids |-> NoCall]
      /\ UNCHANGED <<answers, idOf, pc, target, writer>>
  BY DEF FlushPending
<1>3. CallTypes'
  <2>1. future' \in [Calls -> {"none", "unset", "null", "reply", "cancelled"}]
    BY <1>1, <1>2 DEF CallTypes
  <2> QED BY <1>1, <1>2, <2>1 DEF CallTypes
<1>4. NewIsUnknown' /\ HeldAreRequests'
  BY <1>1, <1>2 DEF NewIsUnknown, HeldAreRequests
<1>5. Requests' = Requests
  BY <1>2 DEF Requests
<1>6. NoLostWaiter'
  <2> SUFFICES ASSUME NEW e \in Requests, pc[e] \in InRequest, future'[e] = "unset"
               PROVE  \E b \in Requests \ {e} : idOf[b] = idOf[e]
    BY <1>2, <1>5 DEF NoLostWaiter
  <2>1. idOf[e] \in Ids
    BY <1>1 DEF CallTypes, Requests
  <2>2. future[e] = "unset" /\ pending[idOf[e]] # e
    BY <1>2, <2>1 DEF Requests
  <2> QED BY <1>1, <2>2 DEF NoLostWaiter
<1>7. PendingUnresolved'
  BY <1>2 DEF PendingUnresolved
<1> QED BY <1>3, <1>4, <1>6, <1>7 DEF TableInv

\* The line of a call goes to a process, or nowhere.
LEMMA LineWritten ==
  ASSUME TableInv, proc \in Spawns, NEW c \in Calls, NEW i, WriteLine(c, i)
  PROVE  /\ pc' = [pc EXCEPT ![c] = "draining"] /\ writer' = c
         /\ target' \in [Calls -> Spawns \cup {NoProc}]
         /\ held' \in [Spawns -> SUBSET Calls]
         /\ \A g \in Spawns : \A d \in held'[g] : d \in held[g] \/ (d = c /\ i # NoId)
<1>1. CallTypes
  BY DEF TableInv
<1>2. target' \in [Calls -> Spawns \cup {NoProc}]
  BY <1>1 DEF CallTypes, WriteLine
<1>3. CASE i # NoId /\ held' = [held EXCEPT ![proc] = @ \cup {c}]
  BY <1>1, <1>2, <1>3 DEF CallTypes, WriteLine
<1>4. CASE held' = held
  BY <1>1, <1>2, <1>4 DEF CallTypes, WriteLine
<1> QED BY <1>3, <1>4 DEF WriteLine

\* Every step of a call keeps the table exact.
LEMMA CallStepKeepsTable ==
  ASSUME TableInv, proc \in Spawns \cup {NoProc}, NEW c \in Calls, CallStep(c)
  PROVE  TableInv'
<1>1. CallTypes
  BY DEF TableInv
<1>2. future = [future EXCEPT ![c] = future[c]] /\ future[c] = future[c]
  BY <1>1 DEF CallTypes
<1>3. \A g \in Spawns : \A d \in held[g] : d \in held[g]
  OBVIOUS
<1>4. CASE RequestWithoutProcess(c)
  BY <1>1, <1>2, <1>4, CallMoves DEF RequestWithoutProcess, CallTypes
<1>5. ASSUME NEW i \in IdsOf[c], RequestWritesAtOnce(c, i)
      PROVE  TableInv'
  <2>1. proc \in Spawns
    BY <1>5 DEF RequestWritesAtOnce
  <2>2. /\ pc' = [pc EXCEPT ![c] = "draining"] /\ writer' = c
        /\ target' \in [Calls -> Spawns \cup {NoProc}]
        /\ held' \in [Spawns -> SUBSET Calls]
        /\ \A g \in Spawns : \A d \in held'[g] : d \in held[g] \/ (d = c /\ i # NoId)
    BY <1>5, <2>1, LineWritten DEF RequestWritesAtOnce
  <2> QED BY <1>5, <2>2, Enters DEF RequestWritesAtOnce
<1>6. ASSUME NEW i \in IdsOf[c], RequestQueuesForLock(c, i)
      PROVE  TableInv'
  BY <1>1, <1>6, Enters DEF RequestQueuesForLock, CallTypes
<1>7. CASE LockGranted(c)
  <2>1. proc \in Spawns
    BY <1>7 DEF LockGranted
  <2>2. /\ pc' = [pc EXCEPT ![c] = "draining"] /\ writer' = c
        /\ target' \in [Calls -> Spawns \cup {NoProc}]
        /\ held' \in [Spawns -> SUBSET Calls]
        /\ \A g \in Spawns : \A d \in held'[g] : d \in held[g] \/ (d = c /\ idOf[c] # NoId)
    BY <1>7, <2>1, LineWritten DEF LockGranted
  <2>3. pc[c] \in InRequest /\ UNCHANGED <<pending, future, answers, idOf>>
    BY <1>7 DEF LockGranted, InRequest
  <2> QED BY <1>2, <2>2, <2>3, CallMoves
<1>8. CASE LockGrantedWithoutProcess(c)
  BY <1>1, <1>2, <1>8, CallMoves DEF LockGrantedWithoutProcess, CallTypes
<1>9. CASE Drained(c)
  <2>1. PICK q \in {"draining", "awaiting", "done"} : pc' = [pc EXCEPT ![c] = q]
    BY <1>9 DEF Drained
  <2>2. /\ pc[c] \in InRequest /\ writer' = NoCall
        /\ UNCHANGED <<pending, future, answers, idOf, target, held>>
    BY <1>9 DEF Drained, InRequest
  <2> QED BY <1>1, <1>2, <2>1, <2>2, CallMoves DEF CallTypes
<1>10. CASE DrainRaises(c)
  BY <1>1, <1>2, <1>10, CallMoves DEF DrainRaises, CallTypes
<1>11. CASE RequestReturns(c)
  BY <1>1, <1>2, <1>11, CallMoves DEF RequestReturns, CallTypes
<1>12. CASE CancelRequest(c)
  <2>1. PICK f : /\ future' = [future EXCEPT ![c] = f]
                 /\ f = future[c] \/ (future[c] = "unset" /\ f = "cancelled")
    BY <1>12 DEF CancelRequest
  <2>2. /\ pc' = [pc EXCEPT ![c] = "done"] /\ writer' \in Calls \cup {NoCall}
        /\ UNCHANGED <<pending, answers, idOf, target, held>>
    BY <1>1, <1>12 DEF CancelRequest, CallTypes
  <2> QED BY <1>1, <2>1, <2>2, CallMoves DEF CallTypes
<1> QED BY <1>4, <1>5, <1>6, <1>7, <1>8, <1>9, <1>10, <1>11, <1>12 DEF CallStep

\* Every step of a reader does.
LEMMA ReaderStepKeepsTable ==
  ASSUME TableInv, NEW g \in Spawns, ReaderStep(g)
  PROVE  TableInv'
<1>1. CallTypes /\ HeldAreRequests
  BY DEF TableInv
<1>2. ASSUME NEW c \in Calls, ReadReply(g, c)
      PROVE  TableInv'
  <2>1. idOf[c] \in Ids
    BY <1>1, <1>2 DEF ReadReply, CallTypes, HeldAreRequests
  <2>2. held' \in [Spawns -> SUBSET Calls] /\ \A h \in Spawns : held'[h] \subseteq held[h]
    BY <1>1, <1>2 DEF ReadReply, CallTypes
  <2>3. UNCHANGED <<idOf, pc, target, writer>>
    BY <1>2 DEF ReadReply
  <2>4. CASE Resolve(idOf[c], c)
    BY <2>1, <2>2, <2>3, <2>4, Resolves
  <2>5. CASE UNCHANGED <<pending, future, answers>>
    <3>1. CallTypes'
      BY <1>1, <2>2, <2>3, <2>5 DEF CallTypes
    <3>2. HeldAreRequests'
      BY <1>1, <2>2, <2>3 DEF HeldAreRequests
    <3>3. NewIsUnknown' /\ NoLostWaiter' /\ PendingUnresolved'
      BY <2>3, <2>5 DEF TableInv, NewIsUnknown, NoLostWaiter, PendingUnresolved, Requests
    <3> QED BY <3>1, <3>2, <3>3 DEF TableInv
  <2> QED BY <1>2, <2>4, <2>5 DEF ReadReply
<1>3. ASSUME NEW i \in Ids, ReadServerRequest(g, i)
      PROVE  TableInv'
  BY <1>1, <1>3, Resolves DEF ReadServerRequest, CallTypes
<1>4. CASE EndOfFile(g)
  BY <1>4, Flushes DEF EndOfFile
<1>5. CASE BackoffOver(g) \/ Respawn(g) \/ RespawnFails(g) \/ ReaderCrashes(g)
  BY <1>5, TableStays DEF BackoffOver, Respawn, RespawnFails, ReaderCrashes
<1> QED BY <1>2, <1>3, <1>4, <1>5 DEF ReaderStep

\* So does every step of a start, a stop or a restart.
LEMMA LifecycleStepKeepsTable ==
  ASSUME TableInv, LifecycleStep
  PROVE  TableInv'
<1>1. CASE FlushAndCloseStdin
  BY <1>1, Flushes DEF FlushAndCloseStdin
<1>2. CASE \/ BeginStart \/ StartSpawns \/ StartFails \/ StopRaises \/ StopRaisesAtStderr
           \/ ProcessReaped \/ StopCancelled
           \/ BeginStop("stopping") \/ BeginStop("stopping to restart")
  BY <1>2, TableStays DEF BeginStart, StartSpawns, StartFails, StopRaises, StopRaisesAtStderr,
     ProcessReaped, StopCancelled, BeginStop
<1> QED BY <1>1, <1>2 DEF LifecycleStep, StopGoesOn

(***************************************************************************)
(* The answers.                                                            *)
(***************************************************************************)
Unwritten == {"new", "locking"}

\* A request is with one process at a time, and not answered yet.
HeldIsOpen ==
  \A g \in Spawns : \A c \in held[g] :
    /\ pc[c] \notin Unwritten
    /\ \A h \in Spawns : c \in held[h] => h = g
    /\ \A d \in Calls : answers[d] # c

AnsweredWasWritten ==
  \A d \in Calls : answers[d] # NoCall =>
    pc[answers[d]] \notin Unwritten /\ idOf[answers[d]] # NoId

AnswerInv == HeldIsOpen /\ AnsweredWasWritten /\ AnswersFit

\* A call writes its line once, and its id does not change from then on.
LEMMA CallEffects ==
  ASSUME CallTypes, proc \in Spawns \cup {NoProc}, NEW c \in Calls, CallStep(c)
  PROVE  /\ answers' = answers
         /\ \A d \in Calls : d # c => pc'[d] = pc[d] /\ idOf'[d] = idOf[d]
         /\ pc[c] \notin Unwritten => pc'[c] \notin Unwritten
         /\ pc[c] # "new" => idOf'[c] = idOf[c]
         /\ \/ held' = held
            \/ /\ pc[c] \in Unwritten /\ pc'[c] \notin Unwritten /\ proc \in Spawns
               /\ held' = [held EXCEPT ![proc] = held[proc] \cup {c}]
<1> USE DEF CallTypes, Unwritten
<1>1. CASE RequestWithoutProcess(c)
  BY <1>1 DEF RequestWithoutProcess
<1>2. ASSUME NEW i \in IdsOf[c], RequestWritesAtOnce(c, i)
      PROVE  /\ answers' = answers /\ pc[c] = "new" /\ pc' = [pc EXCEPT ![c] = "draining"]
             /\ idOf' = [idOf EXCEPT ![c] = i] /\ proc \in Spawns
             /\ held' = held \/ held' = [held EXCEPT ![proc] = held[proc] \cup {c}]
  BY <1>2 DEF RequestWritesAtOnce, EnterTable, WriteLine
<1>3. ASSUME NEW i \in IdsOf[c], RequestQueuesForLock(c, i)
      PROVE  /\ answers' = answers /\ pc[c] = "new" /\ pc' = [pc EXCEPT ![c] = "locking"]
             /\ idOf' = [idOf EXCEPT ![c] = i] /\ held' = held
  BY <1>3 DEF RequestQueuesForLock, EnterTable
<1>4. CASE LockGranted(c)
  <2>1. /\ answers' = answers /\ pc[c] = "locking" /\ pc' = [pc EXCEPT ![c] = "draining"]
        /\ idOf' = idOf /\ proc \in Spawns
        /\ held' = held \/ held' = [held EXCEPT ![proc] = held[proc] \cup {c}]
    BY <1>4 DEF LockGranted, WriteLine
  <2> QED BY <2>1
<1>5. CASE LockGrantedWithoutProcess(c)
  BY <1>5 DEF LockGrantedWithoutProcess
<1>6. CASE Drained(c) \/ DrainRaises(c)
  BY <1>6 DEF Drained, DrainRaises
<1>7. CASE RequestReturns(c) \/ CancelRequest(c)
  BY <1>7 DEF RequestReturns, CancelRequest
<1> QED BY <1>1, <1>2, <1>3, <1>4, <1>5, <1>6, <1>7 DEF CallStep

LEMMA CallStepKeepsAnswers ==
  ASSUME TableInv, AnswerInv, proc \in Spawns \cup {NoProc}, NEW c \in Calls, CallStep(c)
  PROVE  AnswerInv'
<1>1. /\ CallTypes /\ NewIsUnknown /\ HeldIsOpen /\ AnsweredWasWritten /\ AnswersFit
      /\ \A g \in Spawns : held[g] \subseteq Calls
      /\ \A d \in Calls : answers[d] \in Calls \cup {NoCall}
  BY DEF TableInv, AnswerInv, CallTypes
<1>2. /\ answers' = answers
      /\ \A d \in Calls : d # c => pc'[d] = pc[d] /\ idOf'[d] = idOf[d]
      /\ pc[c] \notin Unwritten => pc'[c] \notin Unwritten
      /\ pc[c] # "new" => idOf'[c] = idOf[c]
      /\ \/ held' = held
         \/ /\ pc[c] \in Unwritten /\ pc'[c] \notin Unwritten /\ proc \in Spawns
            /\ held' = [held EXCEPT ![proc] = held[proc] \cup {c}]
  BY <1>1, CallEffects
<1>3. \A d \in Calls : pc[d] \notin Unwritten => pc'[d] \notin Unwritten /\ idOf'[d] = idOf[d]
  BY <1>2 DEF Unwritten
<1>4. pc[c] \in Unwritten =>
        /\ \A g \in Spawns : c \notin held[g]
        /\ \A d \in Calls : answers[d] # c
  BY <1>1, StdioAssumption DEF HeldIsOpen, AnsweredWasWritten
<1>5. AnsweredWasWritten'
  BY <1>1, <1>2, <1>3 DEF AnsweredWasWritten
<1>6. AnswersFit'
  <2> SUFFICES ASSUME NEW d \in Calls, answers[d] # NoCall
               PROVE  /\ idOf'[answers[d]] = idOf'[d]
                      /\ \A e \in Calls \ {d} : answers[e] # answers[d]
    BY <1>2 DEF AnswersFit
  <2>1. /\ answers[d] \in Calls /\ idOf'[answers[d]] = idOf[answers[d]]
        /\ idOf[answers[d]] = idOf[d] /\ idOf[d] # NoId
        /\ \A e \in Calls \ {d} : answers[e] # answers[d]
    BY <1>1, <1>3 DEF AnsweredWasWritten, AnswersFit
  <2>2. idOf'[d] = idOf[d]
    BY <1>1, <1>2, <2>1 DEF NewIsUnknown
  <2> QED BY <2>1, <2>2
<1>7. HeldIsOpen'
  <2>1. CASE held' = held
    BY <1>1, <1>2, <1>3, <2>1 DEF HeldIsOpen
  <2>2. CASE /\ pc[c] \in Unwritten /\ pc'[c] \notin Unwritten /\ proc \in Spawns
             /\ held' = [held EXCEPT ![proc] = held[proc] \cup {c}]
    <3>1. \A g \in Spawns : held'[g] = IF g = proc THEN held[proc] \cup {c} ELSE held[g]
      BY <1>1, <2>2 DEF CallTypes
    <3>2. ASSUME NEW g \in Spawns, NEW d \in held'[g], d # c
          PROVE  /\ d \in held[g] /\ d \in Calls /\ pc'[d] \notin Unwritten
                 /\ \A h \in Spawns : d \in held'[h] => h = g
                 /\ \A e \in Calls : answers'[e] # d
      BY <1>1, <1>2, <1>3, <3>1, <3>2 DEF HeldIsOpen
    <3>3. \A g \in Spawns : c \in held'[g] <=> g = proc
      BY <1>4, <2>2, <3>1
    <3>4. ASSUME NEW g \in Spawns, c \in held'[g]
          PROVE  /\ pc'[c] \notin Unwritten
                 /\ \A h \in Spawns : c \in held'[h] => h = g
                 /\ \A e \in Calls : answers'[e] # c
      BY <1>2, <1>4, <2>2, <3>3, <3>4
    <3> QED BY <3>2, <3>4 DEF HeldIsOpen
  <2> QED BY <1>2, <2>1, <2>2
<1> QED BY <1>5, <1>6, <1>7 DEF AnswerInv

LEMMA AnswersStay ==
  ASSUME AnswerInv, UNCHANGED <<answers, idOf, pc, held>>
  PROVE  AnswerInv'
BY DEF AnswerInv, HeldIsOpen, AnsweredWasWritten, AnswersFit

\* A line from the process: a reply uses up the request that it answers, and
\* what it resolves has the id it carries.
LEMMA LineKeepsAnswers ==
  ASSUME TableInv, AnswerInv, NEW i \in Ids, NEW x \in Calls \cup {NoCall}, Resolve(i, x),
         UNCHANGED <<idOf, pc>>,
         \A g \in Spawns : held'[g] \subseteq held[g] /\ x \notin held'[g],
         x # NoCall => idOf[x] = i /\ \E g \in Spawns : x \in held[g]
  PROVE  AnswerInv'
<1>1. /\ CallTypes /\ PendingUnresolved /\ HeldIsOpen /\ AnsweredWasWritten /\ AnswersFit
      /\ \A d \in Calls : answers[d] \in Calls \cup {NoCall}
      /\ \A g \in Spawns : held[g] \subseteq Calls
  BY DEF TableInv, AnswerInv, CallTypes
<1>2. PICK d \in Calls : d = pending[i]
  BY <1>1 DEF Resolve, CallTypes
<1>3. idOf[d] = i
  BY <1>1, <1>2, StdioAssumption DEF PendingUnresolved
<1>4. /\ \A e \in Calls : e # d => answers'[e] = answers[e]
      /\ answers'[d] = answers[d] \/ answers'[d] = x
  BY <1>1, <1>2 DEF Resolve, CallTypes
<1>5. x # NoCall => /\ x \in Calls /\ pc[x] \notin Unwritten
                    /\ \A e \in Calls : answers[e] # x
  BY <1>1 DEF HeldIsOpen
<1>6. i # NoId
  BY StdioAssumption
<1>7. AnsweredWasWritten'
  BY <1>1, <1>4, <1>5, <1>6 DEF AnsweredWasWritten
<1>8. AnswersFit'
  <2> SUFFICES ASSUME NEW e \in Calls, answers'[e] # NoCall
               PROVE  /\ idOf[answers'[e]] = idOf[e]
                      /\ \A b \in Calls \ {e} : answers'[b] # answers'[e]
    BY DEF AnswersFit
  <2>1. CASE answers'[e] = answers[e]
    BY <1>1, <1>4, <1>5, <2>1 DEF AnswersFit
  <2>2. CASE answers'[e] # answers[e]
    <3>1. e = d /\ answers'[e] = x /\ x # NoCall
      BY <1>4, <2>2
    <3>2. \A b \in Calls \ {e} : answers'[b] # x
      BY <1>4, <1>5, <3>1
    <3> QED BY <1>3, <3>1, <3>2
  <2> QED BY <2>1, <2>2
<1>9. HeldIsOpen'
  <2> SUFFICES ASSUME NEW g \in Spawns, NEW c \in held'[g]
               PROVE  /\ pc[c] \notin Unwritten
                      /\ \A h \in Spawns : c \in held'[h] => h = g
                      /\ \A e \in Calls : answers'[e] # c
    BY DEF HeldIsOpen
  <2>1. c \in held[g] /\ c # x
    OBVIOUS
  <2> QED BY <1>1, <1>4, <2>1 DEF HeldIsOpen
<1> QED BY <1>7, <1>8, <1>9 DEF AnswerInv

LEMMA ReaderStepKeepsAnswers ==
  ASSUME TableInv, AnswerInv, NEW g \in Spawns, ReaderStep(g)
  PROVE  AnswerInv'
<1>1. /\ CallTypes /\ HeldAreRequests /\ HeldIsOpen /\ AnsweredWasWritten /\ AnswersFit
      /\ \A h \in Spawns : held[h] \subseteq Calls
  BY DEF TableInv, AnswerInv, CallTypes
<1>2. ASSUME NEW c \in Calls, ReadReply(g, c)
      PROVE  AnswerInv'
  <2>1. idOf[c] \in Ids /\ c \in held[g] /\ UNCHANGED <<idOf, pc>>
    BY <1>1, <1>2 DEF ReadReply, CallTypes, HeldAreRequests
  <2>2. \A h \in Spawns : held'[h] = IF h = g THEN held[h] \ {c} ELSE held[h]
    BY <1>1, <1>2 DEF ReadReply, CallTypes
  <2>3. \A h \in Spawns : held'[h] \subseteq held[h] /\ c \notin held'[h]
    BY <1>1, <2>1, <2>2 DEF HeldIsOpen
  <2>4. CASE Resolve(idOf[c], c)
    BY <2>1, <2>3, <2>4, LineKeepsAnswers
  <2>5. CASE UNCHANGED answers
    <3>1. HeldIsOpen'
      BY <1>1, <2>1, <2>3, <2>5 DEF HeldIsOpen
    <3> QED BY <1>1, <2>1, <2>5, <3>1 DEF AnswerInv, AnsweredWasWritten, AnswersFit
  <2> QED BY <1>2, <2>4, <2>5 DEF ReadReply
<1>3. ASSUME NEW i \in Ids, ReadServerRequest(g, i)
      PROVE  AnswerInv'
  <2>1. \A h \in Spawns : NoCall \notin held[h]
    BY <1>1, StdioAssumption
  <2> QED BY <1>3, <2>1, LineKeepsAnswers DEF ReadServerRequest
<1>4. CASE EndOfFile(g)
  BY <1>4, AnswersStay DEF EndOfFile, FlushPending
<1>5. CASE BackoffOver(g) \/ Respawn(g) \/ RespawnFails(g) \/ ReaderCrashes(g)
  BY <1>5, AnswersStay DEF BackoffOver, Respawn, RespawnFails, ReaderCrashes, callVars
<1> QED BY <1>2, <1>3, <1>4, <1>5 DEF ReaderStep

LEMMA LifecycleStepKeepsAnswers ==
  ASSUME AnswerInv, LifecycleStep
  PROVE  AnswerInv'
BY AnswersStay
   DEF LifecycleStep, StopGoesOn, FlushAndCloseStdin, FlushPending, BeginStart, StartSpawns,
       StartFails, StopRaises, StopRaisesAtStderr, ProcessReaped, StopCancelled, BeginStop,
       callVars

(***************************************************************************)
(* The reader and the process.                                             *)
(***************************************************************************)
Closing == {"closing", "closing to restart"}

\* A stop() that is not over, a cancelled one included.
Stopping == {"stopping", "stopping to restart", "interrupted"} \cup Closing

ProcessTypes ==
  /\ running \in BOOLEAN
  /\ proc \in Spawns \cup {NoProc}
  /\ spawned \in 0..MaxSpawn
  /\ alive \in [Spawns -> {"unborn", "live", "exited"}]
  /\ stdin \in [Spawns -> {"open", "closed"}]
  /\ reader \in [Spawns -> {"none", "reading", "backoff", "spawning", "over", "crashed"}]
  /\ readerTask \in Spawns \cup {NoProc}
  /\ stderrTask \in Spawns \cup {NoProc}
  /\ stderrCrashed \subseteq Spawns
  /\ op \in Stopping \cup {"idle", "starting"}

\* A lifecycle call awaits only while the transport is not running.
OpIsExclusive == op # "idle" => running = FALSE

\* An active reader is the one that a stop() cancels, and requests are written
\* to its process.
ReaderIsCurrent ==
  \A g \in Spawns :
    reader[g] \in ActiveReader => running = TRUE /\ g = proc /\ g = readerTask

\* It respawns a process that is gone.
ReplacesTheDead ==
  \A g \in Spawns : reader[g] \in {"backoff", "spawning"} => alive[g] = "exited"

\* A live process has a reader, or is being stopped, or cannot be.
LiveIsAttended ==
  \A g \in Spawns :
    alive[g] = "live" => \/ reader[g] = "crashed" \/ g \in stderrCrashed
                         \/ g = proc /\ (reader[g] = "reading" \/ op \in Stopping)

\* The stderr task that a stop() awaits is the one of the process, and it is
\* over before the process is terminated.
StderrIsCurrent ==
  stderrTask \in {NoProc, proc} /\ (op \in Closing => stderrTask = NoProc)

ProcessInv ==
  /\ ProcessTypes /\ OpIsExclusive /\ ReaderIsCurrent /\ ReplacesTheDead
  /\ LiveIsAttended /\ StderrIsCurrent

LEMMA ProcessInvSuffices ==
  ASSUME ProcessInv
  PROVE  OneOfEach
BY DEF ProcessInv, OneOfEach, OneReader, NoOrphanProcess, ReaderIsCurrent, LiveIsAttended,
       ActiveReader

LEMMA ProcessStays ==
  ASSUME ProcessInv, UNCHANGED procVars
  PROVE  ProcessInv'
BY DEF ProcessInv, procVars, stderrVars, ProcessTypes, OpIsExclusive, ReaderIsCurrent,
       ReplacesTheDead, LiveIsAttended, StderrIsCurrent

\* A new process gets a reader of its own, when there is none but its maker's.
LEMMA Spawning ==
  ASSUME ProcessInv, Spawn, running' = TRUE, op' = "idle",
         op \notin Stopping, stderrCrashed' = stderrCrashed,
         reader' \in [Spawns -> {"none", "reading", "backoff", "spawning", "over", "crashed"}],
         \A g \in Spawns : g # spawned + 1 =>
           /\ reader'[g] \notin ActiveReader
           /\ reader'[g] # "crashed" => reader[g] \notin {"reading", "crashed"},
         reader'[spawned + 1] = "reading"
  PROVE  ProcessInv'
<1>1. ProcessTypes /\ LiveIsAttended
  BY DEF ProcessInv
<1>2. PICK n \in Spawns : n = spawned + 1
  BY DEF Spawn
<1>3. /\ spawned' = n /\ proc' = n /\ readerTask' = n
      /\ alive' = [alive EXCEPT ![n] = "live"] /\ stdin' = [stdin EXCEPT ![n] = "open"]
      /\ stderrTask' = n
  BY <1>2 DEF Spawn
<1>4. ProcessTypes'
  <2>1. spawned' \in 0..MaxSpawn
    BY <1>2, <1>3, StdioAssumption DEF Spawns
  <2>2. alive' \in [Spawns -> {"unborn", "live", "exited"}] /\ stdin' \in [Spawns -> {"open", "closed"}]
    BY <1>1, <1>3 DEF ProcessTypes
  <2> QED BY <1>1, <1>2, <1>3, <2>1, <2>2 DEF ProcessTypes
<1>5. OpIsExclusive'
  BY DEF OpIsExclusive
<1>6. ReaderIsCurrent' /\ ReplacesTheDead'
  BY <1>2, <1>3 DEF ReaderIsCurrent, ReplacesTheDead, ActiveReader
<1>7. LiveIsAttended'
  <2> SUFFICES ASSUME NEW g \in Spawns, alive'[g] = "live", g # n
               PROVE  reader'[g] = "crashed" \/ g \in stderrCrashed
    BY <1>2, <1>3 DEF LiveIsAttended
  <2>1. alive[g] = "live"
    BY <1>1, <1>3 DEF ProcessTypes
  <2>2. reader[g] \in {"reading", "crashed"} \/ g \in stderrCrashed
    BY <1>1, <2>1 DEF LiveIsAttended
  <2> QED BY <1>2, <2>2
<1>8. StderrIsCurrent'
  BY <1>3 DEF StderrIsCurrent, Closing
<1> QED BY <1>4, <1>5, <1>6, <1>7, <1>8 DEF ProcessInv

LEMMA ReaderStepKeepsProcess ==
  ASSUME ProcessInv, NEW g \in Spawns, ReaderStep(g)
  PROVE  ProcessInv'
<1>1. /\ ProcessTypes /\ OpIsExclusive /\ ReaderIsCurrent /\ ReplacesTheDead
      /\ LiveIsAttended /\ StderrIsCurrent
  BY DEF ProcessInv
<1>2. CASE \/ \E c \in Calls : ReadReply(g, c)
           \/ \E i \in Ids : ReadServerRequest(g, i)
  BY <1>2, ProcessStays DEF ReadReply, ReadServerRequest
<1>3. ASSUME NEW q \in {"backoff", "spawning", "over", "crashed"},
             reader[g] \in ActiveReader,
             reader' = [reader EXCEPT ![g] = q],
             q \in {"backoff", "spawning"} => alive[g] = "exited",
             q # "crashed" => alive[g] # "live",
             UNCHANGED <<running, proc, spawned, alive, stdin, readerTask, stderrVars, op>>
      PROVE  ProcessInv'
  <2>1. reader'[g] = q /\ \A h \in Spawns \ {g} : reader'[h] = reader[h]
    BY <1>1, <1>3 DEF ProcessTypes
  <2>2. ProcessTypes'
    BY <1>1, <1>3 DEF ProcessTypes, stderrVars
  <2>3. OpIsExclusive'
    BY <1>1, <1>3 DEF OpIsExclusive
  <2>4. ReaderIsCurrent'
    BY <1>1, <1>3, <2>1 DEF ReaderIsCurrent
  <2>5. ReplacesTheDead'
    BY <1>1, <1>3, <2>1 DEF ReplacesTheDead
  <2>6. LiveIsAttended'
    BY <1>1, <1>3, <2>1 DEF LiveIsAttended, stderrVars
  <2>7. StderrIsCurrent'
    BY <1>1, <1>3 DEF StderrIsCurrent, stderrVars
  <2> QED BY <2>2, <2>3, <2>4, <2>5, <2>6, <2>7 DEF ProcessInv
<1>4. CASE EndOfFile(g)
  <2>1. PICK q \in {"backoff", "over"} : reader' = [reader EXCEPT ![g] = q]
    BY <1>4 DEF EndOfFile
  <2> QED BY <1>3, <1>4, <2>1 DEF EndOfFile, ActiveReader
<1>5. CASE BackoffOver(g)
  BY <1>1, <1>3, <1>5 DEF BackoffOver, ActiveReader, ReplacesTheDead
<1>6. CASE RespawnFails(g)
  BY <1>1, <1>3, <1>6 DEF RespawnFails, ActiveReader, ReplacesTheDead
<1>7. CASE ReaderCrashes(g)
  BY <1>3, <1>7 DEF ReaderCrashes, ActiveReader
<1>8. CASE Respawn(g)
  <2>1. running = TRUE /\ op = "idle"
    BY <1>1, <1>8 DEF Respawn, ReaderIsCurrent, OpIsExclusive, ActiveReader, ProcessTypes
  <2>2. reader' = [reader EXCEPT ![g] = "over", ![spawned + 1] = "reading"] /\ spawned + 1 \in Spawns
    BY <1>8 DEF Respawn, Spawn
  <2>3. reader' \in [Spawns -> {"none", "reading", "backoff", "spawning", "over", "crashed"}]
    BY <1>1, <2>2 DEF ProcessTypes
  <2>4. reader'[spawned + 1] = "reading"
    BY <1>1, <2>2 DEF ProcessTypes
  <2>5. ASSUME NEW h \in Spawns, h # spawned + 1
        PROVE  /\ reader'[h] \notin ActiveReader
               /\ reader'[h] # "crashed" => reader[h] \notin {"reading", "crashed"}
    <3>1. CASE h = g
      BY <1>1, <1>8, <2>2, <2>5, <3>1 DEF Respawn, ProcessTypes, ActiveReader
    <3>2. CASE h # g
      <4>1. reader'[h] = reader[h]
        BY <1>1, <2>2, <2>5, <3>2 DEF ProcessTypes
      <4>2. reader[h] \notin ActiveReader
        BY <1>1, <1>8, <3>2 DEF Respawn, ReaderIsCurrent, ActiveReader
      <4> QED BY <4>1, <4>2 DEF ActiveReader
    <3> QED BY <3>1, <3>2
  <2>6. /\ running' = TRUE /\ op' = "idle" /\ op \notin Stopping /\ Spawn
        /\ stderrCrashed' = stderrCrashed
    BY <1>8, <2>1 DEF Respawn, Stopping, Closing
  <2> QED BY <2>3, <2>4, <2>5, <2>6, Spawning
<1> QED BY <1>2, <1>4, <1>5, <1>6, <1>7, <1>8 DEF ReaderStep

\* The lifecycle calls.
LEMMA LifecycleStepKeepsProcess ==
  ASSUME ProcessInv, LifecycleStep
  PROVE  ProcessInv'
<1>1. /\ ProcessTypes /\ OpIsExclusive /\ ReaderIsCurrent /\ ReplacesTheDead
      /\ LiveIsAttended /\ StderrIsCurrent
  BY DEF ProcessInv
<1>2. ~running => \A g \in Spawns : reader[g] \notin ActiveReader
  BY <1>1 DEF ReaderIsCurrent
<1>3. CASE BeginStart
  <2>1. op = "idle" /\ op' = "starting" /\ running' = FALSE /\ op \notin Stopping
        /\ UNCHANGED <<running, proc, spawned, alive, stdin, reader, readerTask, stderrVars>>
    BY <1>1, <1>3 DEF BeginStart, Stopping, Closing, ProcessTypes
  <2>2. ProcessTypes' /\ OpIsExclusive' /\ ReaderIsCurrent' /\ ReplacesTheDead'
        /\ StderrIsCurrent'
    BY <1>1, <2>1 DEF ProcessTypes, OpIsExclusive, ReaderIsCurrent, ReplacesTheDead,
       StderrIsCurrent, stderrVars, Closing
  <2>3. LiveIsAttended'
    BY <1>1, <2>1 DEF LiveIsAttended, stderrVars
  <2> QED BY <2>2, <2>3 DEF ProcessInv
<1>4. CASE StartSpawns
  <2>1. running = FALSE /\ op \notin Stopping
    BY <1>1, <1>4 DEF StartSpawns, OpIsExclusive, Stopping, Closing
  <2>2. reader' = [reader EXCEPT ![spawned + 1] = "reading"] /\ spawned + 1 \in Spawns
    BY <1>4 DEF StartSpawns, Spawn
  <2>3. /\ reader' \in [Spawns -> {"none", "reading", "backoff", "spawning", "over", "crashed"}]
        /\ reader'[spawned + 1] = "reading"
        /\ \A h \in Spawns : h # spawned + 1 => reader'[h] = reader[h]
    BY <1>1, <2>2 DEF ProcessTypes
  <2>4. \A h \in Spawns : h # spawned + 1 =>
           /\ reader'[h] \notin ActiveReader
           /\ reader'[h] # "crashed" => reader[h] \notin {"reading", "crashed"}
    BY <1>2, <2>1, <2>3 DEF ActiveReader
  <2>5. Spawn /\ running' = TRUE /\ op' = "idle" /\ stderrCrashed' = stderrCrashed
    BY <1>4 DEF StartSpawns
  <2> QED BY <2>1, <2>3, <2>4, <2>5, Spawning
<1>5. CASE StartFails
  <2>1. /\ op = "starting" /\ op' = "idle"
        /\ UNCHANGED <<running, proc, spawned, alive, stdin, reader, readerTask, stderrVars>>
    BY <1>5 DEF StartFails
  <2>2. ProcessTypes' /\ OpIsExclusive' /\ ReaderIsCurrent' /\ ReplacesTheDead'
        /\ StderrIsCurrent'
    BY <1>1, <2>1 DEF ProcessTypes, OpIsExclusive, ReaderIsCurrent, ReplacesTheDead,
       StderrIsCurrent, stderrVars, Closing
  <2>3. LiveIsAttended'
    BY <1>1, <2>1 DEF LiveIsAttended, Stopping, Closing, stderrVars
  <2> QED BY <2>2, <2>3 DEF ProcessInv
<1>6. ASSUME NEW then \in {"stopping", "stopping to restart"}, BeginStop(then)
      PROVE  ProcessInv'
  <2>1. /\ running' = FALSE /\ readerTask' = NoProc /\ op' = then
        /\ UNCHANGED <<proc, spawned, alive, stdin, stderrVars>>
        /\ reader' = [g \in Spawns |-> IF g = readerTask /\ reader[g] \in ActiveReader
                                       THEN "over" ELSE reader[g]]
    BY <1>6 DEF BeginStop, CancelReader
  <2>2. \A g \in Spawns : reader'[g] \notin ActiveReader
    BY <1>1, <2>1 DEF ReaderIsCurrent, ActiveReader
  <2>3. ProcessTypes'
    BY <1>1, <2>1 DEF ProcessTypes, Stopping, stderrVars
  <2>4. OpIsExclusive' /\ ReaderIsCurrent' /\ ReplacesTheDead' /\ StderrIsCurrent'
    BY <1>1, <2>1, <2>2 DEF OpIsExclusive, ReaderIsCurrent, ReplacesTheDead, ActiveReader,
       StderrIsCurrent, stderrVars, Closing
  <2>5. LiveIsAttended'
    BY <1>1, <2>1 DEF LiveIsAttended, Stopping, Closing, ActiveReader, stderrVars
  <2> QED BY <2>3, <2>4, <2>5 DEF ProcessInv
<1>7. CASE StopRaises
  <2>1. /\ op = "idle" /\ running' = FALSE
        /\ \E g \in Spawns : g = readerTask /\ reader[g] = "crashed"
        /\ UNCHANGED <<proc, spawned, alive, stdin, reader, readerTask, stderrVars, op>>
    BY <1>7 DEF StopRaises
  <2>2. \A g \in Spawns : reader[g] \notin ActiveReader
    BY <1>1, <2>1 DEF ReaderIsCurrent, ActiveReader
  <2>3. ProcessTypes' /\ OpIsExclusive' /\ ReaderIsCurrent' /\ ReplacesTheDead'
        /\ StderrIsCurrent'
    BY <1>1, <2>1, <2>2 DEF ProcessTypes, OpIsExclusive, ReaderIsCurrent, ReplacesTheDead,
       StderrIsCurrent, stderrVars, Closing
  <2>4. LiveIsAttended'
    BY <1>1, <2>1 DEF LiveIsAttended, stderrVars
  <2> QED BY <2>3, <2>4 DEF ProcessInv
<1>8. AfterStop \in {"starting", "idle"}
  BY DEF AfterStop
<1>9. CASE FlushAndCloseStdin
  <2>1. /\ op \in {"stopping", "stopping to restart"}
        /\ stdin' = [g \in Spawns |-> IF g = proc THEN "closed" ELSE stdin[g]]
        /\ UNCHANGED <<running, proc, spawned, alive, reader, readerTask, stderrCrashed>>
        /\ stderrTask' = NoProc
    BY <1>9 DEF FlushAndCloseStdin
  <2>2. op' \in {"closing", "closing to restart"} \/ (proc = NoProc /\ op' \in {"starting", "idle"})
    BY <1>8, <1>9 DEF FlushAndCloseStdin
  <2>3. running = FALSE
    BY <1>1, <2>1 DEF OpIsExclusive
  <2>4. ProcessTypes' /\ OpIsExclusive' /\ ReaderIsCurrent' /\ ReplacesTheDead'
        /\ StderrIsCurrent'
    BY <1>1, <2>1, <2>2, <2>3 DEF ProcessTypes, OpIsExclusive, ReaderIsCurrent, ReplacesTheDead,
       StderrIsCurrent, stderrVars, Closing,
       Stopping
  <2>5. proc = NoProc => \A g \in Spawns : g # proc
    BY DEF Spawns, NoProc
  <2>6. LiveIsAttended'
    BY <1>1, <2>1, <2>2, <2>5 DEF LiveIsAttended, Stopping, Closing, stderrVars
  <2> QED BY <2>4, <2>6 DEF ProcessInv
<1>10. CASE ProcessReaped
  <2>1. /\ op \in {"closing", "closing to restart"} /\ proc' = NoProc
        /\ alive' = [alive EXCEPT ![proc] = "exited"] /\ op' \in {"starting", "idle"}
        /\ UNCHANGED <<running, spawned, stdin, reader, readerTask, stderrVars>>
    BY <1>8, <1>10 DEF ProcessReaped
  <2>2. running = FALSE
    BY <1>1, <2>1 DEF OpIsExclusive
  <2>3. \A g \in Spawns : alive'[g] = IF g = proc THEN "exited" ELSE alive[g]
    BY <1>1, <2>1 DEF ProcessTypes
  <2>4. ProcessTypes'
    BY <1>1, <2>1 DEF ProcessTypes, stderrVars
  <2>5. OpIsExclusive' /\ ReaderIsCurrent' /\ ReplacesTheDead' /\ StderrIsCurrent'
    BY <1>1, <1>2, <2>1, <2>2, <2>3 DEF OpIsExclusive, ReaderIsCurrent, ReplacesTheDead,
       ActiveReader, StderrIsCurrent, stderrVars, Closing
  <2>6. LiveIsAttended'
    <3> SUFFICES ASSUME NEW g \in Spawns, alive'[g] = "live"
                 PROVE  reader'[g] = "crashed" \/ g \in stderrCrashed'
      BY DEF LiveIsAttended
    <3>1. g # proc /\ alive[g] = "live"
      BY <2>3
    <3> QED BY <1>1, <2>1, <3>1 DEF LiveIsAttended, stderrVars
  <2> QED BY <2>4, <2>5, <2>6 DEF ProcessInv
<1>11. CASE StopRaisesAtStderr
  <2>1. /\ op \in {"stopping", "stopping to restart"} /\ op' = "idle" /\ stderrTask # NoProc
        /\ stderrCrashed' = stderrCrashed \cup {stderrTask}
        /\ UNCHANGED <<running, proc, spawned, alive, stdin, reader, readerTask, stderrTask>>
    BY <1>11 DEF StopRaisesAtStderr
  <2>2. ProcessTypes' /\ OpIsExclusive' /\ ReaderIsCurrent' /\ ReplacesTheDead'
    BY <1>1, <2>1 DEF ProcessTypes, OpIsExclusive, ReaderIsCurrent, ReplacesTheDead
  <2>3. proc \in stderrCrashed' /\ StderrIsCurrent'
    BY <1>1, <2>1 DEF StderrIsCurrent, Closing
  <2>4. LiveIsAttended'
    BY <1>1, <2>1, <2>3 DEF LiveIsAttended
  <2> QED BY <2>2, <2>3, <2>4 DEF ProcessInv
<1>12. CASE StopCancelled
  <2>1. /\ op \in Closing /\ op' = "interrupted"
        /\ UNCHANGED <<running, proc, spawned, alive, stdin, reader, readerTask, stderrVars>>
    BY <1>12 DEF StopCancelled, Closing
  <2>2. running = FALSE
    BY <1>1, <2>1 DEF OpIsExclusive, Closing
  <2>3. ProcessTypes' /\ OpIsExclusive' /\ ReaderIsCurrent' /\ ReplacesTheDead'
        /\ StderrIsCurrent'
    BY <1>1, <2>1, <2>2 DEF ProcessTypes, OpIsExclusive, ReaderIsCurrent, ReplacesTheDead,
       StderrIsCurrent, stderrVars, Stopping, Closing
  <2>4. LiveIsAttended'
    BY <1>1, <2>1 DEF LiveIsAttended, Stopping, stderrVars
  <2> QED BY <2>3, <2>4 DEF ProcessInv
<1> QED BY <1>3, <1>4, <1>5, <1>6, <1>7, <1>9, <1>10, <1>11, <1>12 DEF LifecycleStep, StopGoesOn

\* A process exits, or the other end of its pipe is noticed to be gone.
LEMMA ProcessEnds ==
  ASSUME ProcessInv, NEW g \in Spawns, ProcessExits(g) \/ StdinLost(g)
  PROVE  ProcessInv'
<1>1. /\ ProcessTypes /\ OpIsExclusive /\ ReaderIsCurrent /\ ReplacesTheDead
      /\ LiveIsAttended /\ StderrIsCurrent
  BY DEF ProcessInv
<1>2. CASE ProcessExits(g)
  <2>1. /\ UNCHANGED <<running, proc, spawned, stdin, reader, readerTask, stderrVars, op>>
        /\ alive' = [alive EXCEPT ![g] = "exited"]
    BY <1>2 DEF ProcessExits
  <2>2. \A h \in Spawns : alive'[h] = IF h = g THEN "exited" ELSE alive[h]
    BY <1>1, <2>1 DEF ProcessTypes
  <2>3. ProcessTypes' /\ OpIsExclusive' /\ ReaderIsCurrent'
    BY <1>1, <2>1 DEF ProcessTypes, OpIsExclusive, ReaderIsCurrent, stderrVars
  <2>4. ReplacesTheDead' /\ LiveIsAttended' /\ StderrIsCurrent'
    BY <1>1, <2>1, <2>2 DEF ReplacesTheDead, LiveIsAttended, StderrIsCurrent, stderrVars
  <2> QED BY <2>3, <2>4 DEF ProcessInv
<1>3. CASE StdinLost(g)
  <2>1. /\ UNCHANGED <<running, proc, spawned, alive, reader, readerTask, stderrVars, op>>
        /\ stdin' = [stdin EXCEPT ![g] = "closed"]
    BY <1>3 DEF StdinLost
  <2> QED BY <1>1, <2>1 DEF ProcessInv, ProcessTypes, OpIsExclusive, ReaderIsCurrent,
             ReplacesTheDead, LiveIsAttended, StderrIsCurrent, stderrVars
<1> QED BY <1>2, <1>3

LEMMA CallStepKeepsProcess ==
  ASSUME ProcessInv, NEW c \in Calls, CallStep(c)
  PROVE  ProcessInv'
<1>1. UNCHANGED procVars
  BY DEF CallStep, RequestWithoutProcess, RequestWritesAtOnce, RequestQueuesForLock, LockGranted,
         LockGrantedWithoutProcess, Drained, DrainRaises, RequestReturns, CancelRequest
<1> QED BY <1>1, ProcessStays

(***************************************************************************)
(* The theorems.                                                           *)
(***************************************************************************)
StdioInv == TableInv /\ AnswerInv /\ ProcessInv

LEMMA InitInv ==
  ASSUME Init
  PROVE  StdioInv
<1>1. CallTypes
  BY DEF Init, CallTypes, NoProc
<1>2. NewIsUnknown /\ HeldAreRequests
  BY DEF Init, NewIsUnknown, HeldAreRequests
<1>3. NoLostWaiter /\ PendingUnresolved
  BY DEF Init, NoLostWaiter, PendingUnresolved, Requests
<1>4. ProcessTypes
  <2>1. 0 \in 0..MaxSpawn
    BY StdioAssumption
  <2> QED BY <2>1 DEF Init, ProcessTypes
<1>5. OpIsExclusive /\ ReaderIsCurrent /\ ReplacesTheDead /\ LiveIsAttended /\ StderrIsCurrent
  BY DEF Init, OpIsExclusive, ReaderIsCurrent, ReplacesTheDead, LiveIsAttended, StderrIsCurrent,
         ActiveReader, Closing
<1>6. AnswerInv
  BY DEF Init, AnswerInv, HeldIsOpen, AnsweredWasWritten, AnswersFit
<1> QED BY <1>1, <1>2, <1>3, <1>4, <1>5, <1>6 DEF StdioInv, TableInv, ProcessInv

LEMMA StepInv ==
  ASSUME StdioInv, [Next]_vars
  PROVE  StdioInv'
<1>1. TableInv /\ AnswerInv /\ ProcessInv /\ proc \in Spawns \cup {NoProc}
  BY DEF StdioInv, ProcessInv, ProcessTypes
<1>2. CASE LifecycleStep
  BY <1>1, <1>2, LifecycleStepKeepsTable, LifecycleStepKeepsAnswers, LifecycleStepKeepsProcess
     DEF StdioInv
<1>3. ASSUME NEW c \in Calls, CallStep(c) PROVE StdioInv'
  BY <1>1, <1>3, CallStepKeepsTable, CallStepKeepsAnswers, CallStepKeepsProcess DEF StdioInv
<1>4. ASSUME NEW g \in Spawns, ReaderStep(g) PROVE StdioInv'
  BY <1>1, <1>4, ReaderStepKeepsTable, ReaderStepKeepsAnswers, ReaderStepKeepsProcess DEF StdioInv
<1>5. ASSUME NEW g \in Spawns, ProcessExits(g) \/ StdinLost(g) PROVE StdioInv'
  BY <1>1, <1>5, TableStays, AnswersStay, ProcessEnds DEF ProcessExits, StdinLost, StdioInv, callVars
<1>6. CASE UNCHANGED vars
  BY <1>1, <1>6, TableStays, AnswersStay, ProcessStays DEF vars, StdioInv, callVars
<1> QED BY <1>2, <1>3, <1>4, <1>5, <1>6 DEF Next

\* Every state of the transport satisfies the inductive invariant.
THEOREM Invariance == Spec => []StdioInv
<1>1. Init => StdioInv
  BY InitInv
<1>2. StdioInv /\ [Next]_vars => StdioInv'
  BY StepInv
<1> QED BY <1>1, <1>2, PTL DEF Spec

\* Every variable keeps its type.
THEOREM TypeCorrect == Spec => []TypeOK
<1>1. StdioInv => TypeOK
  BY DEF StdioInv, TableInv, ProcessInv, CallTypes, ProcessTypes, TypeOK, Stopping, Closing
<1> QED BY <1>1, Invariance, PTL

\* For any calls, ids in use twice included, whoever waits for an answer can be
\* found by who answers or flushes, no answer goes to a future that has one, and
\* each answer goes to one call, of the id it was asked with.
THEOREM WaitersAreFound == Spec => []TableIsExact
<1>1. StdioInv => TableIsExact
  BY DEF StdioInv, TableInv, AnswerInv, TableIsExact
<1> QED BY <1>1, Invariance, PTL

\* Through any number of exits, back-offs, respawns, stops and restarts there is
\* one reader, of the process that is written to, and no process is left behind,
\* by a stop() that raises or is cancelled either, but one whose stdout or stderr
\* task crashed.
THEOREM OneReaderOneProcess == Spec => []OneOfEach
<1>1. StdioInv => OneOfEach
  BY ProcessInvSuffices DEF StdioInv
<1> QED BY <1>1, Invariance, PTL
===============================================================================
