---------------------------- MODULE StdioTransport ---------------------------
(***************************************************************************)
(* StdioUpstreamTransport: one subprocess that speaks NDJSON, a table of   *)
(* futures keyed by JSON-RPC id, a reader task that resolves them and      *)
(* respawns the subprocess at end of file, a write lock, and stop(),       *)
(* start() and restart() called from outside.  An action is the code       *)
(* between two awaits.                                                     *)
(*                                                                         *)
(* A process is the number of its spawn.  Message bodies are not modelled: *)
(* a reply is named by the call whose request it answers, and a line that  *)
(* answers no call (a request of the server's own) by NoCall.  Lifecycle   *)
(* calls come one at a time (`op`); nothing in the code enforces that.  A  *)
(* stop() may raise, at either of the tasks it awaits, or be cancelled     *)
(* while it waits for the process.  A process closes its stdout only by    *)
(* exiting.                                                                *)
(***************************************************************************)
EXTENDS Naturals, FiniteSets

CONSTANTS
  Calls,          \* calls of request() and send_notification()
  Ids, IdsOf,     \* IdsOf[c]: the JSON-RPC ids call c may come with
  MaxSpawn,       \* bound on the number of spawns
  NoCall, NoId    \* a message with NoId is a notification

ASSUME StdioAssumption ==
  /\ IsFiniteSet(Calls)
  /\ IdsOf \in [Calls -> SUBSET (Ids \cup {NoId})]
  /\ MaxSpawn \in Nat
  /\ NoCall \notin Calls
  /\ NoId \notin Ids

Spawns == 1..MaxSpawn
NoProc == 0

VARIABLES
  running,     \* self._running
  proc,        \* self._proc
  spawned,     \* how many processes were created
  alive,       \* alive[g]: "unborn", "live" or "exited"
  stdin,       \* stdin[g]: "open", or "closed" once the proxy closed or lost it
  held,        \* held[g]: the requests process g has received and not answered
  reader,      \* reader[g]: where the reader task started for process g is
  readerTask,  \* self._reader_task
  stderrTask,  \* self._stderr_task
  stderrCrashed,  \* the processes whose stderr task a stop() found crashed
  pending,     \* self._pending
  future,      \* future[c]: the future request() made for c
  answers,     \* answers[c]: what the reply in future[c] answers
  idOf,        \* idOf[c]: the id in the message of c
  pc,          \* pc[c]: the await request() is at
  target,      \* target[c]: the process c was written to
  writer,      \* holder of self._write_lock
  op           \* where the lifecycle call in progress is, or "idle"

stderrVars == <<stderrTask, stderrCrashed>>
procVars == <<running, proc, spawned, alive, stdin, reader, readerTask, stderrVars, op>>
callVars == <<pending, future, answers, idOf, pc, target, writer>>
vars == <<procVars, callVars, held>>

\* The calls that made a future.
Requests == {c \in Calls : idOf[c] # NoId}
InRequest == {"locking", "draining", "awaiting"}
ActiveReader == {"reading", "backoff", "spawning"}

Init ==
  /\ running = FALSE
  /\ proc = NoProc
  /\ spawned = 0
  /\ alive = [g \in Spawns |-> "unborn"]
  /\ stdin = [g \in Spawns |-> "closed"]
  /\ held = [g \in Spawns |-> {}]
  /\ reader = [g \in Spawns |-> "none"]
  /\ readerTask = NoProc
  /\ stderrTask = NoProc
  /\ stderrCrashed = {}
  /\ pending = [i \in Ids |-> NoCall]
  /\ future = [c \in Calls |-> "none"]
  /\ answers = [c \in Calls |-> NoCall]
  /\ idOf = [c \in Calls |-> NoId]
  /\ pc = [c \in Calls |-> "new"]
  /\ target = [c \in Calls |-> NoProc]
  /\ writer = NoCall
  /\ op = "idle"

(***************************************************************************)
(* request() and send_notification().                                      *)
(***************************************************************************)
\* Seeded fault: the future is entered into the table only once the write
\* lock is held, so a message that queues for the lock is not in it.
EnterTableLate(c, i) ==
  /\ idOf' = [idOf EXCEPT ![c] = i]
  /\ future' = IF i = NoId THEN future ELSE [future EXCEPT ![c] = "unset"]
  /\ pending' = IF i = NoId \/ writer # NoCall THEN pending ELSE [pending EXCEPT ![i] = c]

\* The future and its entry; an entry of the same id is overwritten.
EnterTable(c, i) ==
  /\ idOf' = [idOf EXCEPT ![c] = i]
  /\ future' = IF i = NoId THEN future ELSE [future EXCEPT ![c] = "unset"]
  /\ pending' = IF i = NoId THEN pending ELSE [pending EXCEPT ![i] = c]

\* The line goes to whatever self._proc is now.  It reaches a live process
\* whose stdin is open and is silently dropped otherwise.
WriteLine(c, i) ==
  /\ target' = [target EXCEPT ![c] = proc]
  /\ held' = IF alive[proc] = "live" /\ stdin[proc] = "open" /\ i # NoId
             THEN [held EXCEPT ![proc] = @ \cup {c}] ELSE held
  /\ writer' = c
  /\ pc' = [pc EXCEPT ![c] = "draining"]

RequestWithoutProcess(c) ==
  /\ pc[c] = "new"
  /\ proc = NoProc
  /\ pc' = [pc EXCEPT ![c] = "done"]
  /\ UNCHANGED <<procVars, pending, future, answers, idOf, target, writer, held>>

RequestWritesAtOnce(c, i) ==
  /\ pc[c] = "new"
  /\ proc # NoProc
  /\ writer = NoCall
  /\ \A d \in Calls : pc[d] # "locking"
  /\ EnterTable(c, i)
  /\ WriteLine(c, i)
  /\ UNCHANGED <<procVars, answers>>

RequestQueuesForLock(c, i) ==
  /\ pc[c] = "new"
  /\ proc # NoProc
  /\ writer # NoCall \/ \E d \in Calls : pc[d] = "locking"
  /\ EnterTable(c, i)
  /\ pc' = [pc EXCEPT ![c] = "locking"]
  /\ UNCHANGED <<procVars, answers, target, writer, held>>

LockGranted(c) ==
  /\ pc[c] = "locking"
  /\ writer = NoCall
  /\ proc # NoProc
  /\ WriteLine(c, idOf[c])
  /\ UNCHANGED <<procVars, pending, future, answers, idOf>>

\* stop() has set self._proc to None meanwhile: AttributeError.  The entry
\* of the table stays.
LockGrantedWithoutProcess(c) ==
  /\ pc[c] = "locking"
  /\ writer = NoCall
  /\ proc = NoProc
  /\ pc' = [pc EXCEPT ![c] = "done"]
  /\ UNCHANGED <<procVars, pending, future, answers, idOf, target, writer, held>>

Drained(c) ==
  /\ pc[c] = "draining"
  /\ pc' = [pc EXCEPT ![c] = IF idOf[c] # NoId THEN "awaiting" ELSE "done"]
  /\ writer' = NoCall
  /\ UNCHANGED <<procVars, pending, future, answers, idOf, target, held>>

\* ConnectionResetError from drain(); the entry of the table stays.
DrainRaises(c) ==
  /\ pc[c] = "draining"
  /\ stdin[target[c]] = "closed"
  /\ pc' = [pc EXCEPT ![c] = "done"]
  /\ writer' = NoCall
  /\ UNCHANGED <<procVars, pending, future, answers, idOf, target, held>>

RequestReturns(c) ==
  /\ pc[c] = "awaiting"
  /\ future[c] \in {"null", "reply"}
  /\ pc' = [pc EXCEPT ![c] = "done"]
  /\ UNCHANGED <<procVars, pending, future, answers, idOf, target, writer, held>>

\* The bridge at shutdown, or the discovery probe's timeout, cancels the
\* task; a future it awaits is cancelled with it.  The table is left alone.
CancelRequest(c) ==
  /\ pc[c] \in InRequest
  /\ pc' = [pc EXCEPT ![c] = "done"]
  /\ future' = [future EXCEPT ![c] = IF pc[c] = "awaiting" /\ @ = "unset" THEN "cancelled" ELSE @]
  /\ writer' = IF writer = c THEN NoCall ELSE writer
  /\ UNCHANGED <<procVars, pending, answers, idOf, target, held>>

(***************************************************************************)
(* The reader task of process g.                                           *)
(***************************************************************************)
\* A line with id i: the future entered under i is taken out and resolved.
Resolve(i, c) ==
  LET d == pending[i] IN
  /\ d # NoCall
  /\ pending' = [pending EXCEPT ![i] = NoCall]
  /\ future' = [future EXCEPT ![d] = IF @ = "unset" THEN "reply" ELSE @]
  /\ answers' = [answers EXCEPT ![d] = IF future[d] = "unset" THEN c ELSE @]

ReadReply(g, c) ==
  /\ reader[g] = "reading"
  /\ c \in held[g]
  /\ held' = [held EXCEPT ![g] = @ \ {c}]
  /\ \/ Resolve(idOf[c], c)
     \/ pending[idOf[c]] = NoCall /\ UNCHANGED <<pending, future, answers>>
  /\ UNCHANGED <<procVars, idOf, pc, target, writer>>

\* The server sends a request of its own, with an id of its own choice.
ReadServerRequest(g, i) ==
  /\ reader[g] = "reading"
  /\ alive[g] = "live"
  /\ Resolve(i, NoCall)
  /\ UNCHANGED <<procVars, held, idOf, pc, target, writer>>

FlushPending ==
  /\ future' = [c \in Calls |-> IF future[c] = "unset" /\ \E i \in Ids : pending[i] = c
                                THEN "null" ELSE future[c]]
  /\ pending' = [i \in Ids |-> NoCall]
  /\ UNCHANGED <<answers, idOf, pc, target, writer>>

\* Seeded fault: a process that is going to be replaced keeps its callers.
EndOfFileFlushesIfStopped(g) ==
  /\ reader[g] = "reading"
  /\ alive[g] = "exited"
  /\ running
  /\ reader' = [reader EXCEPT ![g] = "backoff"]
  /\ UNCHANGED <<running, proc, spawned, alive, stdin, readerTask, stderrVars, op, callVars, held>>

EndOfFile(g) ==
  /\ reader[g] = "reading"
  /\ alive[g] = "exited"
  /\ FlushPending
  /\ reader' = [reader EXCEPT ![g] = IF running THEN "backoff" ELSE "over"]
  /\ UNCHANGED <<running, proc, spawned, alive, stdin, readerTask, stderrVars, op, held>>

BackoffOver(g) ==
  /\ reader[g] = "backoff"
  /\ reader' = [reader EXCEPT ![g] = "spawning"]
  /\ UNCHANGED <<running, proc, spawned, alive, stdin, readerTask, stderrVars, op, callVars, held>>

\* create_subprocess_exec succeeds: a new process and a new reader for it.
Spawn ==
  LET g == spawned + 1 IN
  /\ g \in Spawns
  /\ spawned' = g
  /\ proc' = g
  /\ alive' = [alive EXCEPT ![g] = "live"]
  /\ stdin' = [stdin EXCEPT ![g] = "open"]
  /\ readerTask' = g
  /\ stderrTask' = g

Respawn(g) ==
  /\ reader[g] = "spawning"
  /\ Spawn
  /\ reader' = [reader EXCEPT ![g] = "over", ![spawned + 1] = "reading"]
  /\ UNCHANGED <<running, stderrCrashed, op, callVars, held>>

\* _maybe_restart swallows the error and the reader returns.
RespawnFails(g) ==
  /\ reader[g] = "spawning"
  /\ reader' = [reader EXCEPT ![g] = "over"]
  /\ UNCHANGED <<running, proc, spawned, alive, stdin, readerTask, stderrVars, op, callVars, held>>

\* A line that is valid JSON but no object, or longer than the stream's
\* limit: the reader task ends with the exception.
ReaderCrashes(g) ==
  /\ reader[g] = "reading"
  /\ reader' = [reader EXCEPT ![g] = "crashed"]
  /\ UNCHANGED <<running, proc, spawned, alive, stdin, readerTask, stderrVars, op, callVars, held>>

(***************************************************************************)
(* start(), stop() and restart().                                          *)
(***************************************************************************)
\* After a stop() that was cancelled its callers stop again before they start.
BeginStart ==
  /\ op = "idle"
  /\ ~running
  /\ op' = "starting"
  /\ UNCHANGED <<running, proc, spawned, alive, stdin, reader, readerTask, stderrVars, callVars, held>>

StartSpawns ==
  /\ op = "starting"
  /\ Spawn
  /\ reader' = [reader EXCEPT ![spawned + 1] = "reading"]
  /\ running' = TRUE
  /\ op' = "idle"
  /\ UNCHANGED <<stderrCrashed, callVars, held>>

\* create_subprocess_exec raises, or start() is cancelled there.
StartFails ==
  /\ op = "starting"
  /\ op' = "idle"
  /\ UNCHANGED <<running, proc, spawned, alive, stdin, reader, readerTask, stderrVars, callVars, held>>

\* Seeded fault: a reader that sleeps before a respawn is not cancelled.
CancelReaderIfReading ==
  reader' = [g \in Spawns |-> IF g = readerTask /\ reader[g] = "reading"
                              THEN "over" ELSE reader[g]]

\* The reader is cancelled at whatever await it is; a process it was just
\* spawning is killed by asyncio.
CancelReader ==
  reader' = [g \in Spawns |-> IF g = readerTask /\ reader[g] \in ActiveReader
                              THEN "over" ELSE reader[g]]

\* Up to the await of the reader, whose end is awaited with the cancellation
\* suppressed: that of the reader, or that of stop() itself.
BeginStop(then) ==
  /\ op \in {"idle", "interrupted"}
  /\ \A g \in Spawns : ~(g = readerTask /\ reader[g] = "crashed")
  /\ running' = FALSE
  /\ CancelReader
  /\ readerTask' = NoProc
  /\ op' = then
  /\ UNCHANGED <<proc, spawned, alive, stdin, stderrVars, callVars, held>>

\* Awaiting a reader that crashed raises its exception out of stop().
StopRaises ==
  /\ op = "idle"
  /\ \E g \in Spawns : g = readerTask /\ reader[g] = "crashed"
  /\ running
  /\ running' = FALSE
  /\ UNCHANGED <<proc, spawned, alive, stdin, reader, readerTask, stderrVars, op, callVars, held>>

\* The same at the stderr task: the reader is gone, nobody is flushed, the
\* process is not terminated, and the next stop() raises here again.  The task
\* ended with an exception at a line longer than the stream's limit, at any
\* moment before: nobody looks at it until a stop() does.
StopRaisesAtStderr ==
  /\ op \in {"stopping", "stopping to restart"}
  /\ stderrTask # NoProc
  /\ stderrCrashed' = stderrCrashed \cup {stderrTask}
  /\ op' = "idle"
  /\ UNCHANGED <<running, proc, spawned, alive, stdin, reader, readerTask, stderrTask,
                 callVars, held>>

AfterStop == IF op \in {"stopping to restart", "closing to restart"} THEN "starting" ELSE "idle"

FlushAndCloseStdin ==
  /\ op \in {"stopping", "stopping to restart"}
  /\ stderrTask \notin stderrCrashed
  /\ stderrTask' = NoProc
  /\ FlushPending
  /\ stdin' = [g \in Spawns |-> IF g = proc THEN "closed" ELSE stdin[g]]
  /\ op' = IF proc = NoProc THEN AfterStop
           ELSE IF op = "stopping" THEN "closing" ELSE "closing to restart"
  /\ UNCHANGED <<running, proc, spawned, alive, reader, readerTask, stderrCrashed, held>>

\* stdin.wait_closed() returns, then terminate(), and kill() after a second:
\* the process is gone.  wait_closed() has no timeout: it may wait for ever
\* for a process that does not read what was written to it.
ProcessReaped ==
  /\ op \in {"closing", "closing to restart"}
  /\ alive' = [alive EXCEPT ![proc] = "exited"]
  /\ proc' = NoProc
  /\ op' = AfterStop
  /\ UNCHANGED <<running, spawned, stdin, reader, readerTask, stderrVars, callVars, held>>

\* stop() is cancelled while it waits for the pipe or the process (an apply()
\* under the request timeout): self._proc stays, for the next stop().
StopCancelled ==
  /\ op \in {"closing", "closing to restart"}
  /\ op' = "interrupted"
  /\ UNCHANGED <<running, proc, spawned, alive, stdin, reader, readerTask, stderrVars,
                 callVars, held>>

(***************************************************************************)
(* The subprocess.                                                         *)
(***************************************************************************)
ProcessExits(g) ==
  /\ alive[g] = "live"
  /\ alive' = [alive EXCEPT ![g] = "exited"]
  /\ UNCHANGED <<running, proc, spawned, stdin, reader, readerTask, stderrVars, op, callVars, held>>

\* asyncio notices that the other end of the pipe is gone.
StdinLost(g) ==
  /\ alive[g] = "exited"
  /\ stdin[g] = "open"
  /\ stdin' = [stdin EXCEPT ![g] = "closed"]
  /\ UNCHANGED <<running, proc, spawned, alive, reader, readerTask, stderrVars, op, callVars, held>>

CallStep(c) ==
  \/ RequestWithoutProcess(c)
  \/ \E i \in IdsOf[c] : RequestWritesAtOnce(c, i) \/ RequestQueuesForLock(c, i)
  \/ LockGranted(c) \/ LockGrantedWithoutProcess(c)
  \/ Drained(c) \/ DrainRaises(c) \/ RequestReturns(c) \/ CancelRequest(c)

ReaderStep(g) ==
  \/ \E c \in Calls : ReadReply(g, c)
  \/ \E i \in Ids : ReadServerRequest(g, i)
  \/ EndOfFile(g) \/ BackoffOver(g) \/ Respawn(g) \/ RespawnFails(g) \/ ReaderCrashes(g)

\* stop() resumes when the reader has ended.
StopGoesOn == FlushAndCloseStdin \/ StopRaisesAtStderr

LifecycleStep ==
  \/ BeginStart \/ StartSpawns \/ StartFails
  \/ BeginStop("stopping") \/ BeginStop("stopping to restart") \/ StopRaises
  \/ StopGoesOn \/ ProcessReaped \/ StopCancelled

Next ==
  \/ LifecycleStep
  \/ \E c \in Calls : CallStep(c)
  \/ \E g \in Spawns : ReaderStep(g) \/ ProcessExits(g) \/ StdinLost(g)

Spec == Init /\ [][Next]_vars

\* The event loop resumes what is ready: the reader at end of file, a
\* request whose future is resolved, a stop() that was begun.
FairSpec ==
  /\ Spec
  /\ \A g \in Spawns : WF_vars(EndOfFile(g))
  /\ \A c \in Calls : WF_vars(RequestReturns(c))
  /\ WF_vars(StopGoesOn)

(***************************************************************************)
(* Properties.                                                             *)
(***************************************************************************)
TypeOK ==
  /\ running \in BOOLEAN
  /\ proc \in Spawns \cup {NoProc}
  /\ spawned \in 0..MaxSpawn
  /\ alive \in [Spawns -> {"unborn", "live", "exited"}]
  /\ stdin \in [Spawns -> {"open", "closed"}]
  /\ held \in [Spawns -> SUBSET Calls]
  /\ reader \in [Spawns -> {"none", "reading", "backoff", "spawning", "over", "crashed"}]
  /\ readerTask \in Spawns \cup {NoProc}
  /\ stderrTask \in Spawns \cup {NoProc}
  /\ stderrCrashed \subseteq Spawns
  /\ pending \in [Ids -> Calls \cup {NoCall}]
  /\ future \in [Calls -> {"none", "unset", "null", "reply", "cancelled"}]
  /\ answers \in [Calls -> Calls \cup {NoCall}]
  /\ idOf \in [Calls -> Ids \cup {NoId}]
  /\ pc \in [Calls -> {"new", "locking", "draining", "awaiting", "done"}]
  /\ target \in [Calls -> Spawns \cup {NoProc}]
  /\ writer \in Calls \cup {NoCall}
  /\ op \in {"idle", "starting", "stopping", "closing", "interrupted",
             "stopping to restart", "closing to restart"}

\* A request whose future is unset can be found by whoever answers or
\* flushes, at whatever await it is, unless a call of the same id displaced it.
NoLostWaiter ==
  \A c \in Requests :
    pc[c] \in InRequest /\ future[c] = "unset" =>
      \/ pending[idOf[c]] = c
      \/ \E d \in Requests \ {c} : idOf[d] = idOf[c]

\* The table never holds a future that was already resolved, so a reply is
\* never swallowed by a request that is over with an answer.
PendingUnresolved ==
  \A i \in Ids : pending[i] # NoCall =>
    idOf[pending[i]] = i /\ future[pending[i]] \in {"unset", "cancelled"}

\* A reply goes to one call, of the id that the request it answers was sent with:
\* to the call that asked, unless its id was in use twice.
AnswersFit ==
  \A c \in Calls : answers[c] # NoCall =>
    /\ idOf[answers[c]] = idOf[c]
    /\ \A d \in Calls \ {c} : answers[d] # answers[c]

\* The table of futures is exact: who waits is in it, who is in it waits, and
\* who is answered was asked for.
TableIsExact == NoLostWaiter /\ PendingUnresolved /\ AnswersFit

\* Through any sequence of exits, back-offs, stops and restarts there is at
\* most one reader, and it reads the process requests are written to.
OneReader ==
  /\ \A g, h \in Spawns :
       reader[g] \in ActiveReader /\ reader[h] \in ActiveReader => g = h
  /\ \A g \in Spawns : reader[g] = "reading" => g = proc

\* A subprocess the transport no longer refers to has been reaped, whatever
\* was raised or cancelled on the way, unless the reader of its stdout or of
\* its stderr crashed: then every stop() raises before it reaches the process,
\* and a start() that comes after it leaves the process behind (stdio.py:82-109).
NoOrphanProcess ==
  \A g \in Spawns :
    alive[g] = "live" /\ g # proc => reader[g] = "crashed" \/ g \in stderrCrashed

\* One reader and one process, through any sequence of exits and restarts.
OneOfEach == OneReader /\ NoOrphanProcess

\* A stop() raised at the stderr task, after it cancelled the reader.
StopGaveUp == op = "idle" /\ readerTask = NoProc /\ stderrTask \in stderrCrashed

Reader == IF proc = NoProc THEN "none" ELSE reader[proc]

\* When the subprocess exits, every request that waits for it returns: the
\* reader flushes it at end of file, or a stop() does, whichever comes first
\* (stdio.py:94, 134).  Two are not promised it: one whose entry another of the
\* same id displaced, and one whose reader was cancelled by a stop() that raised.
HeldCallsEnd ==
  \A c \in Calls :
    pc[c] = "awaiting" /\ Reader = "reading" /\ alive[proc] = "exited"
      ~> \/ pc[c] = "done"
         \/ Reader = "crashed" \/ StopGaveUp
         \/ \E d \in Calls \ {c} : idOf[d] = idOf[c]
==============================================================================
