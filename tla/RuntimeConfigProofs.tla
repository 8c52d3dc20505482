-------------------------- MODULE RuntimeConfigProofs --------------------------
(***************************************************************************)
(* Proofs about RuntimeConfig, for any names, settings, configurations and *)
(* calls.                                                                  *)
(*                                                                         *)
(* None of the properties is inductive by itself: they speak of the moment *)
(* between two applies, or of the commit, and an apply gets there in many  *)
(* steps.  The invariant says how far its holder has come.  LockInv is     *)
(* about the lock and what a rollback would restore, PlanInv about the     *)
(* difference that is being worked off, TransportInv about what runs       *)
(* meanwhile, PipelineInv about telemetry.                                 *)
(***************************************************************************)
EXTENDS RuntimeConfig, TLAPS

PcValues == {"new", "queued", "applying", "applied", "rolled back", "refused", "cancelled"}

\* The holder of the lock is applying and nobody else is.
OneHolder ==
  /\ lock = NoCall <=> phase = "idle"
  /\ \A c \in Calls : pc[c] = "applying" <=> lock = c

\* Until its last step an apply leaves memory alone.
BackupIsCurrent ==
  lock # NoCall => /\ backup \in [raw : Configs, config : Configs, pipeline : Creators]
                   /\ backup.raw = raw /\ backup.config = config

LockInv == OneHolder /\ BackupIsCurrent /\ MemoryMatchesStore

\* A transport serves only after the apply that built it has ended.
NotYetLive ==
  \A c \in Calls : pc[c] \in {"new", "queued", "applying"} => \A n \in Names : live[n] # c

LiveIsDefined ==
  \A n \in Names : live[n] # NoCall => candidate[live[n]].upstreams[n] # Absent

NothingPlanned ==
  phase \notin {"upstreams", "undo"} => toStart = {} /\ toStop = {} /\ started = {} /\ stopped = {}

\* What has been done and what is still to do is the difference between what
\* the manager runs and the candidate.
DiffIsExact ==
  phase = "upstreams" =>
    \A n \in Names :
      LET new == candidate[lock].upstreams[n] IN
      /\ n \in toStart \cup started <=> new # configured[n] /\ new # Absent
      /\ n \in toStop \cup stopped <=> new # configured[n] /\ configured[n] # Absent

PlanInv == NotYetLive /\ LiveIsDefined /\ RecordIsTrue /\ NothingPlanned /\ DiffIsExact

\* What was stopped runs again only if a restart() started it.  In a rollback the
\* stop() that raised may have stopped nothing.
StoppedIsStopped ==
  \A n \in stopped :
    /\ live[n] \in Creators
    /\ phase = "upstreams" /\ transports[<<n, live[n]>>] \in MayRun
         => <<n, live[n]>> \in relaunched

\* A transport of call c that c could not take back, or cannot in its rollback.
Lost(n, c) ==
  /\ c \in Calls
  /\ \/ pc[c] = "cancelled"
     \/ /\ transports[<<n, c>>] = "unstopped"
        /\ pc[c] = "rolled back" \/ (c = lock /\ phase = "undo")

\* What may run and does not serve was started by the apply in progress or by a
\* restart(), or is lost.
StrayIsKnown ==
  \A n \in Names, c \in Creators :
    transports[<<n, c>>] \in MayRun /\ live[n] # c
      => <<n, c>> \in relaunched \/ (c = lock /\ n \in started) \/ Lost(n, c)

TransportInv == StoppedIsStopped /\ StrayIsKnown

PipelineInv ==
  (\A c \in Calls : pc[c] \notin {"rolled back", "cancelled"}) =>
    \A c \in Creators :
      pipelines[c] = "running" <=> phase # "new telemetry" /\ c = pipeline

ConfigInv == TypeOK /\ LockInv /\ PlanInv /\ TransportInv /\ PipelineInv

LEMMA Constants ==
  /\ Boot \in Creators /\ NoCall \notin Creators /\ Calls \subseteq Creators
  /\ \A k \in Configs : k.upstreams \in [Names -> Settings \cup {Absent}]
  /\ \A n \in Names, c \in Creators : <<n, c>> \in Transports
BY ConfigAssumption DEF Creators, Transports

(***************************************************************************)
(* Before the lock, and the lock.                                          *)
(***************************************************************************)
LEMMA RefuseInv ==
  ASSUME ConfigInv, NEW c \in Calls, Refuse(c)
  PROVE  ConfigInv'
<1>1. TypeOK /\ LockInv /\ PlanInv /\ TransportInv /\ PipelineInv
  BY DEF ConfigInv
<1>2. /\ pc[c] = "new" /\ pc' = [pc EXCEPT ![c] = "refused"]
      /\ UNCHANGED <<raw, config, policy, stored, pipeline, pipelines, live, configured,
                     transports, lock, candidate, backup, phase, toStart, toStop, started,
                     stopped, restarting, relaunched>>
  BY DEF Refuse, memory, telemetry, manager, diff, restart
<1>3. \A d \in Calls : pc'[d] = IF d = c THEN "refused" ELSE pc[d]
  BY <1>1, <1>2 DEF TypeOK
<1>4. TypeOK'
  BY <1>1, <1>2 DEF TypeOK
<1>5. LockInv'
  BY <1>1, <1>2, <1>3 DEF LockInv, OneHolder, BackupIsCurrent, MemoryMatchesStore
<1>6. PlanInv'
  <2>1. NotYetLive'
    BY <1>1, <1>2, <1>3 DEF PlanInv, NotYetLive
  <2>2. RecordIsTrue' /\ LiveIsDefined'
    BY <1>1, <1>2 DEF PlanInv, RecordIsTrue, Served, LiveIsDefined
  <2>3. NothingPlanned' /\ DiffIsExact'
    BY <1>1, <1>2 DEF PlanInv, NothingPlanned, DiffIsExact
  <2> QED BY <2>1, <2>2, <2>3 DEF PlanInv
<1>7. TransportInv'
  <2>1. StoppedIsStopped'
    BY <1>1, <1>2 DEF TransportInv, StoppedIsStopped
  <2>2. \A n \in Names, d \in Creators : Lost(n, d) => Lost(n, d)'
    BY <1>1, <1>2, <1>3 DEF Lost, LockInv, OneHolder
  <2>3. StrayIsKnown'
    BY <1>1, <1>2, <2>2 DEF TransportInv, StrayIsKnown
  <2> QED BY <2>1, <2>3 DEF TransportInv
<1>8. PipelineInv'
  BY <1>1, <1>2, <1>3 DEF PipelineInv
<1> QED BY <1>4, <1>5, <1>6, <1>7, <1>8 DEF ConfigInv

\* A call has a candidate of its own: nothing that serves was built from it.
LEMMA CandidateKeeps ==
  ASSUME ConfigInv, NEW c \in Calls, NEW k \in Configs, pc[c] \in {"new", "queued", "applying"},
         candidate' = [candidate EXCEPT ![c] = k], UNCHANGED <<live, configured>>
  PROVE  /\ candidate' \in [Creators -> Configs]
         /\ RecordIsTrue' /\ LiveIsDefined'
<1>1. TypeOK /\ PlanInv
  BY DEF ConfigInv
<1>2. candidate' \in [Creators -> Configs]
  BY <1>1 DEF TypeOK
<1>3. \A d \in Creators : d # c => candidate'[d] = candidate[d]
  BY <1>1 DEF TypeOK
<1>4. \A n \in Names : live[n] # c /\ live[n] \in Creators \cup {NoCall}
  BY <1>1 DEF PlanInv, NotYetLive, TypeOK
<1>5. \A n \in Names : live[n] # NoCall => candidate'[live[n]] = candidate[live[n]]
  BY <1>3, <1>4
<1> QED BY <1>1, <1>2, <1>5 DEF PlanInv, RecordIsTrue, Served, LiveIsDefined

LEMMA QueueInv ==
  ASSUME ConfigInv, NEW c \in Calls, NEW k \in Configs, Queue(c, k)
  PROVE  ConfigInv'
<1>1. TypeOK /\ LockInv /\ PlanInv /\ TransportInv /\ PipelineInv
  BY DEF ConfigInv
<1>2. /\ pc[c] = "new" /\ pc' = [pc EXCEPT ![c] = "queued"]
      /\ candidate' = [candidate EXCEPT ![c] = k]
      /\ UNCHANGED <<raw, config, policy, stored, pipeline, pipelines, live, configured,
                     transports, lock, backup, phase, toStart, toStop, started,
                     stopped, restarting, relaunched>>
  BY DEF Queue, memory, telemetry, manager, diff, restart
<1>3. \A d \in Calls : pc'[d] = IF d = c THEN "queued" ELSE pc[d]
  BY <1>1, <1>2 DEF TypeOK
<1>4. candidate' \in [Creators -> Configs] /\ RecordIsTrue' /\ LiveIsDefined'
  BY <1>2, CandidateKeeps
<1>5. TypeOK'
  BY <1>1, <1>2, <1>4 DEF TypeOK
<1>6. LockInv'
  BY <1>1, <1>2, <1>3 DEF LockInv, OneHolder, BackupIsCurrent, MemoryMatchesStore
<1>7. PlanInv'
  <2>1. NotYetLive'
    BY <1>1, <1>2, <1>3 DEF PlanInv, NotYetLive
  <2>2. NothingPlanned'
    BY <1>1, <1>2 DEF PlanInv, NothingPlanned
  <2>3. lock # NoCall => lock \in Calls /\ lock # c
    BY <1>1, <1>2 DEF LockInv, OneHolder, TypeOK
  <2>4. phase = "upstreams" => candidate'[lock] = candidate[lock]
    BY <1>1, <1>2, <2>3, Constants DEF LockInv, OneHolder, TypeOK
  <2>5. DiffIsExact'
    BY <1>1, <1>2, <2>4 DEF PlanInv, DiffIsExact
  <2> QED BY <1>4, <2>1, <2>2, <2>5 DEF PlanInv
<1>8. TransportInv'
  <2>1. StoppedIsStopped'
    BY <1>1, <1>2 DEF TransportInv, StoppedIsStopped
  <2>2. \A n \in Names, d \in Creators : Lost(n, d) => Lost(n, d)'
    BY <1>1, <1>2, <1>3 DEF Lost, LockInv, OneHolder
  <2>3. StrayIsKnown'
    BY <1>1, <1>2, <2>2 DEF TransportInv, StrayIsKnown
  <2> QED BY <2>1, <2>3 DEF TransportInv
<1>9. PipelineInv'
  BY <1>1, <1>2, <1>3 DEF PipelineInv
<1> QED BY <1>5, <1>6, <1>7, <1>8, <1>9 DEF ConfigInv

\* Who takes the lock keeps what a rollback restores.
LEMMA TakeLockInv ==
  ASSUME ConfigInv, NEW c \in Calls, pc[c] \in {"new", "queued"}, lock = NoCall, TakeLock(c),
         NEW k \in Configs, candidate' = [candidate EXCEPT ![c] = k]
  PROVE  ConfigInv'
<1>1. TypeOK /\ LockInv /\ PlanInv /\ TransportInv /\ PipelineInv
  BY DEF ConfigInv
<1>2. /\ pc' = [pc EXCEPT ![c] = "applying"] /\ lock' = c /\ phase' = "telemetry"
      /\ backup' = [raw |-> raw, config |-> config, pipeline |-> pipeline]
      /\ UNCHANGED <<raw, config, policy, stored, pipeline, pipelines, live, configured,
                     transports, toStart, toStop, started, stopped, restarting, relaunched>>
  BY DEF TakeLock, memory, telemetry, manager, diff, restart
<1>3. \A d \in Calls : pc'[d] = IF d = c THEN "applying" ELSE pc[d]
  BY <1>1, <1>2 DEF TypeOK
<1>4. candidate' \in [Creators -> Configs] /\ RecordIsTrue' /\ LiveIsDefined'
  BY <1>2, CandidateKeeps
<1>5. backup' \in [raw : Configs, config : Configs, pipeline : Creators]
  BY <1>1, <1>2 DEF TypeOK
<1>6. TypeOK'
  BY <1>1, <1>2, <1>4, <1>5 DEF TypeOK
<1>7. c # NoCall /\ phase = "idle"
  BY <1>1, Constants DEF LockInv, OneHolder
<1>8. LockInv'
  <2>1. OneHolder'
    BY <1>1, <1>2, <1>3, <1>7, Constants DEF LockInv, OneHolder
  <2>2. BackupIsCurrent' /\ MemoryMatchesStore'
    BY <1>1, <1>2, <1>5 DEF LockInv, BackupIsCurrent, MemoryMatchesStore
  <2> QED BY <2>1, <2>2 DEF LockInv
<1>9. PlanInv'
  <2>1. NotYetLive'
    BY <1>1, <1>2, <1>3 DEF PlanInv, NotYetLive
  <2>2. NothingPlanned' /\ DiffIsExact'
    BY <1>1, <1>2, <1>7 DEF PlanInv, NothingPlanned, DiffIsExact
  <2> QED BY <1>4, <2>1, <2>2 DEF PlanInv
<1>10. TransportInv'
  BY <1>1, <1>2, <1>3, <1>7, Constants DEF TransportInv, StoppedIsStopped, StrayIsKnown, Lost
<1>11. PipelineInv'
  BY <1>1, <1>2, <1>3, <1>7 DEF PipelineInv
<1> QED BY <1>6, <1>8, <1>9, <1>10, <1>11 DEF ConfigInv

LEMMA SubmitInv ==
  ASSUME ConfigInv, NEW c \in Calls, NEW k \in Configs, Submit(c, k)
  PROVE  ConfigInv'
BY TakeLockInv DEF Submit, LockIsFree

LEMMA LockGrantedInv ==
  ASSUME ConfigInv, NEW c \in Calls, LockGranted(c)
  PROVE  ConfigInv'
<1>1. candidate \in [Creators -> Configs] /\ c \in Creators
  BY Constants DEF ConfigInv, TypeOK
<1>2. PICK k \in Configs : k = candidate[c]
  BY <1>1
<1>3. candidate' = [candidate EXCEPT ![c] = k]
  BY <1>1, <1>2 DEF LockGranted
<1> QED BY <1>3, TakeLockInv DEF LockGranted

(***************************************************************************)
(* The steps of the holder.  Before its last one it leaves memory, the     *)
(* manager, the candidates and the lock alone.                             *)
(***************************************************************************)
LEMMA HolderFacts ==
  ASSUME ConfigInv, NEW c \in Calls, lock = c
  PROVE  /\ c # NoCall /\ c \in Creators
         /\ pc[c] = "applying" /\ phase # "idle"
         /\ backup \in [raw : Configs, config : Configs, pipeline : Creators]
         /\ backup.raw = raw /\ backup.config = config
         /\ \A n \in Names : live[n] # c
BY Constants DEF ConfigInv, LockInv, OneHolder, BackupIsCurrent, PlanInv, NotYetLive

LEMMA MidwayKeeps ==
  ASSUME ConfigInv, NEW c \in Calls, lock = c, phase' # "idle",
         UNCHANGED <<raw, config, policy, stored, live, configured, lock, pc, candidate, backup>>
  PROVE  LockInv' /\ NotYetLive' /\ LiveIsDefined' /\ RecordIsTrue'
<1>1. LockInv /\ PlanInv /\ lock # NoCall
  BY HolderFacts DEF ConfigInv
<1>2. LockInv'
  BY <1>1 DEF LockInv, OneHolder, BackupIsCurrent, MemoryMatchesStore
<1>3. NotYetLive'
  BY <1>1 DEF PlanInv, NotYetLive
<1>4. LiveIsDefined' /\ RecordIsTrue'
  BY <1>1 DEF PlanInv, LiveIsDefined, RecordIsTrue, Served
<1> QED BY <1>2, <1>3, <1>4

LEMMA StopTelemetryInv ==
  ASSUME ConfigInv, NEW c \in Calls, StopTelemetry(c)
  PROVE  ConfigInv'
<1>1. TypeOK /\ LockInv /\ PlanInv /\ TransportInv /\ PipelineInv
  BY DEF ConfigInv
<1>2. /\ lock = c /\ phase = "telemetry" /\ phase' = "new telemetry"
      /\ pipelines' = [pipelines EXCEPT ![pipeline] = "stopped"]
      /\ UNCHANGED <<raw, config, policy, stored, pipeline, live, configured, transports, lock,
                     pc, candidate, backup, toStart, toStop, started, stopped, restarting,
                     relaunched>>
  BY DEF StopTelemetry, memory, manager, diff, restart
<1>3. TypeOK'
  BY <1>1, <1>2 DEF TypeOK
<1>4. LockInv' /\ NotYetLive' /\ LiveIsDefined' /\ RecordIsTrue'
  BY <1>2, MidwayKeeps
<1>5. NothingPlanned' /\ DiffIsExact'
  BY <1>1, <1>2 DEF PlanInv, NothingPlanned, DiffIsExact
<1>6. TransportInv'
  BY <1>1, <1>2 DEF TransportInv, StoppedIsStopped, StrayIsKnown, Lost
<1>7. \A d \in Creators : pipelines'[d] = IF d = pipeline THEN "stopped" ELSE pipelines[d]
  BY <1>1, <1>2 DEF TypeOK
<1>8. PipelineInv'
  <2> SUFFICES ASSUME \A d \in Calls : pc[d] \notin {"rolled back", "cancelled"}, NEW d \in Creators
               PROVE  pipelines'[d] # "running"
    BY <1>2 DEF PipelineInv
  <2>1. pipelines[d] = "running" => d = pipeline
    BY <1>1 DEF PipelineInv
  <2> QED BY <1>7, <2>1
<1> QED BY <1>3, <1>4, <1>5, <1>6, <1>8 DEF ConfigInv, PlanInv

LEMMA StartTelemetryInv ==
  ASSUME ConfigInv, NEW c \in Calls, StartTelemetry(c)
  PROVE  ConfigInv'
<1>1. TypeOK /\ LockInv /\ PlanInv /\ TransportInv /\ PipelineInv
  BY DEF ConfigInv
<1>2. /\ lock = c /\ phase = "new telemetry" /\ phase' = "plan" /\ pipeline' = c
      /\ pipelines' = [pipelines EXCEPT ![c] = "running"]
      /\ UNCHANGED <<raw, config, policy, stored, live, configured, transports, lock,
                     pc, candidate, backup, toStart, toStop, started, stopped, restarting,
                     relaunched>>
  BY DEF StartTelemetry, memory, manager, diff, restart
<1>3. c \in Creators
  BY Constants
<1>4. TypeOK'
  BY <1>1, <1>2, <1>3 DEF TypeOK
<1>5. LockInv' /\ NotYetLive' /\ LiveIsDefined' /\ RecordIsTrue'
  BY <1>2, MidwayKeeps
<1>6. NothingPlanned' /\ DiffIsExact'
  BY <1>1, <1>2 DEF PlanInv, NothingPlanned, DiffIsExact
<1>7. TransportInv'
  <2>1. StoppedIsStopped'
    BY <1>1, <1>2 DEF TransportInv, StoppedIsStopped
  <2>2. \A n \in Names, d \in Creators : Lost(n, d) => Lost(n, d)'
    BY <1>1, <1>2, <1>3 DEF Lost, LockInv, OneHolder
  <2>3. StrayIsKnown'
    BY <1>1, <1>2, <2>2 DEF TransportInv, StrayIsKnown
  <2> QED BY <2>1, <2>3 DEF TransportInv
<1>8. \A d \in Creators : pipelines'[d] = IF d = c THEN "running" ELSE pipelines[d]
  BY <1>1, <1>2 DEF TypeOK
<1>9. PipelineInv'
  BY <1>1, <1>2, <1>8 DEF PipelineInv
<1> QED BY <1>4, <1>5, <1>6, <1>7, <1>9 DEF ConfigInv, PlanInv

LEMMA PlanDiffInv ==
  ASSUME ConfigInv, NEW c \in Calls, PlanDiff(c)
  PROVE  ConfigInv'
<1>1. TypeOK /\ LockInv /\ PlanInv /\ TransportInv /\ PipelineInv
  BY DEF ConfigInv
<1> DEFINE new == candidate[c].upstreams
<1>2. /\ lock = c /\ phase \in {"plan", "telemetry"} /\ phase' = "upstreams"
      /\ toStart' = {n \in Names : new[n] # configured[n] /\ new[n] # Absent}
      /\ toStop' = {n \in Names : new[n] # configured[n] /\ configured[n] # Absent}
      /\ UNCHANGED <<raw, config, policy, stored, pipeline, pipelines, live, configured,
                     transports, lock, pc, candidate, backup, started, stopped, restarting,
                     relaunched>>
  BY DEF PlanDiff, Changed, memory, telemetry, manager, restart
<1>3. started = {} /\ stopped = {}
  BY <1>1, <1>2 DEF PlanInv, NothingPlanned
<1>4. TypeOK'
  BY <1>1, <1>2 DEF TypeOK
<1>5. LockInv' /\ NotYetLive' /\ LiveIsDefined' /\ RecordIsTrue'
  BY <1>2, MidwayKeeps
<1>6. NothingPlanned' /\ DiffIsExact'
  BY <1>2, <1>3 DEF NothingPlanned, DiffIsExact
<1>7. TransportInv'
  <2>1. StoppedIsStopped'
    BY <1>2, <1>3 DEF StoppedIsStopped
  <2>2. \A n \in Names, d \in Creators : Lost(n, d) => Lost(n, d)'
    BY <1>1, <1>2, <1>3 DEF Lost, LockInv, OneHolder
  <2>3. StrayIsKnown'
    BY <1>1, <1>2, <2>2 DEF TransportInv, StrayIsKnown
  <2> QED BY <2>1, <2>3 DEF TransportInv
<1>8. PipelineInv'
  BY <1>1, <1>2 DEF PipelineInv
<1> QED BY <1>4, <1>5, <1>6, <1>7, <1>8 DEF ConfigInv, PlanInv

LEMMA StartNewInv ==
  ASSUME ConfigInv, NEW c \in Calls, NEW n \in Names, StartNew(c, n)
  PROVE  ConfigInv'
<1>1. TypeOK /\ LockInv /\ PlanInv /\ TransportInv /\ PipelineInv
  BY DEF ConfigInv
<1>2. /\ lock = c /\ phase = "upstreams" /\ n \in toStart
      /\ transports' = [transports EXCEPT ![<<n, c>>] = "running"]
      /\ toStart' = toStart \ {n} /\ started' = started \cup {n}
      /\ UNCHANGED <<raw, config, policy, stored, pipeline, pipelines, live, configured, lock,
                     pc, candidate, backup, phase, toStop, stopped, restarting, relaunched>>
  BY DEF StartNew, memory, telemetry, manager, restart
<1>3. TypeOK'
  BY <1>1, <1>2 DEF TypeOK
<1>4. LockInv' /\ NotYetLive' /\ LiveIsDefined' /\ RecordIsTrue'
  BY <1>2, MidwayKeeps
<1>5. NothingPlanned'
  BY <1>2 DEF NothingPlanned
<1>6. DiffIsExact'
  BY <1>1, <1>2 DEF PlanInv, DiffIsExact
<1>7. \A m \in Names, d \in Creators :
        transports'[<<m, d>>] = IF m = n /\ d = c THEN "running" ELSE transports[<<m, d>>]
  BY <1>1, <1>2, Constants DEF TypeOK
<1>8. \A m \in stopped :
        /\ m \in Names /\ live[m] \in Creators /\ live[m] # c
        /\ phase = "upstreams" /\ transports[<<m, live[m]>>] \in MayRun
             => <<m, live[m]>> \in relaunched
  BY <1>1, <1>2, HolderFacts DEF TypeOK, TransportInv, StoppedIsStopped
<1>9. StoppedIsStopped'
  BY <1>2, <1>7, <1>8 DEF StoppedIsStopped
<1>10. StrayIsKnown'
  <2> SUFFICES ASSUME NEW m \in Names, NEW d \in Creators, transports'[<<m, d>>] \in MayRun,
                      live[m] # d
               PROVE  <<m, d>> \in relaunched' \/ (d = lock /\ m \in started') \/ Lost(m, d)'
    BY <1>2 DEF StrayIsKnown
  <2>1. transports'[<<m, d>>] = transports[<<m, d>>] \/ (m = n /\ d = c)
    BY <1>7
  <2>2. transports[<<m, d>>] \in MayRun =>
          <<m, d>> \in relaunched \/ (d = lock /\ m \in started) \/ Lost(m, d)
    BY <1>1 DEF TransportInv, StrayIsKnown
  <2> QED BY <1>2, <2>1, <2>2 DEF Lost
<1>11. PipelineInv'
  BY <1>1, <1>2 DEF PipelineInv
<1> QED BY <1>3, <1>4, <1>5, <1>6, <1>9, <1>10, <1>11 DEF ConfigInv, PlanInv, TransportInv

LEMMA StartNewFailsInv ==
  ASSUME ConfigInv, NEW c \in Calls, StartNewFails(c)
  PROVE  ConfigInv'
<1>1. TypeOK /\ LockInv /\ PlanInv /\ TransportInv /\ PipelineInv
  BY DEF ConfigInv
<1>2. /\ lock = c /\ phase = "upstreams" /\ phase' = "undo"
      /\ UNCHANGED <<raw, config, policy, stored, pipeline, pipelines, live, configured,
                     transports, lock, pc, candidate, backup, toStart, toStop, started, stopped,
                     restarting, relaunched>>
  BY DEF StartNewFails, memory, telemetry, manager, diff, restart
<1>3. TypeOK'
  BY <1>1, <1>2 DEF TypeOK
<1>4. LockInv' /\ NotYetLive' /\ LiveIsDefined' /\ RecordIsTrue'
  BY <1>2, MidwayKeeps
<1>5. NothingPlanned' /\ DiffIsExact'
  BY <1>2 DEF NothingPlanned, DiffIsExact
<1>6. TransportInv'
  BY <1>1, <1>2 DEF TransportInv, StoppedIsStopped, StrayIsKnown, Lost
<1>7. PipelineInv'
  BY <1>1, <1>2 DEF PipelineInv
<1> QED BY <1>3, <1>4, <1>5, <1>6, <1>7 DEF ConfigInv, PlanInv

\* What is to be stopped was configured, and so it serves.
LEMMA StopOldInv ==
  ASSUME ConfigInv, NEW c \in Calls, NEW n \in Names, NEW raises \in BOOLEAN,
         StopOld(c, n, raises)
  PROVE  ConfigInv'
<1>1. TypeOK /\ LockInv /\ PlanInv /\ TransportInv /\ PipelineInv
  BY DEF ConfigInv
<1>2. /\ lock = c /\ phase = "upstreams" /\ n \in toStop
      /\ \E r \in {"stopped", "unstopped"} : transports' = [transports EXCEPT ![<<n, live[n]>>] = r]
      /\ phase' = "upstreams" => transports' = [transports EXCEPT ![<<n, live[n]>>] = "stopped"]
      /\ toStop' = toStop \ {n} /\ stopped' = stopped \cup {n}
      /\ phase' \in {"upstreams", "undo"}
      /\ UNCHANGED <<raw, config, policy, stored, pipeline, pipelines, live, configured, lock,
                     pc, candidate, backup, toStart, started, restarting, relaunched>>
  BY DEF StopOld, Stop, memory, telemetry, manager, restart
<1>3. configured[n] # Absent
  BY <1>1, <1>2 DEF PlanInv, DiffIsExact
<1>4. live[n] \in Creators
  BY <1>1, <1>3 DEF PlanInv, RecordIsTrue, Served, TypeOK
<1>5. TypeOK'
  BY <1>1, <1>2 DEF TypeOK
<1>6. LockInv' /\ NotYetLive' /\ LiveIsDefined' /\ RecordIsTrue'
  BY <1>2, MidwayKeeps
<1>7. NothingPlanned'
  BY <1>2 DEF NothingPlanned
<1>8. DiffIsExact'
  BY <1>1, <1>2 DEF PlanInv, DiffIsExact
<1>9. \A m \in Names, d \in Creators :
        /\ ~(m = n /\ d = live[n]) => transports'[<<m, d>>] = transports[<<m, d>>]
        /\ phase' = "upstreams" /\ m = n /\ d = live[n] => transports'[<<m, d>>] = "stopped"
  BY <1>1, <1>2, <1>4, Constants DEF TypeOK
<1>10. \A m \in stopped :
        /\ m \in Names /\ live[m] \in Creators
        /\ phase = "upstreams" /\ transports[<<m, live[m]>>] \in MayRun
             => <<m, live[m]>> \in relaunched
  BY <1>1 DEF TypeOK, TransportInv, StoppedIsStopped
<1>11. StoppedIsStopped'
  BY <1>2, <1>4, <1>9, <1>10 DEF StoppedIsStopped, MayRun
<1>12. StrayIsKnown'
  <2> SUFFICES ASSUME NEW m \in Names, NEW d \in Creators, transports'[<<m, d>>] \in MayRun,
                      live[m] # d
               PROVE  <<m, d>> \in relaunched' \/ (d = lock /\ m \in started') \/ Lost(m, d)'
    BY <1>2 DEF StrayIsKnown
  <2>1. transports'[<<m, d>>] = transports[<<m, d>>]
    BY <1>9
  <2>2. transports[<<m, d>>] \in MayRun =>
          <<m, d>> \in relaunched \/ (d = lock /\ m \in started) \/ Lost(m, d)
    BY <1>1 DEF TransportInv, StrayIsKnown
  <2> QED BY <1>2, <2>1, <2>2 DEF Lost
<1>13. PipelineInv'
  BY <1>1, <1>2 DEF PipelineInv
<1> QED BY <1>5, <1>6, <1>7, <1>8, <1>11, <1>12, <1>13 DEF ConfigInv, PlanInv, TransportInv

(***************************************************************************)
(* The ends of an apply.                                                   *)
(***************************************************************************)
LEMMA ReleaseInv ==
  ASSUME ConfigInv, NEW c \in Calls, lock = c, NEW result \in {"applied", "rolled back", "cancelled"},
         Release(c, result)
  PROVE  /\ lock' \in Calls \cup {NoCall}
         /\ pc' \in [Calls -> PcValues]
         /\ pc'[c] = result /\ \A d \in Calls : d # c => pc'[d] = pc[d]
         /\ backup' \in [raw : Configs, config : Configs, pipeline : Creators] \cup {NoBackup}
         /\ phase' \in {"idle", "telemetry", "new telemetry", "plan", "upstreams", "undo"}
         /\ {toStart', toStop', started', stopped'} \subseteq SUBSET Names
         /\ OneHolder' /\ BackupIsCurrent' /\ NothingPlanned' /\ DiffIsExact'
<1>1. pc \in [Calls -> PcValues]
  BY DEF ConfigInv, TypeOK, PcValues
<1>2. \A d \in Calls : pc'[d] = IF d = c THEN result ELSE pc[d]
  BY <1>1 DEF Release
<1>3. OneHolder'
  BY <1>2, Constants DEF Release, ConfigInv, LockInv, OneHolder
<1>4. BackupIsCurrent' /\ NothingPlanned' /\ DiffIsExact'
  BY DEF Release, BackupIsCurrent, NothingPlanned, DiffIsExact
<1> QED BY <1>1, <1>2, <1>3, <1>4 DEF Release, PcValues

\* A rollback that has nothing of its own running any more.
LEMMA RollBackInv ==
  ASSUME ConfigInv, NEW c \in Calls, lock = c, started = {}, RollBack(c),
         UNCHANGED <<stored, pipelines, live, configured, transports, candidate, restarting,
                     relaunched>>
  PROVE  ConfigInv'
<1>1. TypeOK /\ LockInv /\ PlanInv /\ TransportInv /\ PipelineInv
  BY DEF ConfigInv
<1>2. Restore /\ Release(c, "rolled back")
  BY DEF RollBack
<1>3. raw' = raw /\ config' = config /\ policy' = config /\ pipeline' \in Creators
  BY <1>2, HolderFacts DEF Restore
<1>4. TypeOK'
  <2>1. /\ lock' \in Calls \cup {NoCall}
        /\ pc' \in [Calls -> PcValues]
        /\ backup' \in [raw : Configs, config : Configs, pipeline : Creators] \cup {NoBackup}
        /\ phase' \in {"idle", "telemetry", "new telemetry", "plan", "upstreams", "undo"}
        /\ {toStart', toStop', started', stopped'} \subseteq SUBSET Names
    BY <1>2, ReleaseInv
  <2> QED BY <1>1, <1>2, <1>3, <2>1 DEF TypeOK, PcValues
<1>5. LockInv'
  BY <1>1, <1>2, <1>3, ReleaseInv DEF LockInv, MemoryMatchesStore
<1>6. PlanInv'
  <2>1. \A d \in Calls : pc'[d] \in {"new", "queued", "applying"} => pc'[d] = pc[d]
    BY <1>2, ReleaseInv
  <2>2. NotYetLive'
    BY <1>1, <2>1 DEF PlanInv, NotYetLive
  <2>3. LiveIsDefined' /\ RecordIsTrue'
    BY <1>1 DEF PlanInv, LiveIsDefined, RecordIsTrue, Served
  <2> QED BY <1>2, <2>2, <2>3, ReleaseInv DEF PlanInv
<1>7. TransportInv'
  <2>1. pc[c] = "applying" /\ pc'[c] = "rolled back" /\ \A d \in Calls : d # c => pc'[d] = pc[d]
    BY <1>2, HolderFacts, ReleaseInv
  <2>2. StoppedIsStopped'
    BY <1>2 DEF Release, StoppedIsStopped
  <2>3. StrayIsKnown'
    <3> SUFFICES ASSUME NEW n \in Names, NEW d \in Creators, transports[<<n, d>>] \in MayRun,
                        live[n] # d
                 PROVE  <<n, d>> \in relaunched \/ Lost(n, d)'
      BY DEF StrayIsKnown
    <3>1. <<n, d>> \in relaunched \/ Lost(n, d)
      BY <1>1 DEF TransportInv, StrayIsKnown
    <3> QED BY <2>1, <3>1 DEF Lost
  <2> QED BY <2>2, <2>3 DEF TransportInv
<1>8. PipelineInv'
  BY <1>2, ReleaseInv DEF PipelineInv
<1> QED BY <1>4, <1>5, <1>6, <1>7, <1>8 DEF ConfigInv

LEMMA TelemetryFailsInv ==
  ASSUME ConfigInv, NEW c \in Calls, TelemetryFails(c)
  PROVE  ConfigInv'
<1>1. lock = c /\ started = {}
  BY DEF TelemetryFails, ConfigInv, PlanInv, NothingPlanned
<1> QED BY <1>1, RollBackInv DEF TelemetryFails, manager, restart

LEMMA UndoneInv ==
  ASSUME ConfigInv, NEW c \in Calls, Undone(c)
  PROVE  ConfigInv'
BY RollBackInv DEF Undone, manager, restart

LEMMA UndoStartInv ==
  ASSUME ConfigInv, NEW c \in Calls, NEW n \in Names, NEW raises \in BOOLEAN,
         UndoStart(c, n, raises)
  PROVE  ConfigInv'
<1>1. TypeOK /\ LockInv /\ PlanInv /\ TransportInv /\ PipelineInv
  BY DEF ConfigInv
<1>2. /\ lock = c /\ phase = "undo"
      /\ \E r \in {"stopped", "unstopped"} : transports' = [transports EXCEPT ![<<n, c>>] = r]
      /\ started' = started \ {n}
      /\ UNCHANGED <<raw, config, policy, stored, pipeline, pipelines, live, configured, lock, pc,
                     candidate, backup, phase, toStart, toStop, stopped, restarting, relaunched>>
  BY DEF UndoStart, Stop, memory, telemetry, manager, restart
<1>3. TypeOK'
  BY <1>1, <1>2 DEF TypeOK
<1>4. LockInv' /\ NotYetLive' /\ LiveIsDefined' /\ RecordIsTrue'
  BY <1>2, MidwayKeeps
<1>5. NothingPlanned' /\ DiffIsExact'
  BY <1>2 DEF NothingPlanned, DiffIsExact
<1>6. \A m \in Names, d \in Creators :
        /\ ~(m = n /\ d = c) => transports'[<<m, d>>] = transports[<<m, d>>]
        /\ m = n /\ d = c => transports'[<<m, d>>] \in {"stopped", "unstopped"}
  BY <1>1, <1>2, Constants DEF TypeOK
<1>7. \A m \in stopped :
        /\ m \in Names /\ live[m] \in Creators
        /\ phase = "upstreams" /\ transports[<<m, live[m]>>] \in MayRun
             => <<m, live[m]>> \in relaunched
  BY <1>1 DEF TypeOK, TransportInv, StoppedIsStopped
<1>8. StoppedIsStopped'
  BY <1>2, <1>6, <1>7 DEF StoppedIsStopped
<1>9. StrayIsKnown'
  <2> SUFFICES ASSUME NEW m \in Names, NEW d \in Creators, transports'[<<m, d>>] \in MayRun,
                      live[m] # d
               PROVE  <<m, d>> \in relaunched' \/ (d = lock /\ m \in started') \/ Lost(m, d)'
    BY <1>2 DEF StrayIsKnown
  <2>1. transports'[<<m, d>>] = transports[<<m, d>>] \/ (m = n /\ d = c)
    BY <1>6
  <2>2. transports[<<m, d>>] \in MayRun =>
          <<m, d>> \in relaunched \/ (d = lock /\ m \in started) \/ Lost(m, d)
    BY <1>1 DEF TransportInv, StrayIsKnown
  <2> QED BY <1>2, <2>1, <2>2, <1>6 DEF Lost, MayRun
<1>10. PipelineInv'
  BY <1>1, <1>2 DEF PipelineInv
<1> QED BY <1>3, <1>4, <1>5, <1>8, <1>9, <1>10 DEF ConfigInv, PlanInv, TransportInv

LEMMA UndoStopInv ==
  ASSUME ConfigInv, NEW c \in Calls, NEW n \in Names, NEW succeeds \in BOOLEAN,
         UndoStop(c, n, succeeds)
  PROVE  ConfigInv'
<1>1. TypeOK /\ LockInv /\ PlanInv /\ TransportInv /\ PipelineInv
  BY DEF ConfigInv
<1>2. /\ lock = c /\ phase = "undo" /\ n \in stopped
      /\ \/ transports' = [transports EXCEPT ![<<n, live[n]>>] = "running"]
         \/ transports' = transports
      /\ stopped' = stopped \ {n}
      /\ UNCHANGED <<raw, config, policy, stored, pipeline, pipelines, live, configured, lock, pc,
                     candidate, backup, phase, toStart, toStop, started, restarting, relaunched>>
  BY DEF UndoStop, memory, telemetry, manager, restart
<1>3. TypeOK'
  BY <1>1, <1>2 DEF TypeOK
<1>4. LockInv' /\ NotYetLive' /\ LiveIsDefined' /\ RecordIsTrue'
  BY <1>2, MidwayKeeps
<1>5. NothingPlanned' /\ DiffIsExact'
  BY <1>2 DEF NothingPlanned, DiffIsExact
<1>6. \A m \in Names, d \in Creators :
        ~(m = n /\ d = live[n]) => transports'[<<m, d>>] = transports[<<m, d>>]
  BY <1>1, <1>2, Constants DEF TypeOK
<1>7. \A m \in stopped :
        /\ m \in Names /\ live[m] \in Creators
        /\ phase = "upstreams" /\ transports[<<m, live[m]>>] \in MayRun
             => <<m, live[m]>> \in relaunched
  BY <1>1 DEF TypeOK, TransportInv, StoppedIsStopped
<1>8. StoppedIsStopped'
  BY <1>2, <1>6, <1>7 DEF StoppedIsStopped
<1>9. StrayIsKnown'
  <2> SUFFICES ASSUME NEW m \in Names, NEW d \in Creators, transports'[<<m, d>>] \in MayRun,
                      live[m] # d
               PROVE  <<m, d>> \in relaunched' \/ (d = lock /\ m \in started') \/ Lost(m, d)'
    BY <1>2 DEF StrayIsKnown
  <2>1. transports'[<<m, d>>] = transports[<<m, d>>]
    BY <1>6
  <2>2. transports[<<m, d>>] \in MayRun =>
          <<m, d>> \in relaunched \/ (d = lock /\ m \in started) \/ Lost(m, d)
    BY <1>1 DEF TransportInv, StrayIsKnown
  <2> QED BY <1>2, <2>1, <2>2 DEF Lost
<1>10. PipelineInv'
  BY <1>1, <1>2 DEF PipelineInv
<1> QED BY <1>3, <1>4, <1>5, <1>8, <1>9, <1>10 DEF ConfigInv, PlanInv, TransportInv

\* When nothing of the difference is left, what serves is what the candidate
\* asks for.
LEMMA ServedIsCandidate ==
  ASSUME ConfigInv, NEW c \in Calls, CommitUpstreams(c), NEW n \in Names
  PROVE  /\ live'[n] = IF n \in started THEN c ELSE IF n \in stopped THEN NoCall ELSE live[n]
         /\ live'[n] \in Creators \cup {NoCall}
         /\ Served(n)' = candidate[c].upstreams[n]
         /\ live'[n] # NoCall => candidate[live'[n]].upstreams[n] # Absent
<1> DEFINE new == candidate[c].upstreams[n]
<1>1. /\ lock = c /\ phase = "upstreams" /\ toStart = {} /\ toStop = {}
      /\ live' = [m \in Names |-> IF m \in started THEN c
                                  ELSE IF m \in stopped THEN NoCall ELSE live[m]]
      /\ candidate' = candidate
  BY DEF CommitUpstreams
<1>2. live'[n] = IF n \in started THEN c ELSE IF n \in stopped THEN NoCall ELSE live[n]
  BY <1>1
<1>3. live[n] \in Creators \cup {NoCall} /\ c \in Creators /\ c # NoCall
  BY <1>1, HolderFacts DEF ConfigInv, TypeOK
<1>4. /\ n \in started <=> new # configured[n] /\ new # Absent
      /\ n \in stopped <=> new # configured[n] /\ configured[n] # Absent
  BY <1>1 DEF ConfigInv, PlanInv, DiffIsExact
<1>5. Served(n) = configured[n] /\ (live[n] # NoCall => candidate[live[n]].upstreams[n] # Absent)
  BY DEF ConfigInv, PlanInv, RecordIsTrue, LiveIsDefined
<1>6. Served(n)' = IF live'[n] = NoCall THEN Absent ELSE candidate[live'[n]].upstreams[n]
  BY <1>1 DEF Served
<1>7. CASE n \in started
  BY <1>2, <1>3, <1>4, <1>6, <1>7
<1>8. CASE n \notin started /\ n \in stopped
  BY <1>2, <1>3, <1>4, <1>6, <1>8
<1>9. CASE n \notin started /\ n \notin stopped
  <2>1. new = configured[n] /\ live'[n] = live[n]
    BY <1>2, <1>4, <1>9
  <2>2. Served(n)' = Served(n)
    BY <1>6, <2>1 DEF Served
  <2> QED BY <1>2, <1>3, <1>5, <2>1, <2>2
<1> QED BY <1>7, <1>8, <1>9

\* What a commit replaces was stopped before.
LEMMA CommitKeeps ==
  ASSUME ConfigInv, NEW c \in Calls, NEW result \in {"applied", "rolled back"},
         CommitUpstreams(c), Release(c, result)
  PROVE  /\ live' \in [Names -> Creators \cup {NoCall}]
         /\ configured' \in [Names -> Settings \cup {Absent}]
         /\ PlanInv' /\ TransportInv'
<1>1. /\ lock = c /\ phase = "upstreams" /\ toStart = {} /\ toStop = {}
      /\ live' = [m \in Names |-> IF m \in started THEN c
                                  ELSE IF m \in stopped THEN NoCall ELSE live[m]]
      /\ configured' = candidate[c].upstreams
      /\ UNCHANGED <<pipelines, transports, candidate, restarting, relaunched>>
  BY DEF CommitUpstreams, restart
<1>2. live' \in [Names -> Creators \cup {NoCall}]
  BY <1>1, ServedIsCandidate
<1>3. configured' \in [Names -> Settings \cup {Absent}]
  BY <1>1, Constants DEF ConfigInv, TypeOK
<1>4. PlanInv'
  <2>1. NotYetLive'
    <3> SUFFICES ASSUME NEW d \in Calls, pc'[d] \in {"new", "queued", "applying"}, NEW n \in Names
                 PROVE  live'[n] # d
      BY DEF NotYetLive
    <3>1. d # c /\ pc'[d] = pc[d]
      BY <1>1, ReleaseInv
    <3>2. live[n] # d /\ d # NoCall
      BY <3>1, Constants DEF ConfigInv, PlanInv, NotYetLive
    <3> QED BY <3>1, <3>2, ServedIsCandidate
  <2>2. LiveIsDefined'
    BY <1>1, ServedIsCandidate DEF LiveIsDefined
  <2>3. RecordIsTrue'
    BY <1>1, ServedIsCandidate DEF RecordIsTrue
  <2> QED BY <1>1, <2>1, <2>2, <2>3, ReleaseInv DEF PlanInv
<1>5. StoppedIsStopped'
  BY DEF Release, StoppedIsStopped
<1>6. StrayIsKnown'
  <2> SUFFICES ASSUME NEW n \in Names, NEW d \in Creators, transports[<<n, d>>] \in MayRun,
                      live'[n] # d
               PROVE  <<n, d>> \in relaunched \/ Lost(n, d)'
    BY <1>1 DEF StrayIsKnown
  <2>0. /\ pc[c] = "applying" /\ \A e \in Calls : e # c => pc'[e] = pc[e]
        /\ Lost(n, d) => Lost(n, d)'
    <3>1. pc[c] = "applying" /\ \A e \in Calls : e # c => pc'[e] = pc[e]
      BY <1>1, HolderFacts, ReleaseInv
    <3> QED BY <1>1, <3>1 DEF Lost
  <2>1. CASE live[n] # d
    <3>1. <<n, d>> \in relaunched \/ (d = c /\ n \in started) \/ Lost(n, d)
      BY <1>1, <2>1 DEF ConfigInv, TransportInv, StrayIsKnown
    <3> QED BY <2>0, <3>1, ServedIsCandidate
  <2>2. CASE live[n] = d
    <3>1. n \in started \cup stopped
      BY <2>2, ServedIsCandidate
    <3>2. d # NoCall
      BY Constants
    <3>3. configured[n] # Absent
      BY <2>2, <3>2 DEF ConfigInv, PlanInv, RecordIsTrue, Served, LiveIsDefined
    <3>4. n \in stopped
      BY <1>1, <3>1, <3>3 DEF ConfigInv, PlanInv, DiffIsExact
    <3> QED BY <1>1, <2>2, <3>4 DEF ConfigInv, TransportInv, StoppedIsStopped
  <2> QED BY <2>1, <2>2
<1> QED BY <1>2, <1>3, <1>4, <1>5, <1>6 DEF TransportInv

LEMMA ApplyInv ==
  ASSUME ConfigInv, NEW c \in Calls, Apply(c)
  PROVE  ConfigInv'
<1>1. TypeOK /\ LockInv /\ PlanInv /\ TransportInv /\ PipelineInv
  BY DEF ConfigInv
<1>2. /\ CommitUpstreams(c) /\ Release(c, "applied")
      /\ lock = c /\ phase = "upstreams"
      /\ raw' = candidate[c] /\ config' = candidate[c] /\ policy' = candidate[c]
      /\ stored' = candidate[c]
      /\ UNCHANGED <<pipeline, pipelines, transports, candidate, restarting, relaunched>>
  BY DEF Apply, CommitUpstreams, restart
<1>3. /\ live' \in [Names -> Creators \cup {NoCall}]
      /\ configured' \in [Names -> Settings \cup {Absent}]
      /\ PlanInv' /\ TransportInv'
  BY <1>2, CommitKeeps
<1>4. candidate[c] \in Configs
  BY <1>1, Constants DEF TypeOK
<1>5. TypeOK'
  <2>1. /\ lock' \in Calls \cup {NoCall}
        /\ pc' \in [Calls -> PcValues]
        /\ backup' \in [raw : Configs, config : Configs, pipeline : Creators] \cup {NoBackup}
        /\ phase' \in {"idle", "telemetry", "new telemetry", "plan", "upstreams", "undo"}
        /\ {toStart', toStop', started', stopped'} \subseteq SUBSET Names
    BY <1>2, ReleaseInv
  <2> QED BY <1>1, <1>2, <1>3, <1>4, <2>1 DEF TypeOK, PcValues
<1>6. LockInv'
  BY <1>2, ReleaseInv DEF LockInv, MemoryMatchesStore
<1>7. phase' = "idle"
  BY <1>2 DEF Release
<1>8. (\A d \in Calls : pc'[d] \notin {"rolled back", "cancelled"}) =>
        \A d \in Calls : pc[d] \notin {"rolled back", "cancelled"}
  <2>1. pc[c] = "applying"
    BY <1>2, HolderFacts
  <2>2. \A d \in Calls : d # c => pc'[d] = pc[d]
    BY <1>2, ReleaseInv
  <2> QED BY <2>1, <2>2
<1>9. PipelineInv'
  BY <1>1, <1>2, <1>7, <1>8 DEF PipelineInv
<1> QED BY <1>3, <1>5, <1>6, <1>9 DEF ConfigInv

LEMMA PersistFailsInv ==
  ASSUME ConfigInv, NEW c \in Calls, PersistFails(c)
  PROVE  ConfigInv'
<1>1. TypeOK /\ LockInv
  BY DEF ConfigInv
<1>2. /\ CommitUpstreams(c) /\ Restore /\ Release(c, "rolled back")
      /\ lock = c
      /\ UNCHANGED <<stored, pipelines, transports, candidate, restarting, relaunched>>
  BY DEF PersistFails, RollBack, CommitUpstreams, restart
<1>3. /\ live' \in [Names -> Creators \cup {NoCall}]
      /\ configured' \in [Names -> Settings \cup {Absent}]
      /\ PlanInv' /\ TransportInv'
  BY <1>2, CommitKeeps
<1>4. raw' = raw /\ config' = config /\ policy' = config /\ pipeline' \in Creators
  BY <1>2, HolderFacts DEF Restore
<1>5. TypeOK'
  <2>1. /\ lock' \in Calls \cup {NoCall}
        /\ pc' \in [Calls -> PcValues]
        /\ backup' \in [raw : Configs, config : Configs, pipeline : Creators] \cup {NoBackup}
        /\ phase' \in {"idle", "telemetry", "new telemetry", "plan", "upstreams", "undo"}
        /\ {toStart', toStop', started', stopped'} \subseteq SUBSET Names
    BY <1>2, ReleaseInv
  <2> QED BY <1>1, <1>2, <1>3, <1>4, <2>1 DEF TypeOK, PcValues
<1>6. LockInv'
  BY <1>1, <1>2, <1>4, ReleaseInv DEF LockInv, MemoryMatchesStore
<1>7. PipelineInv'
  BY <1>2, ReleaseInv DEF PipelineInv
<1> QED BY <1>3, <1>5, <1>6, <1>7 DEF ConfigInv

(***************************************************************************)
(* Cancellation.                                                           *)
(***************************************************************************)
LEMMA CancelQueuedInv ==
  ASSUME ConfigInv, NEW c \in Calls, CancelQueued(c)
  PROVE  ConfigInv'
<1>1. TypeOK /\ LockInv /\ PlanInv /\ TransportInv /\ PipelineInv
  BY DEF ConfigInv
<1>2. /\ pc[c] = "queued" /\ pc' = [pc EXCEPT ![c] = "cancelled"]
      /\ UNCHANGED <<raw, config, policy, stored, pipeline, pipelines, live, configured,
                     transports, lock, candidate, backup, phase, toStart, toStop, started,
                     stopped, restarting, relaunched>>
  BY DEF CancelQueued, memory, telemetry, manager, diff, restart
<1>3. \A d \in Calls : pc'[d] = IF d = c THEN "cancelled" ELSE pc[d]
  BY <1>1, <1>2 DEF TypeOK
<1>4. TypeOK'
  BY <1>1, <1>2 DEF TypeOK
<1>5. LockInv'
  BY <1>1, <1>2, <1>3 DEF LockInv, OneHolder, BackupIsCurrent, MemoryMatchesStore
<1>6. PlanInv'
  <2>1. NotYetLive'
    BY <1>1, <1>2, <1>3 DEF PlanInv, NotYetLive
  <2>2. RecordIsTrue' /\ LiveIsDefined'
    BY <1>1, <1>2 DEF PlanInv, RecordIsTrue, Served, LiveIsDefined
  <2>3. NothingPlanned' /\ DiffIsExact'
    BY <1>1, <1>2 DEF PlanInv, NothingPlanned, DiffIsExact
  <2> QED BY <2>1, <2>2, <2>3 DEF PlanInv
<1>7. TransportInv'
  <2>1. StoppedIsStopped'
    BY <1>1, <1>2 DEF TransportInv, StoppedIsStopped
  <2>2. \A n \in Names, d \in Creators : Lost(n, d) => Lost(n, d)'
    BY <1>1, <1>2, <1>3 DEF Lost, LockInv, OneHolder
  <2>3. StrayIsKnown'
    BY <1>1, <1>2, <2>2 DEF TransportInv, StrayIsKnown
  <2> QED BY <2>1, <2>3 DEF TransportInv
<1>8. PipelineInv'
  BY <1>3 DEF PipelineInv
<1> QED BY <1>4, <1>5, <1>6, <1>7, <1>8 DEF ConfigInv

\* A cancelled apply leaves what it has started, and what serves still serves.
LEMMA CancelApplyInv ==
  ASSUME ConfigInv, NEW c \in Calls, CancelApply(c)
  PROVE  ConfigInv'
<1>1. TypeOK /\ LockInv /\ PlanInv /\ TransportInv /\ PipelineInv
  BY DEF ConfigInv
<1>2. /\ lock = c /\ Release(c, "cancelled")
      /\ UNCHANGED <<raw, config, policy, stored, pipeline, pipelines, live, configured,
                     candidate, restarting, relaunched>>
  BY DEF CancelApply, memory, telemetry, manager, restart
<1>3. \/ transports' = transports
      \/ \E n \in Names, d \in Creators \cup {NoCall}, r \in {"stopped", "unstopped"} :
           /\ d = live[n] \/ d = c
           /\ transports' = [transports EXCEPT ![<<n, d>>] = r]
  BY <1>1, <1>2, HolderFacts DEF CancelApply, Stop, TypeOK
<1>4. /\ transports' \in [Transports -> {"none", "running", "stopped", "unstopped"}]
      /\ \A m \in Names, d \in Creators :
           live[m] # d /\ d # c => transports'[<<m, d>>] = transports[<<m, d>>]
  BY <1>1, <1>3, Constants DEF TypeOK
<1>5. TypeOK'
  <2>1. /\ lock' \in Calls \cup {NoCall} /\ pc' \in [Calls -> PcValues]
        /\ backup' \in [raw : Configs, config : Configs, pipeline : Creators] \cup {NoBackup}
        /\ phase' \in {"idle", "telemetry", "new telemetry", "plan", "upstreams", "undo"}
        /\ {toStart', toStop', started', stopped'} \subseteq SUBSET Names
    BY <1>2, ReleaseInv
  <2> QED BY <1>1, <1>2, <1>4, <2>1 DEF TypeOK, PcValues
<1>6. LockInv'
  BY <1>1, <1>2, ReleaseInv DEF LockInv, MemoryMatchesStore
<1>7. pc[c] = "applying" /\ pc'[c] = "cancelled" /\ \A d \in Calls : d # c => pc'[d] = pc[d]
  BY <1>2, HolderFacts, ReleaseInv
<1>8. PlanInv'
  <2>1. NotYetLive'
    BY <1>1, <1>2, <1>7 DEF PlanInv, NotYetLive
  <2>2. LiveIsDefined' /\ RecordIsTrue'
    BY <1>1, <1>2 DEF PlanInv, LiveIsDefined, RecordIsTrue, Served
  <2> QED BY <1>2, <2>1, <2>2, ReleaseInv DEF PlanInv
<1>9. StoppedIsStopped'
  BY <1>2 DEF Release, StoppedIsStopped
<1>10. StrayIsKnown'
  <2> SUFFICES ASSUME NEW n \in Names, NEW d \in Creators, d # c,
                      transports'[<<n, d>>] \in MayRun, live[n] # d
               PROVE  <<n, d>> \in relaunched \/ Lost(n, d)'
    BY <1>2, <1>7 DEF StrayIsKnown, Lost
  <2>1. transports'[<<n, d>>] = transports[<<n, d>>]
    BY <1>4
  <2>2. <<n, d>> \in relaunched \/ Lost(n, d)
    BY <1>1, <1>2, <2>1 DEF TransportInv, StrayIsKnown
  <2> QED BY <1>2, <1>7, <2>1, <2>2 DEF Lost
<1>11. PipelineInv'
  BY <1>7 DEF PipelineInv
<1> QED BY <1>5, <1>6, <1>8, <1>9, <1>10, <1>11 DEF ConfigInv, TransportInv

(***************************************************************************)
(* The restart beside it.                                                  *)
(***************************************************************************)
LEMMA RestartKeeps ==
  ASSUME ConfigInv,
         UNCHANGED <<raw, config, policy, stored, pipeline, pipelines, live, configured, lock, pc,
                     candidate, backup, phase, toStart, toStop, started, stopped>>
  PROVE  LockInv' /\ PlanInv' /\ PipelineInv'
<1>1. LockInv /\ PlanInv /\ PipelineInv
  BY DEF ConfigInv
<1>2. LockInv'
  BY <1>1 DEF LockInv, OneHolder, BackupIsCurrent, MemoryMatchesStore
<1>3. NotYetLive' /\ LiveIsDefined' /\ RecordIsTrue'
  BY <1>1 DEF PlanInv, NotYetLive, LiveIsDefined, RecordIsTrue, Served
<1>4. NothingPlanned' /\ DiffIsExact'
  BY <1>1 DEF PlanInv, NothingPlanned, DiffIsExact
<1>5. PipelineInv'
  BY <1>1 DEF PipelineInv
<1> QED BY <1>2, <1>3, <1>4, <1>5 DEF PlanInv

LEMMA RestartStopsInv ==
  ASSUME ConfigInv, NEW n \in Names, NEW raises \in BOOLEAN, RestartStops(n, raises)
  PROVE  ConfigInv'
<1>1. TypeOK /\ TransportInv
  BY DEF ConfigInv
<1>2. /\ live[n] # NoCall
      /\ \E r \in {"stopped", "unstopped"} :
           /\ transports' = [transports EXCEPT ![<<n, live[n]>>] = r]
           /\ r = "unstopped" => transports[<<n, live[n]>>] \in MayRun
      /\ restarting' \in {NoTransport, <<n, live[n]>>}
      /\ UNCHANGED <<raw, config, policy, stored, pipeline, pipelines, live, configured, lock, pc,
                     candidate, backup, phase, toStart, toStop, started, stopped, relaunched>>
  BY DEF RestartStops, Stop, memory, telemetry, manager, diff
<1>3. <<n, live[n]>> \in Transports
  BY <1>1, <1>2, Constants DEF TypeOK
<1>4. TypeOK'
  BY <1>1, <1>2, <1>3 DEF TypeOK
<1>5. \A m \in Names, d \in Creators :
        /\ transports'[<<m, d>>] \in MayRun => transports[<<m, d>>] \in MayRun
        /\ live[m] # d => transports'[<<m, d>>] = transports[<<m, d>>]
  <2> SUFFICES ASSUME NEW m \in Names, NEW d \in Creators
               PROVE  /\ transports'[<<m, d>>] \in MayRun => transports[<<m, d>>] \in MayRun
                      /\ live[m] # d => transports'[<<m, d>>] = transports[<<m, d>>]
    OBVIOUS
  <2>1. <<m, d>> \in Transports /\ DOMAIN transports = Transports
    BY <1>1, Constants DEF TypeOK
  <2>2. CASE <<m, d>> = <<n, live[n]>>
    BY <1>2, <2>1, <2>2 DEF MayRun
  <2>3. CASE <<m, d>> # <<n, live[n]>>
    BY <1>2, <2>1, <2>3
  <2> QED BY <2>2, <2>3
<1>6. \A m \in stopped :
        /\ m \in Names /\ live[m] \in Creators
        /\ phase = "upstreams" /\ transports[<<m, live[m]>>] \in MayRun
             => <<m, live[m]>> \in relaunched
  BY <1>1 DEF TypeOK, TransportInv, StoppedIsStopped
<1>7. StoppedIsStopped'
  BY <1>2, <1>5, <1>6 DEF StoppedIsStopped
<1>8. StrayIsKnown'
  <2> SUFFICES ASSUME NEW m \in Names, NEW d \in Creators, transports'[<<m, d>>] \in MayRun,
                      live[m] # d
               PROVE  <<m, d>> \in relaunched' \/ (d = lock /\ m \in started') \/ Lost(m, d)'
    BY <1>2 DEF StrayIsKnown
  <2>1. transports'[<<m, d>>] = transports[<<m, d>>]
    BY <1>5
  <2>2. transports[<<m, d>>] \in MayRun =>
          <<m, d>> \in relaunched \/ (d = lock /\ m \in started) \/ Lost(m, d)
    BY <1>1 DEF TransportInv, StrayIsKnown
  <2> QED BY <1>2, <2>1, <2>2 DEF Lost
<1> QED BY <1>2, <1>4, <1>7, <1>8, RestartKeeps DEF ConfigInv, TransportInv

LEMMA RestartStartsInv ==
  ASSUME ConfigInv, NEW succeeds \in BOOLEAN, RestartStarts(succeeds)
  PROVE  ConfigInv'
<1>1. TypeOK /\ TransportInv
  BY DEF ConfigInv
<1>2. /\ restarting # NoTransport /\ restarting' = NoTransport
      /\ \/ /\ transports' = [transports EXCEPT ![restarting] = "running"]
            /\ relaunched' = relaunched \cup {restarting}
         \/ UNCHANGED <<transports, relaunched>>
      /\ UNCHANGED <<raw, config, policy, stored, pipeline, pipelines, live, configured, lock, pc,
                     candidate, backup, phase, toStart, toStop, started, stopped>>
  BY DEF RestartStarts, memory, telemetry, manager, diff
<1>3. restarting \in Transports
  BY <1>1, <1>2 DEF TypeOK
<1>4. TypeOK'
  BY <1>1, <1>2, <1>3 DEF TypeOK
<1>5. \A m \in Names, d \in Creators :
        /\ <<m, d>> \in relaunched => <<m, d>> \in relaunched'
        /\ transports'[<<m, d>>] = transports[<<m, d>>] \/ <<m, d>> \in relaunched'
  BY <1>1, <1>2, <1>3, Constants DEF TypeOK
<1>6. \A m \in stopped :
        /\ m \in Names /\ live[m] \in Creators
        /\ phase = "upstreams" /\ transports[<<m, live[m]>>] \in MayRun
             => <<m, live[m]>> \in relaunched
  BY <1>1 DEF TypeOK, TransportInv, StoppedIsStopped
<1>7. StoppedIsStopped'
  BY <1>2, <1>5, <1>6 DEF StoppedIsStopped
<1>8. StrayIsKnown'
  BY <1>1, <1>2, <1>5 DEF TransportInv, StrayIsKnown, Lost
<1> QED BY <1>2, <1>4, <1>7, <1>8, RestartKeeps DEF ConfigInv, TransportInv

(***************************************************************************)
(* The invariant.                                                          *)
(***************************************************************************)
LEMMA InitInv ==
  ASSUME Init
  PROVE  ConfigInv
<1>1. /\ config \in Configs /\ raw = config /\ policy = config /\ stored = config
      /\ pipeline = Boot
      /\ pipelines = [c \in Creators |-> IF c = Boot THEN "running" ELSE "none"]
      /\ configured = config.upstreams
      /\ live = [n \in Names |-> IF configured[n] = Absent THEN NoCall ELSE Boot]
      /\ transports = [t \in Transports |-> IF live[t[1]] = t[2] THEN "running" ELSE "none"]
      /\ lock = NoCall /\ pc = [c \in Calls |-> "new"]
      /\ candidate = [c \in Creators |-> config]
      /\ backup = NoBackup /\ phase = "idle"
      /\ toStart = {} /\ toStop = {} /\ started = {} /\ stopped = {}
      /\ restarting = NoTransport /\ relaunched = {}
  BY ConfigAssumption DEF Init
<1>2. TypeOK
  BY <1>1, Constants DEF TypeOK
<1>3. LockInv
  BY <1>1, Constants DEF LockInv, OneHolder, BackupIsCurrent, MemoryMatchesStore
<1>4. PlanInv
  <2>1. NotYetLive
    BY <1>1, ConfigAssumption DEF NotYetLive
  <2>2. LiveIsDefined /\ RecordIsTrue
    BY <1>1, Constants DEF LiveIsDefined, RecordIsTrue, Served
  <2>3. NothingPlanned /\ DiffIsExact
    BY <1>1 DEF NothingPlanned, DiffIsExact
  <2> QED BY <2>1, <2>2, <2>3 DEF PlanInv
<1>5. TransportInv
  BY <1>1, Constants DEF TransportInv, StoppedIsStopped, StrayIsKnown, MayRun
<1>6. PipelineInv
  BY <1>1 DEF PipelineInv
<1> QED BY <1>2, <1>3, <1>4, <1>5, <1>6 DEF ConfigInv

LEMMA HolderStepInv ==
  ASSUME ConfigInv, NEW c \in Calls, HolderStep(c)
  PROVE  ConfigInv'
BY StopTelemetryInv, StartTelemetryInv, TelemetryFailsInv, PlanDiffInv, StartNewInv,
   StartNewFailsInv, UndoStopInv, ApplyInv, PersistFailsInv, UndoneInv
   DEF HolderStep

LEMMA StopStepInv ==
  ASSUME ConfigInv, NEW c \in Calls, StopStep(c)
  PROVE  ConfigInv'
BY StopOldInv, UndoStartInv DEF StopStep

LEMMA StutterInv ==
  ASSUME ConfigInv, UNCHANGED vars
  PROVE  ConfigInv'
<1>1. TypeOK /\ TransportInv
  BY DEF ConfigInv
<1>2. UNCHANGED <<raw, config, policy, stored, pipeline, pipelines, live, configured, transports,
                  lock, pc, candidate, backup, phase, toStart, toStop, started, stopped,
                  restarting, relaunched>>
  BY DEF vars, memory, telemetry, manager, diff, restart
<1>3. TypeOK'
  BY <1>1, <1>2 DEF TypeOK
<1>4. TransportInv'
  BY <1>1, <1>2 DEF TransportInv, StoppedIsStopped, StrayIsKnown, Lost
<1> QED BY <1>2, <1>3, <1>4, RestartKeeps DEF ConfigInv

LEMMA NextInv ==
  ASSUME ConfigInv, [Next]_vars
  PROVE  ConfigInv'
<1>1. CASE UNCHANGED vars
  BY <1>1, StutterInv
<1>2. ASSUME NEW c \in Calls, Refuse(c)
      PROVE  ConfigInv'
  BY <1>2, RefuseInv
<1>3. ASSUME NEW c \in Calls, NEW k \in Configs, Submit(c, k) \/ Queue(c, k)
      PROVE  ConfigInv'
  BY <1>3, SubmitInv, QueueInv
<1>4. ASSUME NEW c \in Calls,
             LockGranted(c) \/ HolderStep(c) \/ StopStep(c) \/ CancelQueued(c) \/ CancelApply(c)
      PROVE  ConfigInv'
  BY <1>4, LockGrantedInv, HolderStepInv, StopStepInv, CancelQueuedInv, CancelApplyInv
<1>5. ASSUME NEW n \in Names, NEW raises \in BOOLEAN, RestartStops(n, raises)
      PROVE  ConfigInv'
  BY <1>5, RestartStopsInv
<1>6. ASSUME NEW succeeds \in BOOLEAN, RestartStarts(succeeds)
      PROVE  ConfigInv'
  BY <1>6, RestartStartsInv
<1> QED BY <1>1, <1>2, <1>3, <1>4, <1>5, <1>6 DEF Next

\* The lock, the backup, the difference in hand and what runs fit together in
\* every state of every execution.
THEOREM Invariance == Spec => []ConfigInv
BY InitInv, NextInv, PTL DEF Spec

\* Every variable keeps its type.
THEOREM TypeCorrect == Spec => []TypeOK
<1>1. ConfigInv => TypeOK
  BY DEF ConfigInv
<1> QED BY <1>1, Invariance, PTL

\* Memory, the policies and the database hold one configuration, whichever
\* step of whichever apply raised.
THEOREM NeverTornApart == Spec => []MemoryMatchesStore
<1>1. ConfigInv => MemoryMatchesStore
  BY DEF ConfigInv, LockInv
<1> QED BY <1>1, Invariance, PTL

\* The record the next difference is taken from is true of the transports that
\* serve, also after a rollback that left them behind.
THEOREM RecordHolds == Spec => []RecordIsTrue
<1>1. ConfigInv => RecordIsTrue
  BY DEF ConfigInv, PlanInv
<1> QED BY <1>1, Invariance, PTL

\* Between applies no transport runs that nothing uses, but what a restart()
\* started again or a call built and could not take back, and no telemetry
\* pipeline, as long as no apply was rolled back or cancelled.
THEOREM NothingIsLeft == Spec => []NothingLeftRunning
<1>1. ConfigInv => NoStrayTransport
  <2> SUFFICES ASSUME ConfigInv, phase = "idle", NEW t \in Transports,
                      transports[t] \in MayRun, live[t[1]] # t[2]
               PROVE  t \in relaunched \/ NotTakenBack(t)
    BY DEF NoStrayTransport
  <2>1. started = {}
    BY DEF ConfigInv, PlanInv, NothingPlanned
  <2>2. t[1] \in Names /\ t[2] \in Creators /\ t = <<t[1], t[2]>>
    BY DEF Transports
  <2>3. t \in relaunched \/ Lost(t[1], t[2])
    BY <2>1, <2>2 DEF ConfigInv, TransportInv, StrayIsKnown
  <2> QED BY <2>2, <2>3 DEF Lost, NotTakenBack
<1>2. ConfigInv => OnePipeline
  BY DEF ConfigInv, TypeOK, PipelineInv, OnePipeline
<1> QED BY <1>1, <1>2, Invariance, PTL DEF NothingLeftRunning

\* The step that reports success is the commit, and by DiffIsExact nothing but
\* the candidate serves after it.
THEOREM SuccessIsReal == Spec => AppliedTakesEffect
<1>1. ASSUME ConfigInv, [Next]_vars, NEW c \in Calls, pc[c] # "applied", pc'[c] = "applied",
             NEW n \in Names
      PROVE  Served(n)' = candidate[c].upstreams[n]
  <2>1. pc \in [Calls -> PcValues]
    BY <1>1 DEF ConfigInv, TypeOK, PcValues
  <2>2. pc' # pc
    BY <1>1
  <2>3. PICK d \in Calls :
          \/ Refuse(d) \/ LockGranted(d) \/ TelemetryFails(d) \/ Apply(d) \/ PersistFails(d)
          \/ Undone(d) \/ CancelQueued(d) \/ CancelApply(d)
          \/ \E k \in Configs : Submit(d, k) \/ Queue(d, k)
    BY <1>1, <2>2 DEF Next, HolderStep, StopStep, StopTelemetry, StartTelemetry, PlanDiff, StartNew,
                      StartNewFails, StopOld, UndoStart, UndoStop, RestartStops, RestartStarts,
                      vars
  <2>4. CASE Apply(d)
    <3>1. d = c
      BY <1>1, <2>1, <2>4 DEF Apply, Release
    <3> QED BY <1>1, <2>4, <3>1, ServedIsCandidate DEF Apply
  <2>5. CASE ~Apply(d)
    <3>1. \E state \in {"refused", "applying", "queued", "rolled back", "cancelled"} :
            pc' = [pc EXCEPT ![d] = state]
      BY <2>3, <2>5 DEF Refuse, LockGranted, TakeLock, TelemetryFails, PersistFails, Undone,
                        RollBack, Release, Submit, Queue, CancelQueued, CancelApply
    <3> QED BY <1>1, <2>1, <3>1
  <2> QED BY <2>4, <2>5
<1>2. ConfigInv /\ [Next]_vars =>
        [\A c \in Calls :
           pc[c] # "applied" /\ pc'[c] = "applied" =>
             \A n \in Names : Served(n)' = candidate[c].upstreams[n]]_vars
  BY <1>1
<1> QED BY <1>2, Invariance, PTL DEF Spec, AppliedTakesEffect

(***************************************************************************)
(* apply() keeps the contract of ConfigSwitch.                             *)
(***************************************************************************)
\* What the contract shows depends on four variables only.
LEMMA OutOfSight ==
  ASSUME InApply' = InApply, UNCHANGED <<config, live, candidate>>
  PROVE  UNCHANGED Switch!switchVars
<1>1. Asked' = Asked
  BY DEF Asked
<1>2. Serving' = Serving
  BY DEF Serving, Served
<1> QED BY <1>1, <1>2 DEF Switch!switchVars

\* A call that enters apply() has built nothing yet, so its candidate serves
\* nobody.
LEMMA EnteringAsks ==
  ASSUME ConfigInv, NEW c \in Calls, NEW k \in Configs, NEW p \in {"queued", "applying"},
         pc[c] = "new", pc' = [pc EXCEPT ![c] = p], candidate' = [candidate EXCEPT ![c] = k],
         UNCHANGED <<config, live>>
  PROVE  Switch!Ask(c, k)
<1>1. /\ pc \in [Calls -> PcValues]
      /\ candidate \in [Creators -> Configs] /\ live \in [Names -> Creators \cup {NoCall}]
  BY DEF ConfigInv, TypeOK, PcValues
<1>2. c \notin InApply /\ InApply' = InApply \cup {c}
  BY <1>1 DEF InApply
<1>3. \A d \in Creators : candidate'[d] = IF d = c THEN k ELSE candidate[d]
  BY <1>1
<1>4. Asked' = [d \in InApply \cup {c} |-> IF d = c THEN k ELSE Asked[d]]
  <2>1. Asked' = [d \in InApply \cup {c} |-> candidate'[d]]
    BY <1>2 DEF Asked
  <2>2. \A d \in InApply \cup {c} : candidate'[d] = IF d = c THEN k ELSE Asked[d]
    BY <1>3, Constants DEF Asked, InApply
  <2> QED BY <2>1, <2>2
<1>5. Serving' = Serving
  <2>1. ASSUME NEW n \in Names
        PROVE  Served(n)' = Served(n)
    <3>1. live[n] # c /\ live'[n] = live[n] /\ live[n] \in Creators \cup {NoCall}
      BY <1>1 DEF ConfigInv, PlanInv, NotYetLive
    <3> QED BY <1>3, <3>1 DEF Served
  <2> QED BY <2>1 DEF Serving
<1>6. DOMAIN Asked = InApply
  BY DEF Asked
<1> QED BY <1>2, <1>4, <1>5, <1>6 DEF Switch!Ask, Switch!InProgress

\* A call that gives back the lock ends, and asked for its candidate.
LEMMA ReleasingEnds ==
  ASSUME ConfigInv, NEW c \in Calls, lock = c, NEW result \in {"applied", "rolled back"},
         Release(c, result), candidate' = candidate
  PROVE  Switch!End(c) /\ Asked[c] = candidate[c]
<1>1. pc[c] = "applying" /\ pc'[c] = result /\ \A d \in Calls : d # c => pc'[d] = pc[d]
  BY HolderFacts, ReleaseInv
<1>2. c \in InApply /\ InApply' = InApply \ {c}
  BY <1>1 DEF InApply
<1>3. Asked' = [d \in InApply \ {c} |-> Asked[d]]
  BY <1>2 DEF Asked
<1>4. DOMAIN Asked = InApply /\ Asked[c] = candidate[c]
  BY <1>2 DEF Asked
<1> QED BY <1>2, <1>3, <1>4 DEF Switch!End, Switch!InProgress

\* The commit puts the upstreams of the candidate in service, whatever comes of
\* the write to the database.
LEMMA CommitServes ==
  ASSUME ConfigInv, NEW c \in Calls, CommitUpstreams(c)
  PROVE  Serving' = candidate[c].upstreams
<1>1. candidate[c].upstreams \in [Names -> Settings \cup {Absent}]
  BY Constants DEF ConfigInv, TypeOK
<1>2. Serving' = [n \in Names |-> candidate[c].upstreams[n]]
  BY ServedIsCandidate DEF Serving
<1> QED BY <1>1, <1>2

\* A rollback without a commit leaves those in service that were.
LEMMA RollBackFails ==
  ASSUME ConfigInv, NEW c \in Calls, lock = c, RollBack(c), UNCHANGED <<live, candidate>>
  PROVE  Switch!Fail(c)
<1>1. Release(c, "rolled back") /\ config' = backup.config
  BY DEF RollBack, Restore
<1>2. config' = config
  BY <1>1, HolderFacts
<1>3. Serving' = Serving
  BY DEF Serving, Served
<1>4. Switch!End(c)
  BY <1>1, ReleasingEnds
<1> QED BY <1>2, <1>3, <1>4 DEF Switch!Fail

\* So does the end of a call that is cancelled, in the queue or at work.
LEMMA CancelFails ==
  ASSUME ConfigInv, NEW c \in Calls, CancelQueued(c) \/ CancelApply(c)
  PROVE  Switch!Fail(c)
<1>1. pc \in [Calls -> PcValues]
  BY DEF ConfigInv, TypeOK, PcValues
<1>2. /\ pc[c] \in {"queued", "applying"} /\ pc' = [pc EXCEPT ![c] = "cancelled"]
      /\ UNCHANGED <<config, live, candidate>>
  BY HolderFacts DEF CancelQueued, CancelApply, Release, memory, manager
<1>3. c \in InApply /\ InApply' = InApply \ {c}
  BY <1>1, <1>2 DEF InApply
<1>4. DOMAIN Asked = InApply /\ Asked' = [d \in InApply \ {c} |-> Asked[d]]
  BY <1>2, <1>3 DEF Asked
<1>5. Serving' = Serving
  BY <1>2 DEF Serving, Served
<1> QED BY <1>2, <1>3, <1>4, <1>5 DEF Switch!Fail, Switch!End, Switch!InProgress

LEMMA SwitchInitially ==
  ASSUME Init
  PROVE  Switch!SwitchInit
<1>1. ConfigInv /\ configured = config.upstreams /\ InApply = {}
  BY InitInv DEF Init, InApply
<1>2. config \in Configs
  BY <1>1 DEF ConfigInv, TypeOK
<1>3. Serving = config.upstreams
  BY <1>1, <1>2, Constants DEF ConfigInv, PlanInv, RecordIsTrue, Serving
<1>4. DOMAIN Asked = {}
  BY <1>1 DEF Asked
<1> QED BY <1>2, <1>3, <1>4 DEF Switch!SwitchInit, Switch!InProgress

LEMMA HolderStepSwitches ==
  ASSUME ConfigInv, NEW c \in Calls, HolderStep(c)
  PROVE  Switch!Succeed(c) \/ Switch!Fail(c) \/ UNCHANGED Switch!switchVars
<1>1. CASE Apply(c)
  <2>1. /\ CommitUpstreams(c) /\ Release(c, "applied") /\ lock = c
        /\ candidate' = candidate /\ config' = candidate[c]
    BY <1>1 DEF Apply, CommitUpstreams
  <2> QED BY <2>1, ReleasingEnds, CommitServes DEF Switch!Succeed
<1>2. CASE PersistFails(c)
  <2>1. /\ CommitUpstreams(c) /\ Release(c, "rolled back") /\ lock = c
        /\ candidate' = candidate /\ config' = backup.config
    BY <1>2 DEF PersistFails, CommitUpstreams, RollBack, Restore
  <2>2. config' = config
    BY <2>1, HolderFacts
  <2> QED BY <2>1, <2>2, ReleasingEnds, CommitServes DEF Switch!Fail
<1>3. CASE TelemetryFails(c) \/ Undone(c)
  BY <1>3, RollBackFails DEF TelemetryFails, Undone, manager
<1>4. CASE \/ StopTelemetry(c) \/ StartTelemetry(c) \/ PlanDiff(c) \/ StartNewFails(c)
           \/ \E n \in Names : StartNew(c, n) \/ \E b \in BOOLEAN : UndoStop(c, n, b)
  <2>1. UNCHANGED <<config, live, candidate, pc>>
    BY <1>4 DEF StopTelemetry, StartTelemetry, PlanDiff, StartNewFails, StartNew, UndoStop,
                memory, manager
  <2> QED BY <2>1, OutOfSight DEF InApply
<1> QED BY <1>1, <1>2, <1>3, <1>4 DEF HolderStep

\* Every step is a step of the contract or cannot be told by it.
LEMMA SwitchStep ==
  ASSUME ConfigInv, [Next]_vars
  PROVE  [Switch!SwitchNext]_(Switch!switchVars)
<1>1. CASE UNCHANGED vars
  BY <1>1, OutOfSight DEF vars, memory, manager, InApply
<1>2. ASSUME NEW c \in Calls, Refuse(c) \/ LockGranted(c)
      PROVE  UNCHANGED Switch!switchVars
  <2>1. UNCHANGED <<config, live, candidate>>
    BY <1>2 DEF Refuse, LockGranted, TakeLock, memory, manager
  <2>2. pc \in [Calls -> PcValues]
    BY DEF ConfigInv, TypeOK, PcValues
  <2>3. InApply' = InApply
    BY <1>2, <2>2 DEF Refuse, LockGranted, TakeLock, InApply
  <2> QED BY <2>1, <2>3, OutOfSight
<1>3. ASSUME NEW c \in Calls, NEW k \in Configs, Submit(c, k) \/ Queue(c, k)
      PROVE  Switch!Ask(c, k)
  <2>1. /\ pc[c] = "new" /\ candidate' = [candidate EXCEPT ![c] = k]
        /\ UNCHANGED <<config, live>>
        /\ \E p \in {"queued", "applying"} : pc' = [pc EXCEPT ![c] = p]
    BY <1>3 DEF Submit, Queue, TakeLock, memory, manager
  <2> QED BY <2>1, EnteringAsks
<1>4. ASSUME NEW c \in Calls, HolderStep(c)
      PROVE  Switch!Succeed(c) \/ Switch!Fail(c) \/ UNCHANGED Switch!switchVars
  BY <1>4, HolderStepSwitches
<1>5. CASE \/ \E n \in Names, raises \in BOOLEAN : RestartStops(n, raises)
           \/ \E succeeds \in BOOLEAN : RestartStarts(succeeds)
           \/ \E c \in Calls : StopStep(c)
  BY <1>5, OutOfSight
     DEF RestartStops, RestartStarts, StopStep, StopOld, UndoStart, memory, manager, InApply
<1>6. ASSUME NEW c \in Calls, CancelQueued(c) \/ CancelApply(c)
      PROVE  Switch!Fail(c)
  BY <1>6, CancelFails
<1> QED BY <1>1, <1>2, <1>3, <1>4, <1>5, <1>6 DEF Next, Switch!SwitchNext

\* However applies queue, fail half way, are rolled back or cancelled, and whatever
\* restarts run beside them, those who call apply() and those who read the
\* configuration see it go from one to the next at one moment.
THEOREM ApplyIsAtomic == Spec => ImplementsSwitch
<1>1. ConfigInv /\ [Next]_vars => [Switch!SwitchNext]_(Switch!switchVars)
  BY SwitchStep
<1>2. Init => Switch!SwitchInit
  BY SwitchInitially
<1> QED BY <1>1, <1>2, Invariance, PTL DEF Spec, ImplementsSwitch, Switch!SwitchSpec
===============================================================================
