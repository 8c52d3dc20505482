---------------------------- MODULE RuntimeConfig ----------------------------
(***************************************************************************)
(* RuntimeConfigManager.apply and UpstreamManager.apply_diff: a candidate  *)
(* configuration is brought into force under one lock, in the order        *)
(* telemetry, new transports, old transports, memory, policies, store, and *)
(* rolled back when a step raises.  A call may be cancelled at any await   *)
(* (the admin interface runs it under a timeout), and then nothing is      *)
(* rolled back.  UpstreamManager.restart runs beside it without the lock.  *)
(* An action is the code between two awaits.                               *)
(*                                                                         *)
(* A configuration is its upstreams and its telemetry section; every other *)
(* section follows the same path as raw_config.  A call applies once, so   *)
(* the transport it builds for upstream n is <<n, c>> and its telemetry    *)
(* pipeline is c; those of the start-up are Boot's.  Calls that register   *)
(* or remove an upstream, or set the policies, compute the candidate from  *)
(* raw_config before they wait for the lock: any candidate may arrive.     *)
(***************************************************************************)
EXTENDS FiniteSets

CONSTANTS
  Names, Settings, Telemetries,
  Configs,  \* the configurations that calls apply
  Initial,  \* those the server starts with
  Calls, Boot, NoCall, Absent

ASSUME ConfigAssumption ==
  /\ IsFiniteSet(Names)
  /\ Boot \notin Calls
  /\ NoCall \notin Calls \cup {Boot}
  /\ Absent \notin Settings
  /\ Configs \subseteq [upstreams : [Names -> Settings \cup {Absent}], telemetry : Telemetries]
  /\ Initial \subseteq Configs

Creators == Calls \cup {Boot}
Transports == Names \X Creators
NoTransport == <<>>
NoBackup == <<>>

VARIABLES
  raw, config,   \* RuntimeConfigManager.raw_config, .config
  policy,        \* the configuration the policy engine follows
  stored,        \* the active configuration in the database
  pipeline,      \* RuntimeConfigManager.telemetry: which pipeline it is
  pipelines,     \* pipelines[c]: "none", "running" or "stopped"
  live,          \* UpstreamManager._upstreams: who built the transport of n
  configured,    \* UpstreamManager._config_upstreams
  transports,    \* transports[<<n, c>>]: "none", "running", "stopped", or "unstopped":
                 \* its stop() raised or was cancelled, and it may run on
  lock,          \* holder of RuntimeConfigManager._lock
  pc,            \* pc[c]: where call c of apply() is
  candidate,     \* candidate[c]: the configuration call c applies
  backup,        \* backup_raw, backup_config and backup_telemetry of the holder
  phase,         \* how far the holder is
  toStart, toStop, started, stopped,  \* apply_diff: to_add + to_restart,
                 \* to_remove + to_restart, started_new, stopped_previous
  restarting,    \* the transport between the stop and the start of a restart
  relaunched     \* the transports a restart has started

memory == <<raw, config, policy, stored>>
telemetry == <<pipeline, pipelines>>
manager == <<live, configured>>
diff == <<toStart, toStop, started, stopped>>
restart == <<restarting, relaunched>>
vars == <<memory, telemetry, manager, transports, lock, pc, candidate, backup,
          phase, diff, restart>>

Init ==
  /\ config \in Initial
  /\ raw = config /\ policy = config /\ stored = config
  /\ pipeline = Boot
  /\ pipelines = [c \in Creators |-> IF c = Boot THEN "running" ELSE "none"]
  /\ configured = config.upstreams
  /\ live = [n \in Names |-> IF configured[n] = Absent THEN NoCall ELSE Boot]
  /\ transports = [t \in Transports |-> IF live[t[1]] = t[2] THEN "running" ELSE "none"]
  /\ lock = NoCall
  /\ pc = [c \in Calls |-> "new"]
  /\ candidate = [c \in Creators |-> config]
  /\ backup = NoBackup
  /\ phase = "idle"
  /\ toStart = {} /\ toStop = {} /\ started = {} /\ stopped = {}
  /\ restarting = NoTransport
  /\ relaunched = {}

(***************************************************************************)
(* The checks before the lock, and the lock.                               *)
(***************************************************************************)
\* A missing secret, an invalid payload, a change of the tls section, a dry
\* run, or a registration that its service refuses.
Refuse(c) ==
  /\ pc[c] = "new"
  /\ pc' = [pc EXCEPT ![c] = "refused"]
  /\ UNCHANGED <<memory, telemetry, manager, transports, lock, candidate, backup,
                 phase, diff, restart>>

TakeLock(c) ==
  /\ lock' = c
  /\ pc' = [pc EXCEPT ![c] = "applying"]
  /\ backup' = [raw |-> raw, config |-> config, pipeline |-> pipeline]
  /\ phase' = "telemetry"
  /\ UNCHANGED <<memory, telemetry, manager, transports, diff, restart>>

LockIsFree == lock = NoCall /\ \A d \in Calls : pc[d] # "queued"

Submit(c, k) ==
  /\ pc[c] = "new"
  /\ LockIsFree
  /\ candidate' = [candidate EXCEPT ![c] = k]
  /\ TakeLock(c)

Queue(c, k) ==
  /\ pc[c] = "new"
  /\ ~LockIsFree
  /\ candidate' = [candidate EXCEPT ![c] = k]
  /\ pc' = [pc EXCEPT ![c] = "queued"]
  /\ UNCHANGED <<memory, telemetry, manager, transports, lock, backup, phase, diff, restart>>

LockGranted(c) ==
  /\ pc[c] = "queued"
  /\ lock = NoCall
  /\ TakeLock(c)
  /\ UNCHANGED candidate

Release(c, result) ==
  /\ lock' = NoCall
  /\ phase' = "idle"
  /\ pc' = [pc EXCEPT ![c] = result]
  /\ toStart' = {} /\ toStop' = {} /\ started' = {} /\ stopped' = {}
  /\ backup' = NoBackup

\* The except clause: memory, policies and the pipeline go back; neither the
\* upstreams nor a pipeline that was stopped do.
Restore ==
  /\ raw' = backup.raw
  /\ config' = backup.config
  /\ policy' = backup.config
  /\ pipeline' = backup.pipeline

RollBack(c) ==
  /\ Restore
  /\ Release(c, "rolled back")

(***************************************************************************)
(* _apply_telemetry_if_needed.                                             *)
(***************************************************************************)
StopTelemetry(c) ==
  /\ lock = c /\ phase = "telemetry"
  /\ config.telemetry # candidate[c].telemetry
  /\ pipelines' = [pipelines EXCEPT ![pipeline] = "stopped"]
  /\ phase' = "new telemetry"
  /\ UNCHANGED <<memory, pipeline, manager, transports, lock, pc, candidate, backup,
                 diff, restart>>

StartTelemetry(c) ==
  /\ lock = c /\ phase = "new telemetry"
  /\ pipelines' = [pipelines EXCEPT ![c] = "running"]
  /\ pipeline' = c
  /\ phase' = "plan"
  /\ UNCHANGED <<memory, manager, transports, lock, pc, candidate, backup, diff, restart>>

\* stop() of the old pipeline raises, the sink is of an unknown type, or the
\* constructor or start() of the new one raises.
TelemetryFails(c) ==
  /\ lock = c /\ phase = "new telemetry"
  /\ RollBack(c)
  /\ UNCHANGED <<stored, pipelines, manager, transports, candidate, restart>>

(***************************************************************************)
(* UpstreamManager.apply_diff.                                             *)
(***************************************************************************)
Changed(old, new) == {n \in Names : new[n] # old[n]}

\* Seeded fault: the difference is taken from the configuration in force, not
\* from the one the manager runs.
PlanAgainstConfig(c) ==
  LET new == candidate[c].upstreams
      changed == Changed(config.upstreams, new) IN
  /\ lock = c
  /\ phase = "plan" \/ (phase = "telemetry" /\ config.telemetry = candidate[c].telemetry)
  /\ toStart' = {n \in changed : new[n] # Absent}
  /\ toStop' = {n \in changed : configured[n] # Absent}
  /\ phase' = "upstreams"
  /\ UNCHANGED <<memory, telemetry, manager, transports, lock, pc, candidate, backup,
                 started, stopped, restart>>

PlanDiff(c) ==
  LET new == candidate[c].upstreams
      changed == Changed(configured, new) IN
  /\ lock = c
  /\ phase = "plan" \/ (phase = "telemetry" /\ config.telemetry = candidate[c].telemetry)
  /\ toStart' = {n \in changed : new[n] # Absent}
  /\ toStop' = {n \in changed : configured[n] # Absent}
  /\ phase' = "upstreams"
  /\ UNCHANGED <<memory, telemetry, manager, transports, lock, pc, candidate, backup,
                 started, stopped, restart>>

StartNew(c, n) ==
  /\ lock = c /\ phase = "upstreams"
  /\ n \in toStart
  /\ transports' = [transports EXCEPT ![<<n, c>>] = "running"]
  /\ toStart' = toStart \ {n}
  /\ started' = started \cup {n}
  /\ UNCHANGED <<memory, telemetry, manager, lock, pc, candidate, backup, phase,
                 toStop, stopped, restart>>

StartNewFails(c) ==
  /\ lock = c /\ phase = "upstreams"
  /\ toStart # {}
  /\ phase' = "undo"
  /\ UNCHANGED <<memory, telemetry, manager, transports, lock, pc, candidate, backup,
                 diff, restart>>

MayRun == {"running", "unstopped"}

\* stop() of a transport returns or breaks off; one that was stopped before
\* has nothing left that could raise.
Stop(t, breaksOff) ==
  transports' = [transports EXCEPT ![t] = IF breaksOff /\ @ \in MayRun THEN "unstopped"
                                          ELSE "stopped"]

\* stop() of the transport being replaced.  Where it raises, the whole
\* difference is undone.
StopOld(c, n, raises) ==
  /\ lock = c /\ phase = "upstreams"
  /\ toStart = {} /\ n \in toStop
  /\ Stop(<<n, live[n]>>, raises)
  /\ toStop' = toStop \ {n}
  /\ stopped' = stopped \cup {n}
  /\ phase' = IF raises THEN "undo" ELSE "upstreams"
  /\ UNCHANGED <<memory, telemetry, manager, lock, pc, candidate, backup,
                 toStart, started, restart>>

CommitUpstreams(c) ==
  /\ lock = c /\ phase = "upstreams"
  /\ toStart = {} /\ toStop = {}
  /\ live' = [n \in Names |-> IF n \in started THEN c
                              ELSE IF n \in stopped THEN NoCall ELSE live[n]]
  /\ configured' = candidate[c].upstreams
  /\ UNCHANGED <<pipelines, transports, candidate, restart>>

\* Nothing is awaited between the manager's commit and the return of apply().
Apply(c) ==
  /\ CommitUpstreams(c)
  /\ raw' = candidate[c]
  /\ config' = candidate[c]
  /\ policy' = candidate[c]
  /\ stored' = candidate[c]
  /\ Release(c, "applied")
  /\ UNCHANGED pipeline

\* Seeded fault: the configuration in memory is not put back.
PersistFailsKeepsConfig(c) ==
  /\ CommitUpstreams(c)
  /\ raw' = candidate[c]
  /\ config' = candidate[c]
  /\ policy' = candidate[c]
  /\ Release(c, "rolled back")
  /\ UNCHANGED <<stored, pipeline>>

PersistFails(c) ==
  /\ CommitUpstreams(c)
  /\ RollBack(c)
  /\ UNCHANGED stored

(***************************************************************************)
(* The rollback of apply_diff, and then of apply.                          *)
(***************************************************************************)
\* Seeded fault: the new transports are dropped and not stopped.
UndoStartForgets(c, n, raises) ==
  /\ lock = c /\ phase = "undo"
  /\ n \in started
  /\ started' = started \ {n}
  /\ UNCHANGED <<memory, telemetry, manager, transports, lock, pc, candidate, backup,
                 phase, toStart, toStop, stopped, restart>>

\* What stop() raises here is swallowed.
UndoStart(c, n, raises) ==
  /\ lock = c /\ phase = "undo"
  /\ n \in started
  /\ Stop(<<n, c>>, raises)
  /\ started' = started \ {n}
  /\ UNCHANGED <<memory, telemetry, manager, lock, pc, candidate, backup, phase,
                 toStart, toStop, stopped, restart>>

UndoStop(c, n, succeeds) ==
  /\ lock = c /\ phase = "undo"
  /\ started = {} /\ n \in stopped
  /\ transports' = IF succeeds THEN [transports EXCEPT ![<<n, live[n]>>] = "running"]
                   ELSE transports
  /\ stopped' = stopped \ {n}
  /\ UNCHANGED <<memory, telemetry, manager, lock, pc, candidate, backup, phase,
                 toStart, toStop, started, restart>>

\* Seeded fault: the lock stays with a call that failed.
UndoneKeepsLock(c) ==
  /\ lock = c /\ phase = "undo"
  /\ started = {} /\ stopped = {}
  /\ Restore
  /\ pc' = [pc EXCEPT ![c] = "rolled back"]
  /\ phase' = "idle"
  /\ UNCHANGED <<lock, diff, stored, pipelines, manager, transports, candidate, backup, restart>>

Undone(c) ==
  /\ lock = c /\ phase = "undo"
  /\ started = {} /\ stopped = {}
  /\ RollBack(c)
  /\ UNCHANGED <<stored, pipelines, manager, transports, candidate, restart>>

(***************************************************************************)
(* Cancellation.  CancelledError is no Exception: it passes both except    *)
(* clauses, and the call ends with the lock released and nothing undone.   *)
(***************************************************************************)
CancelQueued(c) ==
  /\ pc[c] = "queued"
  /\ pc' = [pc EXCEPT ![c] = "cancelled"]
  /\ UNCHANGED <<memory, telemetry, manager, transports, lock, candidate, backup,
                 phase, diff, restart>>

\* The await it is at: of a pipeline, of a start(), or of a stop().
CancelApply(c) ==
  /\ lock = c
  /\ \/ /\ \/ phase = "new telemetry"
           \/ phase = "upstreams" /\ toStart # {}
           \/ phase = "undo" /\ started = {} /\ stopped # {}
        /\ UNCHANGED transports
     \/ /\ phase = "upstreams" /\ toStart = {}
        /\ \E n \in toStop : Stop(<<n, live[n]>>, TRUE)
     \/ /\ phase = "undo"
        /\ \E n \in started : Stop(<<n, c>>, TRUE)
  /\ Release(c, "cancelled")
  /\ UNCHANGED <<memory, telemetry, manager, candidate, restart>>

(***************************************************************************)
(* UpstreamManager.restart, from the admin interface.                      *)
(***************************************************************************)
RestartStops(n, raises) ==
  /\ restarting = NoTransport
  /\ live[n] # NoCall
  /\ Stop(<<n, live[n]>>, raises)
  /\ restarting' = IF raises THEN NoTransport ELSE <<n, live[n]>>
  /\ UNCHANGED <<memory, telemetry, manager, lock, pc, candidate, backup, phase, diff,
                 relaunched>>

\* start() of the transport that was fetched before the stop, whatever an
\* apply() has made of it since.
RestartStarts(succeeds) ==
  /\ restarting # NoTransport
  /\ restarting' = NoTransport
  /\ transports' = IF succeeds THEN [transports EXCEPT ![restarting] = "running"]
                   ELSE transports
  /\ relaunched' = IF succeeds THEN relaunched \cup {restarting} ELSE relaunched
  /\ UNCHANGED <<memory, telemetry, manager, lock, pc, candidate, backup, phase, diff>>

\* The awaits of a stop(), which may last for ever: a transport waits without
\* a timeout for the pipe to its subprocess to drain (stdio.py:96-98).
StopStep(c) ==
  \E n \in Names, raises \in BOOLEAN : StopOld(c, n, raises) \/ UndoStart(c, n, raises)

HolderStep(c) ==
  \/ StopTelemetry(c) \/ StartTelemetry(c) \/ TelemetryFails(c)
  \/ PlanDiff(c)
  \/ StartNewFails(c)
  \/ \E n \in Names :
       StartNew(c, n) \/ \E succeeds \in BOOLEAN : UndoStop(c, n, succeeds)
  \/ Apply(c) \/ PersistFails(c) \/ Undone(c)

Next ==
  \/ \E c \in Calls :
       \/ Refuse(c)
       \/ \E k \in Configs : Submit(c, k) \/ Queue(c, k)
       \/ LockGranted(c)
       \/ HolderStep(c) \/ StopStep(c)
       \/ CancelQueued(c) \/ CancelApply(c)
  \/ \E n \in Names, raises \in BOOLEAN : RestartStops(n, raises)
  \/ \E succeeds \in BOOLEAN : RestartStarts(succeeds)

Spec == Init /\ [][Next]_vars

\* A pipeline and the start() of a transport return or raise, and the event
\* loop grants a lock that is free.  Nothing is assumed of a stop(), and nobody
\* need cancel a call.
FairSpec ==
  /\ Spec
  /\ \A c \in Calls : WF_vars(HolderStep(c)) /\ WF_vars(LockGranted(c))

(***************************************************************************)
(* Properties.                                                             *)
(***************************************************************************)
TypeOK ==
  /\ {raw, config, policy, stored} \subseteq Configs
  /\ pipeline \in Creators
  /\ pipelines \in [Creators -> {"none", "running", "stopped"}]
  /\ live \in [Names -> Creators \cup {NoCall}]
  /\ configured \in [Names -> Settings \cup {Absent}]
  /\ transports \in [Transports -> {"none", "running", "stopped", "unstopped"}]
  /\ lock \in Calls \cup {NoCall}
  /\ pc \in [Calls -> {"new", "queued", "applying", "applied", "rolled back", "refused",
                    "cancelled"}]
  /\ candidate \in [Creators -> Configs]
  /\ backup \in [raw : Configs, config : Configs, pipeline : Creators] \cup {NoBackup}
  /\ phase \in {"idle", "telemetry", "new telemetry", "plan", "upstreams", "undo"}
  /\ {toStart, toStop, started, stopped} \subseteq SUBSET Names
  /\ restarting \in Transports \cup {NoTransport}
  /\ relaunched \subseteq Transports

\* The configuration an operator reads back, the one the policies follow and
\* the one a restart of the server would load never differ, whichever step of
\* whichever apply failed.
MemoryMatchesStore == raw = config /\ policy = config /\ stored = config

\* The setting the transport that serves n was built from.
Served(n) == IF live[n] = NoCall THEN Absent ELSE candidate[live[n]].upstreams[n]

\* The manager's own record of its upstreams, against which the next apply
\* computes its difference, is true of the transports that serve.
RecordIsTrue == \A n \in Names : Served(n) = configured[n]

\* An apply that reports success has put every upstream of its candidate in
\* service and no other, also after an earlier apply was rolled back with the
\* manager's upstreams left behind.
AppliedTakesEffect ==
  [][\A c \in Calls :
       pc[c] # "applied" /\ pc'[c] = "applied" =>
         \A n \in Names : Served(n)' = candidate[c].upstreams[n]]_vars

\* apply() keeps the contract of ConfigSwitch: whatever it awaits, fails in or
\* queues behind, the configuration in force and the upstreams that serve change
\* at the one moment at which a call ends, and only to what that call asked for.
InApply == {c \in Calls : pc[c] \in {"queued", "applying"}}
Asked == [c \in InApply |-> candidate[c]]
Serving == [n \in Names |-> Served(n)]
Switch == INSTANCE ConfigSwitch WITH
  Callers <- Calls, current <- config, serving <- Serving, asked <- Asked
ImplementsSwitch == Switch!SwitchSpec

\* The call that built transport t was cancelled, or stop() raised in its rollback.
NotTakenBack(t) ==
  \E c \in Calls :
    t[2] = c /\ (pc[c] = "cancelled" \/ (pc[c] = "rolled back" /\ transports[t] = "unstopped"))

\* Between applies no transport runs that no request can reach, but those that a
\* call built and could not take back, and those that a restart() that overlapped
\* an apply started again.  One that was replaced is never left half stopped.
NoStrayTransport ==
  phase = "idle" =>
    \A t \in Transports :
      transports[t] \in MayRun /\ live[t[1]] # t[2] =>
        t \in relaunched \/ NotTakenBack(t)

\* As long as no apply was rolled back or cancelled, telemetry has one running
\* pipeline between applies, and it is the one the configuration manager emits to.
OnePipeline ==
  phase = "idle" /\ (\A c \in Calls : pc[c] \notin {"rolled back", "cancelled"}) =>
    {c \in Creators : pipelines[c] = "running"} = {pipeline}

\* Between applies nothing runs that the configuration in force does not use.
NothingLeftRunning == NoStrayTransport /\ OnePipeline

AtStop(c) ==
  /\ lock = c
  /\ \/ phase = "upstreams" /\ toStart = {} /\ toStop # {}
     \/ phase = "undo" /\ started # {}

\* Every apply ends, and with it the wait of those queued behind its lock; the
\* only await at which the lock can be held for ever is a stop() that hangs.
ApplyReturns ==
  \A c \in Calls :
    pc[c] \in {"queued", "applying"}
      ~> \/ pc[c] \in {"applied", "rolled back", "cancelled"}
         \/ [](\E d \in Calls : AtStop(d))

\* Between applies the manager runs the upstreams of the configuration in
\* force.  An apply whose write to the database fails breaks it.
RollbackRestoresUpstreams == phase = "idle" => configured = config.upstreams
==============================================================================
