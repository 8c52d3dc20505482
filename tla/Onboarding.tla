------------------------------ MODULE Onboarding -----------------------------
(***************************************************************************)
(* The first-run wizard of server.py, the hot swap of the database, and    *)
(* the start of the process that finds the database again.  Endpoints of   *)
(* the wizard and of the admin API check that they are allowed, await the  *)
(* body, compute a candidate configuration and wait for apply(); an action *)
(* is the code between two awaits.  apply() itself is RuntimeConfig: here  *)
(* calls pass it in the order of its lock, and each is applied or refused. *)
(*                                                                         *)
(* A configuration is who may administer, the upstreams and the policies.  *)
(* Names of upstreams and tokens, the dialects, and users other than the   *)
(* local administrator of the wizard are abstracted.  MCPXY_DB_URL is not  *)
(* set: bootstrap.json alone says which database a start opens.            *)
(***************************************************************************)
EXTENDS Sequences

CONSTANTS
  Databases, Default, NoDatabase,
  Upstreams, Policies, FirstPolicies,
  Calls, NoConfig

Identities == {"none", "token", "authy"}
Config == [identity : Identities, upstreams : SUBSET Upstreams, policies : Policies]

ASSUME OnboardingAssumption ==
  /\ Default \in Databases /\ NoDatabase \notin Databases
  /\ FirstPolicies \in Policies
  /\ NoConfig \notin Config

\* Operations that await their body; of the admin API, the one that merges
\* into state.raw_config.
WizardOps == {"set_admin_token", "set_authy_config", "add_upstream", "set_database"}
Ops == WizardOps \cup {"policies"}

VARIABLES
  databases,  \* databases[d]: its tables, as below
  bootstrap,  \* the database that bootstrap.json names
  running,
  config,     \* RuntimeConfigManager.raw_config; after a crash, the last one
  rebound,    \* state.raw_config where it is another object, else NoConfig
  store,      \* the database of state.config_store, the secrets and apply()
  authn,      \* the database of the AuthnManager
  pc,         \* where each call is
  op,         \* its endpoint
  candidate,  \* what it applies
  queue       \* the calls in apply(), in the order of its lock

process == <<running, config, rebound, store, authn>>
calls == <<pc, op, candidate, queue>>
vars == <<databases, bootstrap, process, calls>>

\* A database: the active configuration, whether the secrets it refers to are
\* there, the onboarding row with its token stamp, and whether the local
\* administrator is among the users.
Database ==
  [config : Config \cup {NoConfig}, secrets : BOOLEAN,
   row : {"none", "open", "expired", "completed"}, stamped : BOOLEAN, admin : BOOLEAN]

Empty == [config |-> NoConfig, secrets |-> FALSE, row |-> "none",
          stamped |-> FALSE, admin |-> FALSE]
DefaultConfig == [identity |-> "none", upstreams |-> {}, policies |-> FirstPolicies]
\* A database that another deployment has finished its wizard on.
Used == [config |-> [DefaultConfig EXCEPT !.identity = "authy"], secrets |-> TRUE,
         row |-> "completed", stamped |-> TRUE, admin |-> TRUE]

RestartDatabase == IF bootstrap = NoDatabase THEN Default ELSE bootstrap

Init ==
  /\ databases \in [Databases -> {Empty, Used}]
  /\ databases[Default] = Empty
  /\ bootstrap = NoDatabase
  /\ running = FALSE
  /\ config = NoConfig /\ rebound = NoConfig
  /\ store = Default /\ authn = Default
  /\ pc = [c \in Calls |-> "new"]
  /\ op = [c \in Calls |-> "policies"]
  /\ candidate = [c \in Calls |-> DefaultConfig]
  /\ queue = <<>>

(***************************************************************************)
(* The start and the end of the process.                                   *)
(***************************************************************************)
\* _bootstrap_config_payload, and ensure_onboarding_row where no
\* administration token resolves.
Opened(d) ==
  LET c == IF d.config = NoConfig THEN DefaultConfig ELSE d.config IN
  [d EXCEPT !.config = c,
            !.row = IF @ = "none" /\ c.identity # "token" THEN "open" ELSE @]

Start ==
  /\ ~running
  /\ running' = TRUE
  /\ databases' = [databases EXCEPT ![RestartDatabase] = Opened(@)]
  /\ config' = databases'[RestartDatabase].config
  /\ rebound' = NoConfig
  /\ store' = RestartDatabase /\ authn' = RestartDatabase
  /\ UNCHANGED <<bootstrap, calls>>

\* What calls in progress had done so far remains; they do not come back.
Stop ==
  /\ running' = FALSE
  /\ pc' = [c \in Calls |-> IF pc[c] = "new" THEN "new" ELSE "done"]
  /\ queue' = <<>>
  /\ UNCHANGED <<config, rebound, store, authn, op, candidate>>

Crash ==
  /\ running
  /\ Stop
  /\ UNCHANGED <<databases, bootstrap>>

(***************************************************************************)
(* What is checked before the body is awaited.                             *)
(***************************************************************************)
InForce == databases[store]

\* _require_onboarding_access.
Access == InForce.row = "open"

\* _onboarding_gate.  The request is the administrator's.
Required == InForce.row = "open" /\ ~InForce.stamped
Gate ==
  /\ ~Required
  /\ \/ config.identity = "token"
     \/ config.identity = "authy" /\ InForce.admin

Begin(c, o) ==
  /\ running
  /\ pc[c] = "new"
  /\ IF o \in WizardOps THEN Access ELSE Gate
  /\ pc' = [pc EXCEPT ![c] = "checked"]
  /\ op' = [op EXCEPT ![c] = o]
  /\ UNCHANGED <<databases, bootstrap, process, candidate, queue>>

(***************************************************************************)
(* The body has come: calls that apply a configuration.                    *)
(***************************************************************************)
RawConfig == IF rebound = NoConfig THEN config ELSE rebound

Ends(c) == pc' = [pc EXCEPT ![c] = "done"]

\* A body that is refused, or a registration, or a candidate that apply()
\* refuses at once.
Refuse(c) ==
  /\ pc[c] = "checked"
  /\ Ends(c)
  /\ UNCHANGED <<databases, bootstrap, process, op, candidate, queue>>

Submit(c, k) ==
  /\ candidate' = [candidate EXCEPT ![c] = k]
  /\ pc' = [pc EXCEPT ![c] = "applying"]
  /\ queue' = Append(queue, c)
  /\ UNCHANGED <<bootstrap, process, op>>

\* auth.authy stays, and comes before auth.token.
SetToken(c) ==
  /\ pc[c] = "checked" /\ op[c] = "set_admin_token"
  /\ Submit(c, [RawConfig EXCEPT !.identity = IF @ = "authy" THEN @ ELSE "token"])
  /\ UNCHANGED databases

\* The rest of set_authy_config, which does not look at `applied`: the local
\* administrator is created, a duplicate of whom raises before the stamp.
Authorized(d, local) ==
  IF local /\ d.admin THEN d ELSE [d EXCEPT !.admin = @ \/ local, !.stamped = TRUE]

\* apply() refuses at once; the wizard goes on as if it had not.
AuthyRefused(c, local) ==
  /\ pc[c] = "checked" /\ op[c] = "set_authy_config"
  /\ rebound' = [RawConfig EXCEPT !.identity = "authy"]
  /\ databases' = [databases EXCEPT
       ![store] = Authorized([@ EXCEPT !.secrets = TRUE], local)]
  /\ Ends(c)
  /\ UNCHANGED <<bootstrap, running, config, store, authn, op, candidate, queue>>

SetAuthy(c) ==
  /\ pc[c] = "checked" /\ op[c] = "set_authy_config"
  /\ databases' = [databases EXCEPT ![store].secrets = TRUE]
  /\ Submit(c, [RawConfig EXCEPT !.identity = "authy"])

\* RegistrationService.add takes the manager's raw_config.
AddUpstream(c, u) ==
  /\ pc[c] = "checked" /\ op[c] = "add_upstream"
  /\ Submit(c, [config EXCEPT !.upstreams = @ \cup {u}])
  /\ UNCHANGED databases

SetPolicies(c, p) ==
  /\ pc[c] = "checked" /\ op[c] = "policies"
  /\ Submit(c, [RawConfig EXCEPT !.policies = p])
  /\ UNCHANGED databases

(***************************************************************************)
(* apply() returns, and the rest of the endpoint with it.                  *)
(***************************************************************************)
Leave(c) ==
  /\ queue # <<>> /\ c = Head(queue)
  /\ queue' = Tail(queue)
  /\ Ends(c)
  /\ UNCHANGED <<bootstrap, running, store, authn, op, candidate>>

\* Seeded fault: the configuration goes to the database the process started with.
AppliedToFirst(c, local) ==
  /\ Leave(c)
  /\ config' = candidate[c]
  /\ databases' = [databases EXCEPT
       ![authn] = IF op[c] = "set_authy_config"
                  THEN Authorized([@ EXCEPT !.config = candidate[c]], local)
                  ELSE [@ EXCEPT !.config = candidate[c]]]
  /\ rebound' = IF op[c] = "set_authy_config" THEN candidate[c] ELSE rebound

Applied(c, local) ==
  /\ Leave(c)
  /\ config' = candidate[c]
  /\ LET saved == [InForce EXCEPT !.config = candidate[c]] IN
     databases' = [databases EXCEPT ![store] =
       CASE op[c] = "set_admin_token"  -> [saved EXCEPT !.stamped = TRUE]
         [] op[c] = "set_authy_config" -> Authorized(saved, local)
         [] OTHER                      -> saved]
  /\ rebound' = IF op[c] = "set_authy_config" THEN candidate[c] ELSE rebound

NotApplied(c, local) ==
  /\ Leave(c)
  /\ IF op[c] = "set_authy_config"
     THEN /\ databases' = [databases EXCEPT ![store] = Authorized(@, local)]
          /\ rebound' = candidate[c]
     ELSE UNCHANGED <<databases, rebound>>
  /\ UNCHANGED config

(***************************************************************************)
(* finish, which awaits nothing, and the window.                           *)
(***************************************************************************)
Finish ==
  /\ running
  /\ Access /\ InForce.stamped
  /\ databases' = [databases EXCEPT ![store].row = "completed"]
  /\ UNCHANGED <<bootstrap, process, calls>>

Expire(d) ==
  /\ databases[d].row = "open"
  /\ databases' = [databases EXCEPT ![d].row = "expired"]
  /\ UNCHANGED <<bootstrap, process, calls>>

(***************************************************************************)
(* set_database.  Nothing is awaited under _database_swap_lock.            *)
(***************************************************************************)
\* The target is seeded with the active configuration, the secrets and an
\* onboarding row.  Stamps and users stay behind.
WithConfig(d) == [d EXCEPT !.config = InForce.config]
WithSecrets(d) == [WithConfig(d) EXCEPT !.secrets = @ \/ InForce.secrets]
WithRow(d) == [d EXCEPT !.row = IF @ = "none" THEN "open" ELSE @]

\* Seeded fault: the secrets are not copied.
SeededWithoutSecrets(d) == WithRow(WithConfig(d))

Seeded(d) == WithRow(WithSecrets(d))

Stages(d) == {WithConfig(d), WithSecrets(d), Seeded(d)}

SetDatabase(c, d) ==
  /\ pc[c] = "checked" /\ op[c] = "set_database"
  /\ databases' = [databases EXCEPT ![d] = Seeded(@)]
  /\ bootstrap' = d
  /\ store' = d
  /\ Ends(c)
  /\ UNCHANGED <<running, config, rebound, authn, op, candidate, queue>>

\* The target cannot be opened, seeded, or written to bootstrap.json.
SetDatabaseFails(c, d) ==
  /\ pc[c] = "checked" /\ op[c] = "set_database"
  /\ \E stage \in Stages(databases[d]) : databases' = [databases EXCEPT ![d] = stage]
  /\ Ends(c)
  /\ UNCHANGED <<bootstrap, process, op, candidate, queue>>

\* Seeded fault: bootstrap.json is written before the target is seeded.
SetDatabaseCrashesEarly(c, d) ==
  /\ pc[c] = "checked" /\ op[c] = "set_database"
  /\ bootstrap' = d
  /\ Stop
  /\ UNCHANGED databases

\* The process is killed in the middle, before or after bootstrap.json is
\* replaced.
SetDatabaseCrashes(c, d) ==
  /\ pc[c] = "checked" /\ op[c] = "set_database"
  /\ \/ /\ \E stage \in Stages(databases[d]) : databases' = [databases EXCEPT ![d] = stage]
        /\ UNCHANGED bootstrap
     \/ /\ databases' = [databases EXCEPT ![d] = Seeded(@)]
        /\ bootstrap' = d
  /\ Stop

Call(c) ==
  \/ \E o \in Ops : Begin(c, o)
  \/ Refuse(c)
  \/ SetToken(c) \/ SetAuthy(c)
  \/ \E u \in Upstreams : AddUpstream(c, u)
  \/ \E p \in Policies : SetPolicies(c, p)
  \/ \E local \in BOOLEAN :
       AuthyRefused(c, local) \/ Applied(c, local) \/ NotApplied(c, local)
  \/ \E d \in Databases :
       SetDatabase(c, d) \/ SetDatabaseFails(c, d) \/ SetDatabaseCrashes(c, d)

Next ==
  \/ Start \/ Crash \/ Finish
  \/ \E d \in Databases : Expire(d)
  \/ \E c \in Calls : Call(c)

Spec == Init /\ [][Next]_vars

(***************************************************************************)
(* Properties.                                                             *)
(***************************************************************************)
TypeOK ==
  /\ databases \in [Databases -> Database]
  /\ bootstrap \in Databases \cup {NoDatabase}
  /\ running \in BOOLEAN
  /\ config \in Config \cup {NoConfig} /\ (running => config # NoConfig)
  /\ rebound \in Config \cup {NoConfig}
  /\ store \in Databases /\ authn \in Databases
  /\ pc \in [Calls -> {"new", "checked", "applying", "done"}]
  /\ op \in [Calls -> Ops]
  /\ candidate \in [Calls -> Config]
  /\ queue \in Seq({c \in Calls : pc[c] = "applying"})

\* "so the live config still matches the DB" (runtime.py:178), also when the
\* database is swapped while calls wait for apply().
MemoryIsStored == running => databases[store].config = config

\* Whenever the process dies, in the middle of a swap too, the database the
\* next start opens has the configuration that was in force.
RestartFindsConfig == databases[RestartDatabase].config = config

\* The configuration that the next start finds goes from one to the next as
\* ConfigSwitch promises of apply(): no swap of the database, no crash and no
\* start changes it, or brings back what an earlier database had.
Durable == Opened(databases[RestartDatabase]).config
InApply == {c \in Calls : pc[c] = "applying"}
Asked == [c \in InApply |-> candidate[c]]
Switch == INSTANCE ConfigSwitch WITH
  Configs <- Config, Callers <- Calls,
  current <- Durable, serving <- Durable.upstreams, asked <- Asked
DurableIsSwitched == Switch!SwitchSpec

\* A configuration in force finds the secrets it refers to, in whichever
\* database, before and after a restart.
SecretsFollow ==
  config # NoConfig /\ config.identity = "authy" => databases[RestartDatabase].secrets
==============================================================================
