--------------------------- MODULE OnboardingProofs --------------------------
(***************************************************************************)
(* Whatever the number of databases and calls, and wherever the process    *)
(* dies, the next start finds the configuration that was in force and the  *)
(* secrets it refers to.                                                   *)
(***************************************************************************)
EXTENDS Onboarding, SequenceTheorems, TLAPS

Typing ==
  /\ databases \in [Databases -> Database]
  /\ bootstrap \in Databases \cup {NoDatabase}
  /\ running \in BOOLEAN
  /\ config \in Config \cup {NoConfig}
  /\ rebound \in Config \cup {NoConfig}
  /\ store \in Databases
  /\ authn \in Databases
  /\ pc \in [Calls -> {"new", "checked", "applying", "done"}]
  /\ candidate \in [Calls -> Config]

\* A process that is down has no call in progress.
DownIsIdle ==
  ~running => queue = <<>> /\ \A c \in Calls : pc[c] \in {"new", "done"}

\* The process works on the database that a start would open.
InStep ==
  /\ running => store = RestartDatabase /\ config # NoConfig
  /\ RestartFindsConfig

\* Every configuration that refers to the secrets, in force or on its way,
\* finds them.
SecretsReady ==
  /\ SecretsFollow
  /\ rebound # NoConfig /\ rebound.identity = "authy" => databases[RestartDatabase].secrets
  /\ \A c \in Calls : candidate[c].identity = "authy" => databases[RestartDatabase].secrets

Inv == Typing /\ DownIsIdle /\ InStep /\ SecretsReady

\* One database changes, keeps its configuration if a start would open it, and
\* loses no secrets.
Keeps(d, new) ==
  /\ new \in Database
  /\ databases' = [databases EXCEPT ![d] = new]
  /\ d = RestartDatabase => new.config = databases[d].config
  /\ databases[d].secrets => new.secrets

\* A start opens one of the databases.
LEMMA RestartDatabaseExists ==
  ASSUME Typing
  PROVE  RestartDatabase \in Databases
  BY OnboardingAssumption DEF Typing, RestartDatabase

\* The target of a swap at each stage: the configuration is the one in force,
\* secrets are only added, and in the end those in force are there.
LEMMA SeededStages ==
  ASSUME Typing, NEW d \in Databases, InForce.config \in Config,
         NEW stage \in Stages(databases[d])
  PROVE  /\ stage \in Database
         /\ stage.config = InForce.config
         /\ databases[d].secrets => stage.secrets
         /\ stage = Seeded(databases[d]) /\ InForce.secrets => stage.secrets
  <1> DEFINE target == databases[d]
  <1>1. target \in Database /\ InForce \in Database
    BY DEF Typing, InForce
  <1> HIDE DEF target
  <1>2. /\ WithConfig(target) \in Database /\ WithConfig(target).config = InForce.config
        /\ WithConfig(target).secrets = target.secrets
    BY <1>1 DEF WithConfig, Database
  <1>3. /\ WithSecrets(target) \in Database /\ WithSecrets(target).config = InForce.config
        /\ WithSecrets(target).secrets = (target.secrets \/ InForce.secrets)
    BY <1>1, <1>2 DEF WithSecrets, Database
  <1>4. /\ Seeded(target) \in Database /\ Seeded(target).config = InForce.config
        /\ Seeded(target).secrets = WithSecrets(target).secrets
    BY <1>3 DEF Seeded, WithRow, Database
  <1>5. stage \in Stages(target)
    BY DEF target
  <1>6. /\ stage \in Database
        /\ stage.config = InForce.config
        /\ target.secrets => stage.secrets
        /\ stage = Seeded(target) /\ InForce.secrets => stage.secrets
    BY <1>1, <1>2, <1>3, <1>4, <1>5 DEF Stages
  <1> QED
    BY <1>6 DEF target

(***************************************************************************)
(* Steps that leave alone where the process works.                         *)
(***************************************************************************)
\* Such a step keeps what the invariant says of the database in force.
LEMMA KeepingInStep ==
  ASSUME Typing, InStep, SecretsFollow, NEW d \in Databases, NEW new, Keeps(d, new),
         UNCHANGED <<bootstrap, running, config, store>>
  PROVE  /\ databases' \in [Databases -> Database]
         /\ InStep' /\ SecretsFollow'
         /\ RestartDatabase' = RestartDatabase
         /\ databases[RestartDatabase].secrets => databases'[RestartDatabase].secrets
         /\ databases'[d] = new
  <1>1. RestartDatabase' = RestartDatabase /\ RestartDatabase \in Databases
    BY RestartDatabaseExists DEF RestartDatabase
  <1>2. databases' \in [Databases -> Database] /\ databases'[d] = new
    BY DEF Keeps, Typing
  <1>3. /\ databases'[RestartDatabase].config = databases[RestartDatabase].config
        /\ databases[RestartDatabase].secrets => databases'[RestartDatabase].secrets
    BY <1>1 DEF Keeps, Typing
  <1>4. InStep'
    BY <1>1, <1>3 DEF InStep, RestartFindsConfig
  <1>5. SecretsFollow'
    BY <1>1, <1>3 DEF SecretsFollow
  <1> QED
    BY <1>1, <1>2, <1>3, <1>4, <1>5

\* The databases do not change either.
LEMMA StandingInStep ==
  ASSUME InStep, SecretsFollow, UNCHANGED <<databases, bootstrap, running, config, store>>
  PROVE  /\ InStep' /\ SecretsFollow'
         /\ RestartDatabase' = RestartDatabase
  <1>1. RestartDatabase' = RestartDatabase
    BY DEF RestartDatabase
  <1> QED
    BY <1>1 DEF InStep, RestartFindsConfig, SecretsFollow

\* A call in progress belongs to a running process.
LEMMA CallsRun ==
  ASSUME Inv, NEW c \in Calls, pc[c] \notin {"new", "done"} \/ queue # <<>>
  PROVE  running /\ store = RestartDatabase /\ config \in Config /\ InForce.config = config
         /\ InForce \in Database
  BY RestartDatabaseExists DEF Inv, DownIsIdle, InStep, Typing, RestartFindsConfig, InForce

\* What an endpoint merges into is a configuration, whose secrets are there.
LEMMA RawConfigReady ==
  ASSUME Inv, config \in Config
  PROVE  /\ RawConfig \in Config
         /\ RawConfig.identity = "authy" => databases[RestartDatabase].secrets
  BY OnboardingAssumption DEF Inv, Typing, RawConfig, SecretsReady, SecretsFollow

(***************************************************************************)
(* One lemma for every action.                                             *)
(***************************************************************************)
LEMMA InitInv == Init => Inv
  <1> SUFFICES ASSUME Init PROVE Inv
    OBVIOUS
  <1>1. Empty \in Database /\ Used \in Database /\ DefaultConfig \in Config
    BY OnboardingAssumption DEF Empty, Used, Database, DefaultConfig, Config, Identities
  <1>2. Typing
    BY <1>1, OnboardingAssumption DEF Init, Typing
  <1>3. RestartDatabase = Default /\ databases[RestartDatabase].config = NoConfig
    BY DEF Init, RestartDatabase, Empty
  <1>4. DownIsIdle /\ InStep
    BY <1>3 DEF Init, DownIsIdle, InStep, RestartFindsConfig
  <1>5. SecretsReady
    BY DEF Init, SecretsReady, SecretsFollow, DefaultConfig
  <1> QED
    BY <1>2, <1>4, <1>5 DEF Inv

\* A database that is opened for the first time gets the default configuration.
LEMMA StartInv ==
  ASSUME Inv, Start
  PROVE  Inv'
  <1> DEFINE r == RestartDatabase
  <1>1. r \in Databases /\ r' = r
    BY RestartDatabaseExists DEF Inv, Start, RestartDatabase
  <1>2. databases[r] \in Database /\ databases[r].config = config
    BY <1>1 DEF Inv, Typing, InStep, RestartFindsConfig
  <1>3. /\ databases' = [databases EXCEPT ![r] = Opened(databases[r])]
        /\ databases'[r] = Opened(databases[r])
        /\ config' = Opened(databases[r]).config
    BY <1>1 DEF Start, Inv, Typing
  <1>4. DefaultConfig \in Config /\ DefaultConfig.identity = "none"
    BY OnboardingAssumption DEF DefaultConfig, Config, Identities
  <1>5. /\ Opened(databases[r]) \in Database
        /\ Opened(databases[r]).config = IF config = NoConfig THEN DefaultConfig ELSE config
        /\ Opened(databases[r]).secrets = databases[r].secrets
    BY <1>2, <1>4 DEF Opened, Database
  <1>6. config' = (IF config = NoConfig THEN DefaultConfig ELSE config)
        /\ config' \in Config /\ config' # NoConfig
    BY <1>3, <1>4, <1>5, OnboardingAssumption DEF Inv, Typing
  <1> HIDE DEF r
  <1>7. Typing'
    BY <1>1, <1>3, <1>5, <1>6 DEF Inv, Typing, Start, calls, r
  <1>8. DownIsIdle' /\ InStep'
    BY <1>1, <1>3, <1>5, <1>6 DEF Start, DownIsIdle, InStep, RestartFindsConfig, r
  <1>9. databases'[r].secrets = databases[r].secrets
    BY <1>3, <1>5
  <1>10. SecretsReady'
    BY <1>1, <1>4, <1>6, <1>9 DEF Inv, Start, calls, SecretsReady, SecretsFollow, r
  <1> QED
    BY <1>7, <1>8, <1>10 DEF Inv

LEMMA CrashInv ==
  ASSUME Inv, Crash
  PROVE  Inv'
  <1>1. RestartDatabase' = RestartDatabase
    BY DEF Crash, RestartDatabase
  <1>2. Typing' /\ DownIsIdle'
    BY DEF Inv, Typing, DownIsIdle, Crash, Stop
  <1>3. InStep' /\ SecretsReady'
    BY <1>1 DEF Inv, InStep, RestartFindsConfig, SecretsReady, SecretsFollow, Crash, Stop
  <1> QED
    BY <1>2, <1>3 DEF Inv

LEMMA BeginInv ==
  ASSUME Inv, NEW c \in Calls, NEW o \in Ops, Begin(c, o)
  PROVE  Inv'
  <1>1. Typing' /\ DownIsIdle'
    BY DEF Inv, Typing, DownIsIdle, Begin, process
  <1>2. InStep' /\ SecretsReady'
    BY StandingInStep DEF Inv, SecretsReady, Begin, process
  <1> QED
    BY <1>1, <1>2 DEF Inv

LEMMA RefuseInv ==
  ASSUME Inv, NEW c \in Calls, Refuse(c)
  PROVE  Inv'
  <1>1. Typing' /\ DownIsIdle'
    BY DEF Inv, Typing, DownIsIdle, Refuse, Ends, process
  <1>2. InStep' /\ SecretsReady'
    BY StandingInStep DEF Inv, SecretsReady, Refuse, process
  <1> QED
    BY <1>1, <1>2 DEF Inv

\* A candidate that finds its secrets waits for apply().
LEMMA SubmitInv ==
  ASSUME Inv, running, NEW c \in Calls, NEW k \in Config, Submit(c, k), UNCHANGED databases,
         k.identity = "authy" => databases[RestartDatabase].secrets
  PROVE  Inv'
  <1>1. Typing' /\ DownIsIdle'
    BY DEF Inv, Typing, DownIsIdle, Submit, process
  <1>2. /\ InStep' /\ SecretsFollow' /\ UNCHANGED rebound
        /\ databases'[RestartDatabase'] = databases[RestartDatabase]
    BY StandingInStep DEF Inv, SecretsReady, Submit, process
  <1>3. \A x \in Calls : candidate'[x] = IF x = c THEN k ELSE candidate[x]
    BY DEF Submit, Inv, Typing
  <1>4. SecretsReady'
    BY <1>2, <1>3 DEF Inv, SecretsReady
  <1> QED
    BY <1>1, <1>2, <1>4 DEF Inv

LEMMA SetTokenInv ==
  ASSUME Inv, NEW c \in Calls, SetToken(c)
  PROVE  Inv'
  <1> DEFINE k == [RawConfig EXCEPT !.identity = IF @ = "authy" THEN @ ELSE "token"]
  <1>1. running /\ config \in Config
    BY CallsRun DEF SetToken
  <1>2. /\ RawConfig \in Config
        /\ RawConfig.identity = "authy" => databases[RestartDatabase].secrets
    BY <1>1, RawConfigReady
  <1>3. k \in Config /\ (k.identity = "authy" => databases[RestartDatabase].secrets)
    BY <1>2 DEF Config, Identities
  <1> QED
    BY <1>1, <1>3, SubmitInv DEF SetToken

LEMMA AddUpstreamInv ==
  ASSUME Inv, NEW c \in Calls, NEW u \in Upstreams, AddUpstream(c, u)
  PROVE  Inv'
  <1> DEFINE k == [config EXCEPT !.upstreams = @ \cup {u}]
  <1>1. running /\ config \in Config /\ config # NoConfig
    BY CallsRun, OnboardingAssumption DEF AddUpstream
  <1>2. k \in Config /\ k.identity = config.identity
    BY <1>1 DEF Config
  <1>3. k.identity = "authy" => databases[RestartDatabase].secrets
    BY <1>1, <1>2 DEF Inv, SecretsReady, SecretsFollow
  <1> QED
    BY <1>1, <1>2, <1>3, SubmitInv DEF AddUpstream

LEMMA SetPoliciesInv ==
  ASSUME Inv, NEW c \in Calls, NEW p \in Policies, SetPolicies(c, p)
  PROVE  Inv'
  <1> DEFINE k == [RawConfig EXCEPT !.policies = p]
  <1>1. running /\ config \in Config
    BY CallsRun DEF SetPolicies
  <1>2. /\ RawConfig \in Config
        /\ RawConfig.identity = "authy" => databases[RestartDatabase].secrets
    BY <1>1, RawConfigReady
  <1>3. k \in Config /\ (k.identity = "authy" => databases[RestartDatabase].secrets)
    BY <1>2 DEF Config
  <1> QED
    BY <1>1, <1>3, SubmitInv DEF SetPolicies

\* The secrets come before the candidate that refers to them.
LEMMA SetAuthyInv ==
  ASSUME Inv, NEW c \in Calls, SetAuthy(c)
  PROVE  Inv'
  <1> DEFINE k == [RawConfig EXCEPT !.identity = "authy"]
             new == [InForce EXCEPT !.secrets = TRUE]
  <1>1. /\ running /\ config \in Config /\ store = RestartDatabase /\ store \in Databases
        /\ InForce \in Database
    BY CallsRun, RestartDatabaseExists DEF SetAuthy, Inv
  <1>2. new \in Database /\ new.config = InForce.config /\ new.secrets
    BY <1>1 DEF Database
  <1>3. Keeps(store, new)
    BY <1>2 DEF Keeps, SetAuthy, InForce
  <1>4. k \in Config
    BY <1>1, RawConfigReady DEF Config, Identities
  <1>5. /\ databases' \in [Databases -> Database]
        /\ InStep' /\ SecretsFollow' /\ databases'[RestartDatabase'].secrets
    BY <1>1, <1>2, <1>3, KeepingInStep DEF Inv, SecretsReady, SetAuthy, Submit, process
  <1>6. Typing' /\ DownIsIdle'
    BY <1>1, <1>4, <1>5 DEF Inv, Typing, DownIsIdle, SetAuthy, Submit, process
  <1>7. SecretsReady'
    BY <1>5 DEF SecretsReady
  <1> QED
    BY <1>5, <1>6, <1>7 DEF Inv

\* Whether the administrator can be created or not, the configuration and the
\* secrets of the database stay.
LEMMA AuthorizedKeeps ==
  ASSUME NEW d \in Database, NEW local \in BOOLEAN
  PROVE  /\ Authorized(d, local) \in Database
         /\ Authorized(d, local).config = d.config
         /\ Authorized(d, local).secrets = d.secrets
  BY DEF Authorized, Database

LEMMA AuthyRefusedInv ==
  ASSUME Inv, NEW c \in Calls, NEW local \in BOOLEAN, AuthyRefused(c, local)
  PROVE  Inv'
  <1> DEFINE k == [RawConfig EXCEPT !.identity = "authy"]
             kept == [InForce EXCEPT !.secrets = TRUE]
             new == Authorized(kept, local)
  <1>1. /\ running /\ config \in Config /\ store = RestartDatabase /\ store \in Databases
        /\ InForce \in Database
    BY CallsRun, RestartDatabaseExists DEF AuthyRefused, Inv
  <1>2. kept \in Database /\ kept.config = InForce.config /\ kept.secrets
    BY <1>1 DEF Database
  <1> HIDE DEF kept
  <1>3. new \in Database /\ new.config = InForce.config /\ new.secrets
    BY <1>2, AuthorizedKeeps
  <1>4. Keeps(store, new)
    BY <1>3 DEF Keeps, AuthyRefused, InForce, kept
  <1>5. k \in Config
    BY <1>1, RawConfigReady DEF Config, Identities
  <1>6. /\ databases' \in [Databases -> Database]
        /\ InStep' /\ SecretsFollow' /\ databases'[RestartDatabase'].secrets
    BY <1>1, <1>3, <1>4, KeepingInStep DEF Inv, SecretsReady, AuthyRefused
  <1>7. Typing' /\ DownIsIdle'
    BY <1>1, <1>5, <1>6 DEF Inv, Typing, DownIsIdle, AuthyRefused, Ends
  <1>8. SecretsReady'
    BY <1>6 DEF SecretsReady
  <1> QED
    BY <1>6, <1>7, <1>8 DEF Inv

\* The candidate goes into memory and into the database in force together.
LEMMA AppliedInv ==
  ASSUME Inv, NEW c \in Calls, NEW local \in BOOLEAN, Applied(c, local)
  PROVE  Inv'
  <1> DEFINE saved == [InForce EXCEPT !.config = candidate[c]]
             new == CASE op[c] = "set_admin_token"  -> [saved EXCEPT !.stamped = TRUE]
                      [] op[c] = "set_authy_config" -> Authorized(saved, local)
                      [] OTHER                      -> saved
  <1>1. /\ running /\ store = RestartDatabase /\ store \in Databases /\ InForce \in Database
        /\ candidate[c] \in Config /\ candidate[c] # NoConfig
    BY CallsRun, RestartDatabaseExists, OnboardingAssumption DEF Applied, Leave, Inv, Typing
  <1>2. saved \in Database /\ saved.config = candidate[c] /\ saved.secrets = InForce.secrets
    BY <1>1 DEF Database
  <1>3. databases' = [databases EXCEPT ![store] = new]
    BY DEF Applied
  <1> HIDE DEF saved
  <1>4. new \in Database /\ new.config = candidate[c] /\ new.secrets = InForce.secrets
    BY <1>2, AuthorizedKeeps DEF Database
  <1> HIDE DEF new
  <1>5. /\ databases' \in [Databases -> Database]
        /\ databases'[store].config = candidate[c]
        /\ databases'[store].secrets = databases[store].secrets
    BY <1>1, <1>3, <1>4 DEF Inv, Typing, InForce
  <1>6. RestartDatabase' = store
    BY <1>1 DEF Applied, Leave, RestartDatabase
  <1>7. Typing' /\ DownIsIdle'
    BY <1>1, <1>5 DEF Inv, Typing, DownIsIdle, Applied, Leave, Ends
  <1>8. InStep'
    BY <1>1, <1>5, <1>6 DEF InStep, RestartFindsConfig, Applied, Leave
  <1>9. SecretsReady'
    BY <1>1, <1>5, <1>6 DEF Inv, SecretsReady, SecretsFollow, Applied, Leave
  <1> QED
    BY <1>7, <1>8, <1>9 DEF Inv

LEMMA NotAppliedInv ==
  ASSUME Inv, NEW c \in Calls, NEW local \in BOOLEAN, NotApplied(c, local)
  PROVE  Inv'
  <1> DEFINE new == IF op[c] = "set_authy_config" THEN Authorized(InForce, local) ELSE InForce
  <1>1. /\ running /\ store = RestartDatabase /\ store \in Databases /\ InForce \in Database
        /\ candidate[c] \in Config
    BY CallsRun, RestartDatabaseExists DEF NotApplied, Leave, Inv, Typing
  <1>2. new \in Database /\ new.config = InForce.config /\ new.secrets = InForce.secrets
    BY <1>1, AuthorizedKeeps
  <1>3. databases' = [databases EXCEPT ![store] = new]
    BY <1>1 DEF NotApplied, InForce, Inv, Typing
  <1> HIDE DEF new
  <1>4. Keeps(store, new)
    BY <1>2, <1>3 DEF Keeps, InForce
  <1>5. /\ databases' \in [Databases -> Database]
        /\ InStep' /\ SecretsFollow'
        /\ databases[RestartDatabase].secrets => databases'[RestartDatabase'].secrets
    BY <1>1, <1>4, KeepingInStep DEF Inv, SecretsReady, NotApplied, Leave
  <1>6. Typing' /\ DownIsIdle'
    BY <1>1, <1>5 DEF Inv, Typing, DownIsIdle, NotApplied, Leave, Ends
  <1>7. SecretsReady'
    BY <1>1, <1>5 DEF Inv, SecretsReady, NotApplied, Leave
  <1> QED
    BY <1>5, <1>6, <1>7 DEF Inv

\* The process and bootstrap.json move together to a database that has all
\* the old one had.
LEMMA SetDatabaseInv ==
  ASSUME Inv, NEW c \in Calls, NEW d \in Databases, SetDatabase(c, d)
  PROVE  Inv'
  <1> DEFINE new == Seeded(databases[d])
  <1>1. /\ running /\ store = RestartDatabase /\ config \in Config /\ InForce.config = config
    BY CallsRun DEF SetDatabase
  <1>2. /\ new \in Database /\ new.config = config
        /\ databases[RestartDatabase].secrets => new.secrets
    BY <1>1, SeededStages DEF Inv, Stages, InForce
  <1> HIDE DEF new
  <1>3. databases' \in [Databases -> Database] /\ databases'[d] = new
    BY <1>2 DEF SetDatabase, Inv, Typing, new
  <1>4. RestartDatabase' = d
    BY OnboardingAssumption DEF SetDatabase, RestartDatabase
  <1>5. Typing' /\ DownIsIdle'
    BY <1>1, <1>3 DEF Inv, Typing, DownIsIdle, SetDatabase, Ends
  <1>6. InStep'
    BY <1>1, <1>2, <1>3, <1>4 DEF Inv, InStep, RestartFindsConfig, SetDatabase
  <1>7. SecretsReady'
    BY <1>2, <1>3, <1>4 DEF Inv, SecretsReady, SecretsFollow, SetDatabase
  <1> QED
    BY <1>5, <1>6, <1>7 DEF Inv

\* Whatever was written of the seeding of the target, it takes nothing from
\* the database a start opens, were it the target itself.
LEMMA StageKeeps ==
  ASSUME Inv, running, NEW d \in Databases, NEW stage \in Stages(databases[d]),
         InForce.config = config, config \in Config,
         databases' = [databases EXCEPT ![d] = stage]
  PROVE  Keeps(d, stage)
  BY SeededStages DEF Inv, InStep, RestartFindsConfig, Keeps

LEMMA SetDatabaseFailsInv ==
  ASSUME Inv, NEW c \in Calls, NEW d \in Databases, SetDatabaseFails(c, d)
  PROVE  Inv'
  <1>1. running /\ config \in Config /\ InForce.config = config
    BY CallsRun DEF SetDatabaseFails
  <1>2. PICK stage \in Stages(databases[d]) : databases' = [databases EXCEPT ![d] = stage]
    BY DEF SetDatabaseFails
  <1>3. /\ databases' \in [Databases -> Database]
        /\ InStep' /\ SecretsFollow'
        /\ databases[RestartDatabase].secrets => databases'[RestartDatabase'].secrets
    BY <1>1, <1>2, StageKeeps, KeepingInStep DEF Inv, SecretsReady, SetDatabaseFails, process
  <1>4. Typing' /\ DownIsIdle'
    BY <1>3 DEF Inv, Typing, DownIsIdle, SetDatabaseFails, Ends, process
  <1>5. SecretsReady'
    BY <1>3 DEF Inv, SecretsReady, SetDatabaseFails, process
  <1> QED
    BY <1>3, <1>4, <1>5 DEF Inv

\* Before bootstrap.json is replaced a start opens the old database, which is
\* as it was; after it the new one, which is complete.
LEMMA SetDatabaseCrashesInv ==
  ASSUME Inv, NEW c \in Calls, NEW d \in Databases, SetDatabaseCrashes(c, d)
  PROVE  Inv'
  <1>1. /\ running /\ store = RestartDatabase /\ store \in Databases /\ config \in Config
        /\ InForce.config = config
    BY CallsRun, RestartDatabaseExists DEF SetDatabaseCrashes, Inv
  <1>2. PICK stage \in Stages(databases[d]) :
          /\ databases' = [databases EXCEPT ![d] = stage]
          /\ bootstrap' = bootstrap \/ (bootstrap' = d /\ stage = Seeded(databases[d]))
    BY DEF SetDatabaseCrashes, Stages
  <1>3. /\ stage \in Database /\ stage.config = config
        /\ databases[d].secrets => stage.secrets
        /\ stage = Seeded(databases[d]) /\ InForce.secrets => stage.secrets
    BY <1>1, SeededStages DEF Inv
  <1>4. /\ databases' \in [Databases -> Database]
        /\ \A x \in Databases : databases'[x] = IF x = d THEN stage ELSE databases[x]
    BY <1>2, <1>3 DEF Inv, Typing
  <1>5. RestartDatabase' = store \/ (RestartDatabase' = d /\ stage = Seeded(databases[d]))
    BY <1>1, <1>2, OnboardingAssumption DEF RestartDatabase
  <1>6. /\ databases'[RestartDatabase'].config = config
        /\ databases[RestartDatabase].secrets => databases'[RestartDatabase'].secrets
    BY <1>1, <1>3, <1>4, <1>5 DEF InForce
  <1>7. /\ running' = FALSE /\ queue' = <<>>
        /\ UNCHANGED <<config, rebound, candidate, store, authn>>
        /\ pc' = [x \in Calls |-> IF pc[x] = "new" THEN "new" ELSE "done"]
        /\ bootstrap' \in Databases \cup {NoDatabase}
    BY <1>2 DEF SetDatabaseCrashes, Stop, Inv, Typing
  <1>8. Typing' /\ DownIsIdle'
    BY <1>4, <1>7 DEF Inv, Typing, DownIsIdle
  <1>9. InStep'
    BY <1>6, <1>7 DEF InStep, RestartFindsConfig
  <1>10. SecretsReady'
    BY <1>6, <1>7 DEF Inv, SecretsReady, SecretsFollow
  <1> QED
    BY <1>8, <1>9, <1>10 DEF Inv

\* The onboarding row is closed, by the operator or by the clock.
LEMMA RowInv ==
  ASSUME Inv, NEW d \in Databases, NEW row \in {"expired", "completed"},
         databases' = [databases EXCEPT ![d].row = row],
         UNCHANGED <<bootstrap, process, calls>>
  PROVE  Inv'
  <1> DEFINE new == [databases[d] EXCEPT !.row = row]
  <1>1. /\ new \in Database /\ new.config = databases[d].config
        /\ new.secrets = databases[d].secrets
    BY DEF Inv, Typing, Database
  <1>2. Keeps(d, new)
    BY <1>1 DEF Keeps
  <1>3. /\ databases' \in [Databases -> Database]
        /\ InStep' /\ SecretsFollow'
        /\ databases[RestartDatabase].secrets => databases'[RestartDatabase'].secrets
    BY <1>2, KeepingInStep DEF Inv, SecretsReady, process
  <1>4. Typing' /\ DownIsIdle'
    BY <1>3 DEF Inv, Typing, DownIsIdle, process, calls
  <1>5. SecretsReady'
    BY <1>3 DEF Inv, SecretsReady, process, calls
  <1> QED
    BY <1>3, <1>4, <1>5 DEF Inv

LEMMA FinishInv ==
  ASSUME Inv, Finish
  PROVE  Inv'
  BY RowInv DEF Finish, Inv, Typing

LEMMA ExpireInv ==
  ASSUME Inv, NEW d \in Databases, Expire(d)
  PROVE  Inv'
  BY RowInv DEF Expire

LEMMA CallInv ==
  ASSUME Inv, NEW c \in Calls, Call(c)
  PROVE  Inv'
  BY BeginInv, RefuseInv, SetTokenInv, SetAuthyInv, AuthyRefusedInv, AddUpstreamInv,
     SetPoliciesInv, AppliedInv, NotAppliedInv, SetDatabaseInv, SetDatabaseFailsInv,
     SetDatabaseCrashesInv
     DEF Call

LEMMA NextInv == Inv /\ [Next]_vars => Inv'
  <1> SUFFICES ASSUME Inv, [Next]_vars PROVE Inv'
    OBVIOUS
  <1>1. CASE Next
    BY <1>1, StartInv, CrashInv, FinishInv, ExpireInv, CallInv DEF Next
  <1>2. CASE UNCHANGED vars
    <2>1. Typing' /\ DownIsIdle'
      BY <1>2 DEF Inv, Typing, DownIsIdle, vars, process, calls
    <2>2. InStep' /\ SecretsReady'
      BY <1>2, StandingInStep DEF Inv, SecretsReady, vars, process, calls
    <2> QED
      BY <2>1, <2>2 DEF Inv
  <1> QED
    BY <1>1, <1>2

(***************************************************************************)
(* The queue of apply().                                                   *)
(***************************************************************************)
\* A call waits in apply() at most once, and nobody waits who is elsewhere.
Queued ==
  /\ queue \in Seq(Calls)
  /\ \A i \in 1..Len(queue) : pc[queue[i]] = "applying"
  /\ \A i, j \in 1..Len(queue) : queue[i] = queue[j] => i = j

\* A call that is not in the queue moves.
LEMMA MovingQueued ==
  ASSUME Typing, Queued, NEW c \in Calls, pc[c] # "applying", NEW p,
         pc' = [pc EXCEPT ![c] = p], UNCHANGED queue
  PROVE  Queued'
  <1>1. \A i \in 1..Len(queue) : queue[i] \in Calls /\ queue[i] # c
    BY ElementOfSeq DEF Queued
  <1>2. \A d \in Calls : d # c => pc'[d] = pc[d]
    BY DEF Typing
  <1> QED
    BY <1>1, <1>2 DEF Queued

LEMMA SubmitQueued ==
  ASSUME Typing, Queued, NEW c \in Calls, pc[c] # "applying", NEW k, Submit(c, k)
  PROVE  Queued'
  <1>1. /\ queue' \in Seq(Calls) /\ Len(queue') = Len(queue) + 1 /\ Len(queue) \in Nat
        /\ \A i \in 1..Len(queue) : queue'[i] = queue[i]
        /\ queue'[Len(queue) + 1] = c
    BY DEF Submit, Queued
  <1>2. \A i \in 1..Len(queue) : queue[i] \in Calls /\ queue[i] # c
    BY ElementOfSeq DEF Queued
  <1>3. pc'[c] = "applying" /\ \A d \in Calls : d # c => pc'[d] = pc[d]
    BY DEF Typing, Submit
  <1>4. \A i \in 1..Len(queue') : i \in 1..Len(queue) \/ i = Len(queue) + 1
    BY <1>1
  <1>5. \A i \in 1..Len(queue') : pc'[queue'[i]] = "applying"
    BY <1>1, <1>2, <1>3, <1>4 DEF Queued
  <1>6. ASSUME NEW i \in 1..Len(queue'), NEW j \in 1..Len(queue'), queue'[i] = queue'[j]
        PROVE  i = j
    BY <1>1, <1>2, <1>4, <1>6 DEF Queued
  <1> QED
    BY <1>1, <1>5, <1>6 DEF Queued

\* The call that has the lock leaves, and it alone.
LEMMA LeaveQueued ==
  ASSUME Typing, Queued, NEW c \in Calls, Leave(c)
  PROVE  Queued' /\ pc[c] = "applying"
  <1>1. queue # <<>> /\ c = queue[1] /\ Len(queue) \in Nat /\ Len(queue) >= 1
    BY EmptySeq DEF Leave, Queued
  <1>2. /\ queue' \in Seq(Calls) /\ Len(queue') = Len(queue) - 1
        /\ \A i \in 1..Len(queue') : queue'[i] = queue[i + 1]
    BY <1>1, HeadTailProperties DEF Leave, Queued
  <1>3. \A i \in 1..Len(queue') : i + 1 \in 1..Len(queue) /\ i + 1 # 1
    BY <1>1, <1>2
  <1>4. \A i \in 1..Len(queue) : queue[i] \in Calls
    BY ElementOfSeq DEF Queued
  <1>5. \A d \in Calls : d # c => pc'[d] = pc[d]
    BY DEF Typing, Leave, Ends
  <1>6. ASSUME NEW i \in 1..Len(queue')
        PROVE  pc'[queue'[i]] = "applying"
    <2>1. i + 1 \in 1..Len(queue) /\ queue'[i] = queue[i + 1]
      BY <1>2, <1>3
    <2>2. queue[i + 1] # c
      BY <1>1, <1>3, <2>1 DEF Queued
    <2> QED
      BY <1>4, <1>5, <2>1, <2>2 DEF Queued
  <1>7. ASSUME NEW i \in 1..Len(queue'), NEW j \in 1..Len(queue'), queue'[i] = queue'[j]
        PROVE  i = j
    <2>1. queue[i + 1] = queue[j + 1] /\ i \in Int /\ j \in Int
      BY <1>2, <1>7
    <2>2. i + 1 = j + 1
      BY <1>3, <2>1 DEF Queued
    <2> QED
      BY <2>1, <2>2
  <1> QED
    BY <1>1, <1>2, <1>6, <1>7 DEF Queued

LEMMA QueuedKept ==
  ASSUME Inv, Queued, [Next]_vars
  PROVE  Queued'
  <1>1. Typing
    BY DEF Inv
  <1>2. CASE Start \/ Finish \/ (\E d \in Databases : Expire(d)) \/ UNCHANGED vars
    BY <1>2 DEF Start, Finish, Expire, vars, calls, Queued
  <1>3. CASE Crash \/ \E c \in Calls, d \in Databases : SetDatabaseCrashes(c, d)
    <2>1. queue' = <<>>
      BY <1>3 DEF Crash, SetDatabaseCrashes, Stop
    <2> QED
      BY <2>1, EmptySeq DEF Queued
  <1>4. ASSUME NEW c \in Calls,
               \/ SetToken(c) \/ SetAuthy(c)
               \/ (\E u \in Upstreams : AddUpstream(c, u)) \/ (\E p \in Policies : SetPolicies(c, p))
        PROVE  Queued'
    <2>1. pc[c] # "applying" /\ \E k : Submit(c, k)
      BY <1>4 DEF SetToken, SetAuthy, AddUpstream, SetPolicies
    <2> QED
      BY <1>1, <2>1, SubmitQueued
  <1>5. ASSUME NEW c \in Calls, \E local \in BOOLEAN : Applied(c, local) \/ NotApplied(c, local)
        PROVE  Queued'
    BY <1>1, <1>5, LeaveQueued DEF Applied, NotApplied
  <1>6. ASSUME NEW c \in Calls,
               \/ (\E o \in Ops : Begin(c, o)) \/ Refuse(c)
               \/ (\E local \in BOOLEAN : AuthyRefused(c, local))
               \/ (\E d \in Databases : SetDatabase(c, d) \/ SetDatabaseFails(c, d))
        PROVE  Queued'
    <2>1. /\ pc[c] # "applying" /\ queue' = queue
          /\ \E p \in {"checked", "done"} : pc' = [pc EXCEPT ![c] = p]
      BY <1>6 DEF Begin, Refuse, AuthyRefused, SetDatabase, SetDatabaseFails, Ends
    <2> QED
      BY <1>1, <2>1, MovingQueued
  <1> QED
    BY <1>2, <1>3, <1>4, <1>5, <1>6 DEF Next, Call

LEMMA OpsKept == op \in [Calls -> Ops] /\ [Next]_vars => op' \in [Calls -> Ops]
  <1> SUFFICES ASSUME op \in [Calls -> Ops], [Next]_vars, op' # op PROVE op' \in [Calls -> Ops]
    OBVIOUS
  <1>1. PICK c \in Calls, o \in Ops : Begin(c, o)
    BY DEF Next, Call, Start, Crash, Stop, Finish, Expire, Refuse, SetToken, SetAuthy, AddUpstream,
           SetPolicies, Submit, AuthyRefused, Applied, NotApplied, Leave, SetDatabase,
           SetDatabaseFails, SetDatabaseCrashes, vars, calls
  <1> QED
    BY <1>1 DEF Begin

(***************************************************************************)
(* What a start would find goes from one configuration to the next as      *)
(* ConfigSwitch says.                                                      *)
(***************************************************************************)
\* What a start does to a database leaves the configuration it has, if any.
LEMMA OpenedConfig ==
  ASSUME NEW d \in Database
  PROVE  /\ Opened(d).config = IF d.config = NoConfig THEN DefaultConfig ELSE d.config
         /\ Opened(d).config \in Config
  <1>1. DefaultConfig \in Config
    BY OnboardingAssumption DEF DefaultConfig, Config, Identities
  <1>2. Opened(d).config = IF d.config = NoConfig THEN DefaultConfig ELSE d.config
    BY DEF Opened, Database
  <1> QED
    BY <1>1, <1>2 DEF Database

\* It is the configuration in memory, but before the very first start.
LEMMA DurableIsMemory ==
  ASSUME Inv
  PROVE  /\ Durable = IF config = NoConfig THEN DefaultConfig ELSE config
         /\ Durable \in Config
  <1>1. databases[RestartDatabase] \in Database
    BY RestartDatabaseExists DEF Inv, Typing
  <1>2. databases[RestartDatabase].config = config
    BY DEF Inv, InStep, RestartFindsConfig
  <1> QED
    BY <1>1, <1>2, OpenedConfig DEF Durable

\* After a step too.
LEMMA DurableIsMemoryNext ==
  ASSUME Inv'
  PROVE  Durable' = IF config' = NoConfig THEN DefaultConfig ELSE config'
  <1>1. (RestartDatabase \in Databases)'
    BY OnboardingAssumption DEF Inv, Typing, RestartDatabase
  <1>2. databases'[RestartDatabase'] \in Database
    BY <1>1 DEF Inv, Typing
  <1>3. databases'[RestartDatabase'].config = config'
    BY DEF Inv, InStep, RestartFindsConfig
  <1> QED
    BY <1>2, <1>3, OpenedConfig DEF Durable

LEMMA DurableStays ==
  ASSUME Inv, Inv', UNCHANGED config
  PROVE  Durable' = Durable
  BY DurableIsMemory, DurableIsMemoryNext

LEMMA OutOfSight ==
  ASSUME Inv, Inv', InApply' = InApply, UNCHANGED <<config, candidate>>
  PROVE  UNCHANGED Switch!switchVars
  <1>1. Durable' = Durable
    BY DurableStays
  <1>2. Asked' = Asked
    BY DEF Asked
  <1> QED
    BY <1>1, <1>2 DEF Switch!switchVars

LEMMA SubmittingAsks ==
  ASSUME Inv, Inv', NEW c \in Calls, NEW k, pc[c] = "checked", Submit(c, k)
  PROVE  \E l \in Config : Switch!Ask(c, l)
  <1>1. /\ pc' = [pc EXCEPT ![c] = "applying"] /\ candidate' = [candidate EXCEPT ![c] = k]
        /\ config' = config
    BY DEF Submit, process
  <1>2. /\ pc \in [Calls -> {"new", "checked", "applying", "done"}]
        /\ candidate \in [Calls -> Config] /\ candidate' \in [Calls -> Config]
    BY DEF Inv, Typing
  <1>3. c \notin InApply /\ InApply' = InApply \cup {c}
    BY <1>1, <1>2 DEF InApply
  <1>4. k \in Config /\ \A d \in Calls : candidate'[d] = IF d = c THEN k ELSE candidate[d]
    BY <1>1, <1>2
  <1>5. Asked' = [d \in InApply \cup {c} |-> IF d = c THEN k ELSE Asked[d]]
    <2>1. Asked' = [d \in InApply \cup {c} |-> candidate'[d]]
      BY <1>3 DEF Asked
    <2>2. \A d \in InApply \cup {c} : candidate'[d] = IF d = c THEN k ELSE Asked[d]
      BY <1>4 DEF Asked, InApply
    <2> QED
      BY <2>1, <2>2
  <1>6. Durable' = Durable
    BY <1>1, DurableStays
  <1>7. DOMAIN Asked = InApply
    BY DEF Asked
  <1> QED
    BY <1>3, <1>4, <1>5, <1>6, <1>7 DEF Switch!Ask, Switch!InProgress

LEMMA LeavingEnds ==
  ASSUME Inv, Queued, NEW c \in Calls, Leave(c)
  PROVE  Switch!End(c) /\ Asked[c] = candidate[c]
  <1>1. pc[c] = "applying" /\ pc' = [pc EXCEPT ![c] = "done"] /\ candidate' = candidate
    BY LeaveQueued DEF Inv, Leave, Ends
  <1>2. c \in InApply /\ InApply' = InApply \ {c}
    BY <1>1 DEF InApply, Inv, Typing
  <1>3. Asked' = [d \in InApply \ {c} |-> Asked[d]]
    BY <1>1, <1>2 DEF Asked
  <1>4. DOMAIN Asked = InApply /\ Asked[c] = candidate[c]
    BY <1>2 DEF Asked
  <1> QED
    BY <1>2, <1>3, <1>4 DEF Switch!End, Switch!InProgress

LEMMA StoppingRestarts ==
  ASSUME Inv, Inv', Stop
  PROVE  Switch!Restart
  <1>1. config' = config /\ pc' = [c \in Calls |-> IF pc[c] = "new" THEN "new" ELSE "done"]
    BY DEF Stop
  <1>2. InApply' = {}
    BY <1>1 DEF InApply
  <1>3. Asked' = [d \in {} |-> Asked[d]]
    BY <1>2 DEF Asked
  <1>4. Durable' = Durable
    BY <1>1, DurableStays
  <1> QED
    BY <1>3, <1>4 DEF Switch!Restart

LEMMA SwitchInitially == Init => Switch!SwitchInit
  <1> SUFFICES ASSUME Init PROVE Switch!SwitchInit
    OBVIOUS
  <1>1. Durable \in Config
    BY InitInv, DurableIsMemory
  <1>2. DOMAIN Asked = {}
    BY DEF Init, InApply, Asked
  <1> QED
    BY <1>1, <1>2 DEF Switch!SwitchInit, Switch!InProgress

LEMMA CallSwitches ==
  ASSUME Inv, Inv', Queued, NEW c \in Calls, Call(c)
  PROVE  [Switch!SwitchNext]_(Switch!switchVars)
  <1>1. CASE \/ (\E o \in Ops : Begin(c, o)) \/ Refuse(c)
             \/ (\E local \in BOOLEAN : AuthyRefused(c, local))
             \/ (\E d \in Databases : SetDatabase(c, d) \/ SetDatabaseFails(c, d))
    <2>1. /\ pc[c] \in {"new", "checked"} /\ UNCHANGED <<config, candidate>>
          /\ \E p \in {"checked", "done"} : pc' = [pc EXCEPT ![c] = p]
      BY <1>1 DEF Begin, Refuse, AuthyRefused, SetDatabase, SetDatabaseFails, Ends, process
    <2>2. InApply' = InApply
      BY <2>1 DEF InApply, Inv, Typing
    <2> QED
      BY <2>1, <2>2, OutOfSight
  <1>2. CASE \/ SetToken(c) \/ SetAuthy(c)
             \/ (\E u \in Upstreams : AddUpstream(c, u)) \/ (\E p \in Policies : SetPolicies(c, p))
    <2>1. pc[c] = "checked" /\ \E k : Submit(c, k)
      BY <1>2 DEF SetToken, SetAuthy, AddUpstream, SetPolicies
    <2> QED
      BY <2>1, SubmittingAsks DEF Switch!SwitchNext
  <1>3. CASE \E local \in BOOLEAN : Applied(c, local)
    <2>1. Leave(c) /\ config' = candidate[c] /\ candidate[c] \in Config
      BY <1>3 DEF Applied, Inv, Typing
    <2>2. Durable' = candidate[c]
      BY <2>1, DurableIsMemoryNext, OnboardingAssumption
    <2>3. Switch!Succeed(c)
      BY <2>1, <2>2, LeavingEnds DEF Switch!Succeed
    <2> QED
      BY <2>3 DEF Switch!SwitchNext
  <1>4. CASE \E local \in BOOLEAN : NotApplied(c, local)
    <2>1. Leave(c) /\ config' = config
      BY <1>4 DEF NotApplied
    <2>2. Durable' = Durable
      BY <2>1, DurableStays
    <2>3. Switch!Fail(c)
      BY <2>1, <2>2, LeavingEnds DEF Switch!Fail
    <2> QED
      BY <2>3 DEF Switch!SwitchNext
  <1>5. CASE \E d \in Databases : SetDatabaseCrashes(c, d)
    BY <1>5, StoppingRestarts DEF SetDatabaseCrashes, Switch!SwitchNext
  <1> QED
    BY <1>1, <1>2, <1>3, <1>4, <1>5 DEF Call

LEMMA SwitchStep ==
  ASSUME Inv, Queued, [Next]_vars
  PROVE  [Switch!SwitchNext]_(Switch!switchVars)
  <1>1. Inv'
    BY NextInv
  <1>2. CASE Start
    <2>1. UNCHANGED <<pc, candidate, bootstrap>>
      BY <1>2 DEF Start, calls
    <2>2. config' = Durable
      BY <1>2, RestartDatabaseExists DEF Start, Durable, Inv, Typing
    <2>3. Durable' = Durable
      BY <1>1, <2>2, DurableIsMemory, DurableIsMemoryNext, OnboardingAssumption
    <2>4. Asked' = Asked
      BY <2>1 DEF Asked, InApply
    <2> QED
      BY <2>3, <2>4 DEF Switch!switchVars
  <1>3. CASE Crash
    BY <1>1, <1>3, StoppingRestarts DEF Crash, Switch!SwitchNext
  <1>4. CASE Finish \/ (\E d \in Databases : Expire(d)) \/ UNCHANGED vars
    <2>1. UNCHANGED <<pc, candidate, config>>
      BY <1>4 DEF Finish, Expire, vars, calls, process
    <2> QED
      BY <1>1, <2>1, OutOfSight DEF InApply
  <1>5. ASSUME NEW c \in Calls, Call(c)
        PROVE  [Switch!SwitchNext]_(Switch!switchVars)
    BY <1>1, <1>5, CallSwitches
  <1> QED
    BY <1>2, <1>3, <1>4, <1>5 DEF Next

(***************************************************************************)
(* The theorems.                                                           *)
(***************************************************************************)
\* Whichever calls are in progress, and however a swap of the database ends,
\* process, databases, bootstrap.json and secrets stay in step.
THEOREM Invariance == Spec => []Inv
  BY InitInv, NextInv, PTL DEF Spec

\* The database that the next start opens has the configuration that is, or
\* when the process died was, in force.
THEOREM RestartsKeepConfig == Spec => []RestartFindsConfig
  <1>1. Inv => RestartFindsConfig
    BY DEF Inv, InStep
  <1> QED
    BY <1>1, Invariance, PTL

\* A running process has the configuration that its database has, swaps
\* during an apply included.
THEOREM MemoryFollowsStore == Spec => []MemoryIsStored
  <1>1. Inv => MemoryIsStored
    BY DEF Inv, InStep, RestartFindsConfig, MemoryIsStored
  <1> QED
    BY <1>1, Invariance, PTL

\* No configuration in force refers to secrets that a swap left behind.
THEOREM SecretsAreCarriedAlong == Spec => []SecretsFollow
  <1>1. Inv => SecretsFollow
    BY DEF Inv, SecretsReady
  <1> QED
    BY <1>1, Invariance, PTL

\* Every variable keeps its type: a call is in the queue of apply() only while
\* it is there, and a process that runs has a configuration.
THEOREM TypeCorrect == Spec => []TypeOK
  <1> DEFINE All == Inv /\ Queued /\ op \in [Calls -> Ops]
  <1>1. Init => All
    BY InitInv, EmptySeq DEF Init, Queued, Ops
  <1>2. All /\ [Next]_vars => All'
    BY NextInv, QueuedKept, OpsKept
  <1>3. All => TypeOK
    <2> SUFFICES ASSUME All PROVE TypeOK
      OBVIOUS
    <2> DEFINE S == {c \in Calls : pc[c] = "applying"}
    <2>1. Len(queue) \in Nat /\ queue \in [1..Len(queue) -> Calls]
      BY LenProperties DEF Queued
    <2>2. queue \in [1..Len(queue) -> S]
      BY <2>1 DEF Queued
    <2>3. queue \in Seq(S)
      BY <2>1, <2>2, SeqDef
    <2> QED
      BY <2>3 DEF TypeOK, Inv, Typing, InStep
  <1> HIDE DEF All
  <1> QED
    BY <1>1, <1>2, <1>3, PTL DEF Spec

\* The configuration that the next start finds changes at one moment of each
\* successful apply, to what was asked for: no swap of the database, in the
\* middle of an apply or cut short by a crash, and no restart changes it.
THEOREM DurableSwitches == Spec => DurableIsSwitched
  <1>1. Init => Inv /\ Queued /\ Switch!SwitchInit
    BY InitInv, SwitchInitially, EmptySeq DEF Init, Queued
  <1>2. Inv /\ Queued /\ [Next]_vars => Inv' /\ Queued'
    BY NextInv, QueuedKept
  <1>3. Inv /\ Queued /\ [Next]_vars => [Switch!SwitchNext]_(Switch!switchVars)
    BY SwitchStep
  <1> QED
    BY <1>1, <1>2, <1>3, PTL DEF Spec, DurableIsSwitched, Switch!SwitchSpec
==============================================================================
