----------------------------- MODULE OAuthManager ----------------------------
(***************************************************************************)
(* The OAuth state of one HTTP upstream: OAuthManager and OAuthHttpxAuth.  *)
(* Transport requests take a token, refresh it under the upstream's lock   *)
(* when it is expired, and try once more after a 401.  An operator starts, *)
(* finishes and revokes authorizations; every config apply registers or    *)
(* unregisters the upstream; the process restarts.  An action is the code  *)
(* between two awaits; SecretsManager.set and .delete await nothing, but   *)
(* they write to the database and may raise.                               *)
(*                                                                         *)
(* A token set is a number, in the order the authorization server issued   *)
(* them.  What the server, the upstream and the clock do is a choice.      *)
(* Explicit endpoints are a discovery that takes no time.  Which refresh   *)
(* token an exchange carries, and hence whether the server takes it, is    *)
(* part of that choice: a request that waited for the lock brings the one  *)
(* it came with.                                                           *)
(***************************************************************************)
EXTENDS Naturals, FiniteSets

CONSTANTS
  Requests,   \* transport requests, each one run of async_auth_flow
  Flows,      \* authorizations, each named by its `state`
  Configs,    \* oauth2 sections an apply may register
  OwnClient,  \* those of them that name a client_id, and need no registration
  MaxTokens,  \* how many token sets the server issues
  NoConfig, NoRequest

ASSUME OAuthAssumption ==
  /\ IsFiniteSet(Requests) /\ IsFiniteSet(Flows)
  /\ Requests \cap Flows = {}
  /\ NoConfig \notin Configs /\ OwnClient \subseteq Configs
  /\ NoRequest \notin Requests
  /\ MaxTokens \in Nat

Tokens == 1..MaxTokens
NoToken == 0

VARIABLES
  config,       \* _configs[upstream]
  endpoints,    \* _endpoints[upstream]: the config they were resolved from
  client,       \* the credentials of a dynamic registration are among the secrets
  token,        \* _tokens[upstream]
  stored,       \* the token set among the secrets
  unwritten,    \* the last change of memory did not reach the secrets
  issued,       \* how many token sets the server has issued
  refreshable,  \* those that have a refresh token
  lapsed,       \* those that have reached expires_at - REFRESH_LEEWAY_S
  forced,       \* the token set in memory has expires_at set to 0 after a 401
  lock,         \* holder of _refresh_locks[upstream]
  pc,           \* where each request and each start_authorization is
  sent,         \* sent[r]: the token set of r's first attempt
  wanted,       \* wanted[a]: the config an awaited discovery is for
  pending,      \* the flows in _pending
  exchanging,   \* exchanging[f]: finish_authorization calls that await the server
  exchanges,    \* exchanges[f]: how many of them there have been
  unmarked      \* a registration may have brought back a token set that a 401 had expired

secretVars == <<client, stored>>
tokenVars == <<token, forced, unwritten>>
configVars == <<config, endpoints>>
serverVars == <<issued, refreshable, lapsed>>
requestVars == <<lock, sent, wanted>>
flowVars == <<pending, exchanging, exchanges>>
vars == <<secretVars, tokenVars, configVars, serverVars, requestVars, flowVars,
          pc, unmarked>>

Agents == Requests \cup Flows
\* The awaits inside `async with lock`.
InRefresh == {"discovering", "registering", "exchanging"}
InRequest == InRefresh \cup {"locking", "sent", "resent"}

Expired == forced \/ token \in lapsed

Init ==
  /\ config \in Configs
  /\ endpoints = NoConfig
  /\ client \in BOOLEAN
  /\ stored \in {NoToken} \cup
                 (IF client \/ OwnClient # {} THEN {1} \cap Tokens ELSE {})
  /\ token = stored
  /\ unwritten = FALSE
  /\ issued = stored
  /\ refreshable \in SUBSET (1..issued)
  /\ lapsed = {}
  /\ forced = FALSE
  /\ lock = NoRequest
  /\ pc = [a \in Agents |-> "new"]
  /\ sent = [r \in Requests |-> NoToken]
  /\ wanted = [a \in Agents |-> NoConfig]
  /\ pending = {}
  /\ exchanging = [f \in Flows |-> 0]
  /\ exchanges = [f \in Flows |-> 0]
  /\ unmarked = FALSE

(***************************************************************************)
(* Pieces of handlers.                                                     *)
(***************************************************************************)
\* Seeded fault: the new tokens are not written to the secrets.
PersistInMemory(t, written) ==
  /\ token' = t
  /\ forced' = FALSE
  /\ UNCHANGED <<stored, unwritten>>

\* _persist_tokens: first memory, then the secrets, where the write may raise.
Persist(t, written) ==
  /\ token' = t
  /\ forced' = FALSE
  /\ stored' = IF written THEN t ELSE stored
  /\ unwritten' = ~written

\* revoke_tokens: the same order; nothing is deleted where nothing is stored.
Drop(written) ==
  /\ written \/ stored # NoToken
  /\ token' = NoToken
  /\ forced' = FALSE
  /\ stored' = IF written THEN NoToken ELSE stored
  /\ unwritten' = ~written

\* The server issues a token set, with or without a refresh token.
Issue(renewable) ==
  /\ issued < MaxTokens
  /\ issued' = issued + 1
  /\ refreshable' = IF renewable THEN refreshable \cup {issued + 1} ELSE refreshable
  /\ UNCHANGED lapsed

\* From resolved endpoints on: _ensure_client_credentials, and the exchange.
\* known: whether the endpoints are resolved.  Where no config is registered
\* _require_config raises.
NextAwait(known) ==
  CASE ~known /\ config # NoConfig -> "discovering"
    [] config = NoConfig -> "done"
    [] known /\ ~client /\ config \in Configs \ OwnClient -> "registering"
    [] OTHER -> "exchanging"

(***************************************************************************)
(* get_access_token and _refresh.                                          *)
(***************************************************************************)
\* The token set in memory is returned and the request goes out with it, the
\* first time or, after a 401, the second.
Send(r) ==
  IF sent[r] = NoToken
  THEN pc' = [pc EXCEPT ![r] = "sent"] /\ sent' = [sent EXCEPT ![r] = token]
  ELSE pc' = [pc EXCEPT ![r] = "resent"] /\ UNCHANGED sent

\* The code inside the lock up to its first await.
Refresh(r) ==
  LET next == NextAwait(endpoints # NoConfig) IN
  /\ pc' = [pc EXCEPT ![r] = next]
  /\ lock' = IF next = "done" THEN NoRequest ELSE r
  /\ wanted' = IF next = "discovering" THEN [wanted EXCEPT ![r] = config] ELSE wanted
  /\ sent' = IF next = "done" THEN [sent EXCEPT ![r] = NoToken] ELSE sent

\* async_auth_flow of request r returns or raises.
End(r) ==
  /\ pc' = [pc EXCEPT ![r] = "done"]
  /\ sent' = [sent EXCEPT ![r] = NoToken]
  /\ wanted' = [wanted EXCEPT ![r] = NoConfig]

LockIsFree == lock = NoRequest /\ \A r \in Requests : pc[r] # "locking"

\* get_access_token by request r, at its start or after a 401 that has just
\* expired the token set in memory.
GetToken(r, expired) ==
  /\ \/ /\ token # NoToken /\ ~expired
        /\ Send(r)
        /\ UNCHANGED <<lock, wanted>>
     \/ /\ token = NoToken \/ (expired /\ token \notin refreshable)
        /\ End(r)
        /\ UNCHANGED lock
     \/ /\ token # NoToken /\ expired /\ token \in refreshable
        /\ LockIsFree
        /\ Refresh(r)
     \/ /\ token # NoToken /\ expired /\ token \in refreshable
        /\ ~LockIsFree
        /\ pc' = [pc EXCEPT ![r] = "locking"]
        /\ UNCHANGED <<lock, sent, wanted>>

Request(r) ==
  /\ pc[r] = "new"
  /\ GetToken(r, Expired)
  /\ UNCHANGED <<secretVars, tokenVars, configVars, serverVars, flowVars, unmarked>>

\* Any answer but a 401, the second answer of whatever status, or none.
Answered(r) ==
  /\ pc[r] \in {"sent", "resent"}
  /\ End(r)
  /\ UNCHANGED <<secretVars, tokenVars, configVars, serverVars, lock, flowVars, unmarked>>

\* A 401 to the first attempt expires whatever token set is in memory now.
Rejected(r) ==
  /\ pc[r] = "sent"
  /\ forced' = (token # NoToken)
  /\ GetToken(r, TRUE)
  /\ UNCHANGED <<secretVars, token, unwritten, configVars, serverVars, flowVars, unmarked>>

\* Seeded fault: the double check takes any cached token set.
LockGrantedToAny(r) ==
  /\ pc[r] = "locking" /\ lock = NoRequest
  /\ IF token # NoToken
     THEN Send(r) /\ UNCHANGED <<lock, wanted>>
     ELSE Refresh(r)
  /\ UNCHANGED <<secretVars, tokenVars, configVars, serverVars, flowVars, unmarked>>

\* Seeded fault: no lock, every request refreshes by itself.
LockNotNeeded(r) ==
  /\ pc[r] = "locking"
  /\ IF token # NoToken /\ ~Expired
     THEN Send(r) /\ UNCHANGED <<lock, wanted>>
     ELSE Refresh(r)
  /\ UNCHANGED <<secretVars, tokenVars, configVars, serverVars, flowVars, unmarked>>

LockGranted(r) ==
  /\ pc[r] = "locking" /\ lock = NoRequest
  /\ IF token # NoToken /\ ~Expired
     THEN Send(r) /\ UNCHANGED <<lock, wanted>>
     ELSE Refresh(r)
  /\ UNCHANGED <<secretVars, tokenVars, configVars, serverVars, flowVars, unmarked>>

\* Discovery answers.  The endpoints go into the cache whatever has become
\* of the config since.
Discovered(r) ==
  /\ pc[r] = "discovering" /\ r \in Requests
  /\ endpoints' = wanted[r]
  /\ IF config = NoConfig
     THEN End(r) /\ lock' = NoRequest
     ELSE /\ pc' = [pc EXCEPT ![r] = NextAwait(TRUE)]
          /\ wanted' = [wanted EXCEPT ![r] = NoConfig]
          /\ UNCHANGED <<lock, sent>>
  /\ UNCHANGED <<secretVars, tokenVars, config, serverVars, flowVars, unmarked>>

Registered(r) ==
  /\ pc[r] = "registering" /\ r \in Requests
  /\ client' = TRUE
  /\ pc' = [pc EXCEPT ![r] = "exchanging"]
  /\ UNCHANGED <<stored, tokenVars, configVars, serverVars, requestVars, flowVars,
                 unmarked>>

\* The refresh answers with a token set, which keeps the refresh token of
\* the old one where it brings none.
Refreshed(r) ==
  /\ pc[r] = "exchanging" /\ r \in Requests
  /\ Issue(TRUE)
  /\ Persist(issued + 1, TRUE)
  /\ pc' = [pc EXCEPT ![r] = IF sent[r] = NoToken THEN "sent" ELSE "resent"]
  /\ sent' = [sent EXCEPT ![r] = IF @ = NoToken THEN issued + 1 ELSE @]
  /\ lock' = NoRequest
  /\ UNCHANGED <<client, configVars, flowVars, wanted, unmarked>>

\* The same, but the secrets cannot be written: memory has the new token set
\* and the request fails.
RefreshedNotSaved(r) ==
  /\ pc[r] = "exchanging" /\ r \in Requests
  /\ Issue(TRUE)
  /\ Persist(issued + 1, FALSE)
  /\ End(r)
  /\ lock' = NoRequest
  /\ UNCHANGED <<client, configVars, flowVars, unmarked>>

\* A status of 400 and above drops whatever tokens there are now.
RefreshRefused(r, written) ==
  /\ pc[r] = "exchanging" /\ r \in Requests
  /\ Drop(written)
  /\ End(r)
  /\ lock' = NoRequest
  /\ UNCHANGED <<client, configVars, serverVars, flowVars, unmarked>>

\* Seeded fault: acquire and release in place of `async with`.
RaisesHoldingLock(r) ==
  /\ r \in Requests /\ pc[r] \in InRefresh
  /\ End(r)
  /\ UNCHANGED <<secretVars, tokenVars, configVars, serverVars, lock, flowVars, unmarked>>

\* Discovery or registration fails, the connection breaks, or an answer
\* cannot be used.
RefreshRaises(r) ==
  /\ r \in Requests /\ pc[r] \in InRefresh
  /\ End(r)
  /\ lock' = NoRequest
  /\ UNCHANGED <<secretVars, tokenVars, configVars, serverVars, flowVars, unmarked>>

\* The bridge cancels the request at whatever await it is.
Cancel(r) ==
  /\ pc[r] \in InRequest
  /\ End(r)
  /\ lock' = IF lock = r THEN NoRequest ELSE lock
  /\ UNCHANGED <<secretVars, tokenVars, configVars, serverVars, flowVars, unmarked>>

(***************************************************************************)
(* The operator: start_authorization, finish_authorization, revoke_tokens. *)
(***************************************************************************)
\* The last part of start_authorization: the flow is entered, and flows that
\* are older than AUTHORIZATION_TTL_S are removed.
EnterPending(f) == \E old \in SUBSET pending : pending' = (pending \cup {f}) \ old

FlowGoesOn(f, next) ==
  IF next = "exchanging"
  THEN pc' = [pc EXCEPT ![f] = "pending"] /\ EnterPending(f)
  ELSE pc' = [pc EXCEPT ![f] = next] /\ UNCHANGED pending

StartFlow(f) ==
  LET next == NextAwait(endpoints # NoConfig) IN
  /\ pc[f] = "new"
  /\ FlowGoesOn(f, next)
  /\ wanted' = IF next = "discovering" THEN [wanted EXCEPT ![f] = config] ELSE wanted
  /\ UNCHANGED <<secretVars, tokenVars, configVars, serverVars, lock, sent,
                 exchanging, exchanges, unmarked>>

FlowDiscovered(f) ==
  /\ pc[f] = "discovering"
  /\ endpoints' = wanted[f]
  /\ FlowGoesOn(f, NextAwait(TRUE))
  /\ wanted' = [wanted EXCEPT ![f] = NoConfig]
  /\ UNCHANGED <<secretVars, tokenVars, config, serverVars, lock, sent,
                 exchanging, exchanges, unmarked>>

FlowRegistered(f) ==
  /\ pc[f] = "registering"
  /\ client' = TRUE
  /\ FlowGoesOn(f, "exchanging")
  /\ UNCHANGED <<stored, tokenVars, configVars, serverVars, requestVars,
                 exchanging, exchanges, unmarked>>

FlowRaises(f) ==
  /\ pc[f] \in {"discovering", "registering"}
  /\ pc' = [pc EXCEPT ![f] = "done"]
  /\ wanted' = [wanted EXCEPT ![f] = NoConfig]
  /\ UNCHANGED <<secretVars, tokenVars, configVars, serverVars, lock, sent, flowVars,
                 unmarked>>

\* The browser comes back with the state of f, once or more often; only the
\* first time finds it in _pending.  Its own age, or a config that is gone,
\* ends the flow here.
Finish(f) ==
  /\ f \in pending
  /\ pending' = pending \ {f}
  /\ \/ UNCHANGED <<exchanging, exchanges>>
     \/ /\ config # NoConfig
        /\ exchanging' = [exchanging EXCEPT ![f] = @ + 1]
        /\ exchanges' = [exchanges EXCEPT ![f] = @ + 1]
  /\ UNCHANGED <<secretVars, tokenVars, configVars, serverVars, requestVars, pc, unmarked>>

\* Where the secrets cannot be written the callback reports an error, and the
\* token set is used all the same.
Finished(f, renewable, written) ==
  /\ exchanging[f] > 0
  /\ exchanging' = [exchanging EXCEPT ![f] = @ - 1]
  /\ Issue(renewable)
  /\ Persist(issued + 1, written)
  /\ UNCHANGED <<client, configVars, requestVars, pending, exchanges, pc, unmarked>>

FinishRaises(f) ==
  /\ exchanging[f] > 0
  /\ exchanging' = [exchanging EXCEPT ![f] = @ - 1]
  /\ UNCHANGED <<secretVars, tokenVars, configVars, serverVars, requestVars, pending,
                 exchanges, pc, unmarked>>

Revoke(written) ==
  /\ token # NoToken \/ stored # NoToken
  /\ Drop(written)
  /\ UNCHANGED <<client, configVars, serverVars, requestVars, flowVars, pc, unmarked>>

(***************************************************************************)
(* Config applies, restarts, time.                                         *)
(***************************************************************************)
\* register_upstream: pending flows go, persisted tokens are loaded over
\* those in memory, which may be newer ones that were not written or none
\* because their deletion failed.
Register(k) ==
  /\ config' = k
  /\ endpoints' = NoConfig
  /\ pending' = {}
  /\ token' = IF stored # NoToken THEN stored ELSE token
  /\ forced' = (forced /\ stored = NoToken)
  /\ unwritten' = (unwritten /\ stored = NoToken)
  /\ unmarked' = (unmarked \/ ((forced \/ unwritten) /\ stored # NoToken))
  /\ UNCHANGED <<secretVars, serverVars, requestVars, exchanging, exchanges, pc>>

Unregister ==
  /\ config # NoConfig \/ token # NoToken
  /\ config' = NoConfig
  /\ endpoints' = NoConfig
  /\ pending' = {}
  /\ token' = NoToken
  /\ forced' = FALSE
  /\ unwritten' = FALSE
  /\ unmarked' = (unmarked \/ forced \/ unwritten)
  /\ UNCHANGED <<secretVars, serverVars, requestVars, exchanging, exchanges, pc>>

\* The process ends and starts again with the configuration it had: what was
\* awaited is lost, the secrets are not.
Restart ==
  /\ endpoints' = NoConfig
  /\ token' = IF config = NoConfig THEN NoToken ELSE stored
  /\ forced' = FALSE
  /\ unwritten' = FALSE
  /\ lock' = NoRequest
  /\ pc' = [a \in Agents |-> IF pc[a] = "new" THEN "new" ELSE "done"]
  /\ pending' = {}
  /\ exchanging' = [f \in Flows |-> 0]
  /\ sent' = [r \in Requests |-> NoToken]
  /\ wanted' = [a \in Agents |-> NoConfig]
  /\ UNCHANGED <<secretVars, config, serverVars, exchanges, unmarked>>

Lapse(t) ==
  /\ t \in 1..issued \ lapsed
  /\ lapsed' = lapsed \cup {t}
  /\ UNCHANGED <<secretVars, tokenVars, configVars, issued, refreshable, requestVars,
                 flowVars, pc, unmarked>>

\* What the event loop and the time-outs of the HTTP clients bring about.
RequestGoesOn(r) ==
  \/ Answered(r) \/ Rejected(r) \/ LockGranted(r)
  \/ Discovered(r) \/ Registered(r)
  \/ Refreshed(r) \/ RefreshedNotSaved(r) \/ RefreshRaises(r)
  \/ \E written \in BOOLEAN : RefreshRefused(r, written)

FlowStep(f) ==
  \/ StartFlow(f) \/ FlowDiscovered(f) \/ FlowRegistered(f) \/ FlowRaises(f)
  \/ Finish(f) \/ FinishRaises(f)
  \/ \E renewable, written \in BOOLEAN : Finished(f, renewable, written)

Next ==
  \/ \E r \in Requests : Request(r) \/ RequestGoesOn(r) \/ Cancel(r)
  \/ \E f \in Flows : FlowStep(f)
  \/ Unregister \/ Restart
  \/ \E written \in BOOLEAN : Revoke(written)
  \/ \E k \in Configs : Register(k)
  \/ \E t \in Tokens : Lapse(t)

Spec == Init /\ [][Next]_vars

FairSpec == Spec /\ \A r \in Requests : WF_vars(RequestGoesOn(r))

(***************************************************************************)
(* Properties.                                                             *)
(***************************************************************************)
TypeOK ==
  /\ config \in Configs \cup {NoConfig}
  /\ endpoints \in Configs \cup {NoConfig}
  /\ client \in BOOLEAN
  /\ token \in 0..issued
  /\ stored \in 0..issued
  /\ issued \in 0..MaxTokens
  /\ refreshable \subseteq 1..issued
  /\ lapsed \subseteq 1..issued
  /\ forced \in BOOLEAN /\ (forced => token # NoToken)
  /\ unwritten \in BOOLEAN
  /\ lock \in Requests \cup {NoRequest}
  /\ pc \in [Agents -> InRequest \cup {"new", "pending", "done"}]
  /\ sent \in [Requests -> 0..issued]
  /\ wanted \in [Agents -> Configs \cup {NoConfig}]
  /\ pending \subseteq Flows
  /\ exchanging \in [Flows -> Nat]
  /\ exchanges \in [Flows -> Nat]
  /\ unmarked \in BOOLEAN

\* The tokens in use are those a restart would load, whatever was refreshed,
\* revoked, finished or registered in whatever order, unless the last write or
\* deletion of them failed: then what is among the secrets comes back with the
\* next registration or restart.
MemoryIsPersisted ==
  (config # NoConfig \/ token # NoToken) /\ ~unwritten => token = stored

\* Concurrent requests do not run refresh exchanges in parallel, through
\* failures, cancellations and restarts: who is inside holds the lock.
OneExchange == \A r \in Requests : pc[r] \in InRefresh <=> lock = r

\* The second attempt after a 401 carries another token than the first, also
\* when other requests refresh meanwhile and their writes fail; only a
\* registration that loads the rejected token set again can bring it back.
RetryHasNewToken ==
  [][\A r \in Requests :
       pc[r] # "resent" /\ pc'[r] = "resent" => token' # sent[r] \/ unmarked]_vars

\* A state is exchanged at most once, however often the browser comes back.
StateUsedOnce == \A f \in Flows : exchanges[f] <= 1

\* What the server takes once is sent once: no two refreshes at a time, no state
\* twice.
ExchangesAreExclusive == OneExchange /\ StateUsedOnce

\* A request that waits for the lock or for a server ends.
RequestEnds == \A r \in Requests : pc[r] \in InRequest ~> pc[r] = "done"
==============================================================================
