-------------------------- MODULE OAuthManagerProofs --------------------------
(***************************************************************************)
(* Proofs about OAuthManager, for any number of requests, authorizations,  *)
(* configurations and token sets.                                          *)
(*                                                                         *)
(* What makes the properties inductive: FlowsOnce says in which order a    *)
(* flow is entered among the pending ones, taken out and exchanged, and    *)
(* RejectedIsMarked that while a request that was answered 401 waits for   *)
(* its next token, the one it was rejected with is marked expired wherever *)
(* it still is: in memory, or in the secrets it may be loaded from; where  *)
(* a write failed only a registration can load it, and that is recorded.   *)
(***************************************************************************)
EXTENDS OAuthManager, TLAPS

Waiting == InRefresh \cup {"locking"}

FlowsOnce ==
  \A f \in Flows :
    /\ exchanges[f] <= 1
    /\ pc[f] \in {"new", "discovering", "registering"} => exchanges[f] = 0 /\ f \notin pending
    /\ f \in pending => exchanges[f] = 0

NewIsUnsent == \A r \in Requests : pc[r] = "new" => sent[r] = NoToken

\* The token set of the first attempt of r does not pass for a good one.
Marked(r) ==
  pc[r] \in Waiting /\ sent[r] # NoToken =>
    \/ unmarked = TRUE
    \/ /\ token = sent[r] => forced = TRUE
       /\ stored = sent[r] => unwritten = TRUE \/ (forced = TRUE /\ token = stored)
RejectedIsMarked == \A r \in Requests : Marked(r)

Inv ==
  /\ TypeOK /\ OneExchange /\ FlowsOnce /\ NewIsUnsent
  /\ MemoryIsPersisted /\ RejectedIsMarked

TokensOK ==
  /\ token \in 0..issued /\ stored \in 0..issued /\ issued \in 0..MaxTokens
  /\ refreshable \subseteq 1..issued /\ lapsed \subseteq 1..issued
  /\ forced \in BOOLEAN /\ (forced => token # NoToken)
  /\ unwritten \in BOOLEAN

(***************************************************************************)
(* The pieces that change the token set.                                   *)
(***************************************************************************)

\* A new token set is the last one issued, in both places or in memory.
LEMMA IssueKeeps ==
  ASSUME TypeOK, NEW renewable, NEW written \in BOOLEAN,
         Issue(renewable), Persist(issued + 1, written)
  PROVE  TokensOK' /\ MemoryIsPersisted'
<1>1. /\ issued \in Nat /\ issued <= MaxTokens /\ stored \in 0..issued
      /\ refreshable \subseteq 1..issued /\ lapsed \subseteq 1..issued
  BY OAuthAssumption DEF TypeOK
<1>2. /\ issued < MaxTokens /\ issued' = issued + 1 /\ lapsed' = lapsed
      /\ token' = issued + 1 /\ forced' = FALSE /\ unwritten' = ~written
      /\ stored' = IF written THEN issued + 1 ELSE stored
      /\ refreshable' \subseteq refreshable \cup {issued + 1}
  BY DEF Issue, Persist
<1>3. token' \in 0..issued' /\ stored' \in 0..issued'
  BY <1>1, <1>2
<1>4. issued' \in 0..MaxTokens
  BY <1>1, <1>2, OAuthAssumption
<1>5. lapsed' \subseteq 1..issued'
  BY <1>1, <1>2
<1>6. refreshable' \subseteq 1..issued'
  <2>1. refreshable \cup {issued + 1} \subseteq 1..(issued + 1)
    BY <1>1
  <2> QED BY <1>2, <2>1
<1>7. forced' \in BOOLEAN /\ (forced' => token' # NoToken) /\ unwritten' \in BOOLEAN
  BY <1>2
<1>8. MemoryIsPersisted'
  BY <1>2 DEF MemoryIsPersisted
<1> QED BY <1>3, <1>4, <1>5, <1>6, <1>7, <1>8 DEF TokensOK

\* Dropped tokens are gone in both places, or in memory.
LEMMA DropKeeps ==
  ASSUME TypeOK, NEW written \in BOOLEAN, Drop(written), UNCHANGED serverVars
  PROVE  TokensOK' /\ MemoryIsPersisted'
<1>1. /\ token' = 0 /\ forced' = FALSE /\ unwritten' = ~written
      /\ stored' = IF written THEN 0 ELSE stored
      /\ issued' = issued /\ refreshable' = refreshable /\ lapsed' = lapsed
  BY DEF Drop, serverVars, NoToken
<1>2. issued \in Nat /\ issued \in 0..MaxTokens /\ stored \in 0..issued
  BY OAuthAssumption DEF TypeOK
<1>3. token' \in 0..issued' /\ stored' \in 0..issued' /\ issued' \in 0..MaxTokens
  BY <1>1, <1>2
<1>4. refreshable' \subseteq 1..issued' /\ lapsed' \subseteq 1..issued'
  BY <1>1 DEF TypeOK
<1>5. forced' \in BOOLEAN /\ (forced' => token' # NoToken) /\ unwritten' \in BOOLEAN
  BY <1>1
<1>6. MemoryIsPersisted'
  BY <1>1 DEF MemoryIsPersisted
<1> QED BY <1>3, <1>4, <1>5, <1>6 DEF TokensOK

(***************************************************************************)
(* The steps of a request.                                                 *)
(***************************************************************************)

\* Request r goes on to q, with s as the token set of its first attempt.
Move(r, q, s, w) ==
  /\ pc' = [pc EXCEPT ![r] = q]
  /\ sent' = [sent EXCEPT ![r] = s]
  /\ wanted' = [wanted EXCEPT ![r] = w]
  /\ lock' = IF q \in InRefresh THEN r ELSE IF lock = r THEN NoRequest ELSE lock

\* It takes the lock only when it is free.
MayMove(r, q, s, w) ==
  /\ q \in InRequest \cup {"done"}
  /\ s \in Nat /\ w \in Configs \cup {NoConfig}
  /\ q \in InRefresh => lock \in {r, NoRequest}

\* The places of a request, and the lock with them.
LEMMA MoveKeeps ==
  ASSUME Inv, NEW r \in Requests, NEW q, NEW s, NEW w,
         Move(r, q, s, w), MayMove(r, q, s, w), UNCHANGED <<pending, exchanges>>
  PROVE  /\ lock' \in Requests \cup {NoRequest}
         /\ pc' \in [Agents -> InRequest \cup {"new", "pending", "done"}]
         /\ wanted' \in [Agents -> Configs \cup {NoConfig}]
         /\ OneExchange' /\ FlowsOnce' /\ NewIsUnsent'
<1> USE DEF Inv, TypeOK, Agents
<1>1. lock' \in Requests \cup {NoRequest}
  BY DEF Move
<1>2. pc' \in [Agents -> InRequest \cup {"new", "pending", "done"}]
  BY DEF Move, MayMove
<1>3. wanted' \in [Agents -> Configs \cup {NoConfig}]
  BY DEF Move, MayMove
<1>4. pc'[r] = q /\ \A a \in Agents \ {r} : pc'[a] = pc[a]
  BY DEF Move
<1>5. sent'[r] = s /\ \A e \in Requests \ {r} : sent'[e] = sent[e]
  BY DEF Move
<1>6. OneExchange'
  <2>1. pc'[r] \in InRefresh <=> lock' = r
    BY <1>4, OAuthAssumption DEF Move, MayMove
  <2>2. ASSUME NEW e \in Requests, e # r
        PROVE  pc'[e] \in InRefresh <=> lock' = e
    <3>1. pc[e] \in InRefresh <=> lock = e
      BY DEF OneExchange
    <3>2. lock' = e <=> lock = e
      BY <2>2, OAuthAssumption DEF Move, MayMove
    <3> QED BY <1>4, <2>2, <3>1, <3>2
  <2> QED BY <2>1, <2>2 DEF OneExchange
<1>7. FlowsOnce'
  <2>1. \A f \in Flows : pc'[f] = pc[f]
    BY <1>4, OAuthAssumption
  <2> QED BY <2>1 DEF FlowsOnce
<1>8. NewIsUnsent'
  <2>1. q # "new"
    BY DEF MayMove, InRequest, InRefresh
  <2> QED BY <1>4, <1>5, <2>1 DEF NewIsUnsent
<1> QED BY <1>1, <1>2, <1>3, <1>6, <1>7, <1>8

\* A step of a request that leaves the tokens alone: it may wait with the token
\* set that it was rejected with only if it did so before.
LEMMA MoveWithoutTokens ==
  ASSUME Inv, NEW r \in Requests, NEW q, NEW s, NEW w,
         Move(r, q, s, w), MayMove(r, q, s, w), UNCHANGED <<pending, exchanging, exchanges>>,
         UNCHANGED <<config, stored, token, forced, unwritten, issued, refreshable, lapsed, unmarked>>,
         client' \in BOOLEAN, endpoints' \in Configs \cup {NoConfig},
         s <= issued,
         q \in Waiting /\ s # NoToken => pc[r] \in Waiting /\ s = sent[r]
  PROVE  Inv'
<1>1. /\ lock' \in Requests \cup {NoRequest}
      /\ pc' \in [Agents -> InRequest \cup {"new", "pending", "done"}]
      /\ wanted' \in [Agents -> Configs \cup {NoConfig}]
      /\ OneExchange' /\ FlowsOnce' /\ NewIsUnsent'
  BY MoveKeeps
<1>2. TypeOK /\ MemoryIsPersisted /\ RejectedIsMarked
  BY DEF Inv
<1>3. sent' \in [Requests -> 0..issued']
  BY <1>2 DEF TypeOK, Move, MayMove
<1>4. TypeOK'
  BY <1>1, <1>2, <1>3 DEF TypeOK
<1>5. MemoryIsPersisted'
  BY <1>2 DEF MemoryIsPersisted
<1>6. ASSUME NEW e \in Requests PROVE Marked(e)'
  <2>1. pc'[r] = q /\ sent'[r] = s /\ (e # r => pc'[e] = pc[e] /\ sent'[e] = sent[e])
    BY <1>2 DEF Move, TypeOK, Agents
  <2>2. Marked(e)
    BY <1>2 DEF RejectedIsMarked
  <2> QED BY <2>1, <2>2 DEF Marked
<1> QED BY <1>1, <1>4, <1>5, <1>6 DEF Inv, RejectedIsMarked

\* Where the code inside the lock goes first.
LEMMA NextAwaitType ==
  ASSUME NEW known
  PROVE  NextAwait(known) \in InRefresh \cup {"done"}
BY Zenon DEF NextAwait, InRefresh

\* async_auth_flow ends: what it was at does not matter.
LEMMA Ending ==
  ASSUME Inv, NEW r \in Requests, End(r),
         lock' = IF lock = r THEN NoRequest ELSE lock
  PROVE  Move(r, "done", NoToken, NoConfig) /\ MayMove(r, "done", NoToken, NoConfig)
BY DEF End, Move, MayMove, InRefresh, NoToken

\* The request goes out.
LEMMA Sending ==
  ASSUME Inv, NEW r \in Requests, Send(r), lock # r, UNCHANGED <<lock, wanted>>
  PROVE  \E q \in {"sent", "resent"}, s \in 0..issued :
           Move(r, q, s, wanted[r]) /\ MayMove(r, q, s, wanted[r])
<1>1. TypeOK
  BY DEF Inv
<1>2. wanted' = [wanted EXCEPT ![r] = wanted[r]] /\ wanted[r] \in Configs \cup {NoConfig}
  BY <1>1 DEF TypeOK, Agents
<1>3. "sent" \notin InRefresh /\ "resent" \notin InRefresh
  BY DEF InRefresh
<1>4. CASE sent[r] = NoToken
  <2>1. pc' = [pc EXCEPT ![r] = "sent"] /\ sent' = [sent EXCEPT ![r] = token]
    BY <1>4 DEF Send
  <2>2. token \in 0..issued
    BY <1>1 DEF TypeOK
  <2>3. Move(r, "sent", token, wanted[r])
    BY <1>2, <1>3, <2>1 DEF Move
  <2>4. MayMove(r, "sent", token, wanted[r])
    BY <1>2, <1>3, <2>2 DEF MayMove, InRequest
  <2> QED BY <2>2, <2>3, <2>4
<1>5. CASE sent[r] # NoToken
  <2>1. pc' = [pc EXCEPT ![r] = "resent"] /\ sent' = sent
    BY <1>5 DEF Send
  <2>2. sent[r] \in 0..issued /\ sent' = [sent EXCEPT ![r] = sent[r]]
    BY <1>1, <2>1 DEF TypeOK
  <2>3. Move(r, "resent", sent[r], wanted[r])
    BY <1>2, <1>3, <2>1, <2>2 DEF Move
  <2>4. MayMove(r, "resent", sent[r], wanted[r])
    BY <1>2, <1>3, <2>2 DEF MayMove, InRequest
  <2> QED BY <2>2, <2>3, <2>4
<1> QED BY <1>4, <1>5

\* The lock is taken, or found to be of no use.
LEMMA Refreshing ==
  ASSUME Inv, NEW r \in Requests, Refresh(r), lock = NoRequest
  PROVE  \E q \in InRefresh \cup {"done"}, s \in {NoToken, sent[r]}, w \in Configs \cup {NoConfig} :
           Move(r, q, s, w) /\ MayMove(r, q, s, w)
<1>1. TypeOK
  BY DEF Inv
<1>2. PICK q \in InRefresh \cup {"done"} : q = NextAwait(endpoints # NoConfig)
  BY NextAwaitType
<1>3. /\ pc' = [pc EXCEPT ![r] = q]
      /\ lock' = IF q = "done" THEN NoRequest ELSE r
      /\ wanted' = IF q = "discovering" THEN [wanted EXCEPT ![r] = config] ELSE wanted
      /\ sent' = IF q = "done" THEN [sent EXCEPT ![r] = NoToken] ELSE sent
  BY <1>2 DEF Refresh
<1>4. PICK s \in {NoToken, sent[r]} : sent' = [sent EXCEPT ![r] = s]
  BY <1>1, <1>3 DEF TypeOK
<1>5. PICK w \in Configs \cup {NoConfig} : wanted' = [wanted EXCEPT ![r] = w]
  BY <1>1, <1>3 DEF TypeOK, Agents
<1>6. "done" \notin InRefresh /\ NoRequest # r
  BY OAuthAssumption DEF InRefresh
<1>7. s \in Nat
  BY <1>1, <1>4 DEF TypeOK, NoToken
<1>8. Move(r, q, s, w) /\ MayMove(r, q, s, w)
  BY <1>2, <1>3, <1>4, <1>5, <1>6, <1>7 DEF Move, MayMove, InRequest
<1> QED BY <1>8

\* get_access_token: it never leaves a request waiting that has no token to be
\* rejected.
LEMMA Getting ==
  ASSUME Inv, NEW r \in Requests, NEW expired, GetToken(r, expired),
         pc[r] \in {"new", "sent"}
  PROVE  \E q \in InRequest \cup {"done"}, s \in 0..issued, w \in Configs \cup {NoConfig} :
           /\ Move(r, q, s, w) /\ MayMove(r, q, s, w)
           /\ q \in Waiting /\ s # NoToken => s = sent[r] /\ token # NoToken
<1>1. TypeOK
  BY DEF Inv
<1>2. lock # r
  <2>1. pc[r] \notin InRefresh
    BY DEF InRefresh
  <2> QED BY <2>1 DEF Inv, OneExchange
<1>3. sent[r] \in 0..issued /\ NoToken \in 0..issued
  BY <1>1 DEF TypeOK, NoToken
<1>4. CASE Send(r) /\ UNCHANGED <<lock, wanted>>
  <2>1. /\ "sent" \notin Waiting /\ "resent" \notin Waiting
        /\ {"sent", "resent"} \subseteq InRequest
    BY DEF Waiting, InRefresh, InRequest
  <2>2. wanted[r] \in Configs \cup {NoConfig}
    BY <1>1 DEF TypeOK, Agents
  <2>3. PICK q \in {"sent", "resent"}, s \in 0..issued :
          Move(r, q, s, wanted[r]) /\ MayMove(r, q, s, wanted[r])
    BY <1>2, <1>4, Sending
  <2> QED BY <2>1, <2>2, <2>3
<1>5. CASE End(r) /\ UNCHANGED lock
  <2>1. Move(r, "done", NoToken, NoConfig) /\ MayMove(r, "done", NoToken, NoConfig)
    BY <1>2, <1>5, Ending
  <2> QED BY <1>3, <2>1 DEF MayMove
<1>6. CASE token # NoToken /\ LockIsFree /\ Refresh(r)
  <2>1. lock = NoRequest
    BY <1>6 DEF LockIsFree
  <2>2. PICK q \in InRefresh \cup {"done"}, s \in {NoToken, sent[r]}, w \in Configs \cup {NoConfig} :
          Move(r, q, s, w) /\ MayMove(r, q, s, w)
    BY <1>6, <2>1, Refreshing
  <2> QED BY <1>3, <1>6, <2>2 DEF MayMove
<1>7. CASE /\ token # NoToken /\ pc' = [pc EXCEPT ![r] = "locking"]
           /\ UNCHANGED <<lock, sent, wanted>>
  <2>1. sent' = [sent EXCEPT ![r] = sent[r]] /\ wanted' = [wanted EXCEPT ![r] = wanted[r]]
    BY <1>1, <1>7 DEF TypeOK, Agents
  <2>2. wanted[r] \in Configs \cup {NoConfig}
    BY <1>1 DEF TypeOK, Agents
  <2>3. "locking" \notin InRefresh /\ "locking" \in InRequest
    BY DEF InRefresh, InRequest
  <2>4. Move(r, "locking", sent[r], wanted[r])
    BY <1>2, <1>7, <2>1, <2>3 DEF Move
  <2>5. MayMove(r, "locking", sent[r], wanted[r])
    BY <1>3, <2>2, <2>3 DEF MayMove
  <2> QED BY <1>3, <1>7, <2>2, <2>3, <2>4, <2>5
<1> QED BY <1>4, <1>5, <1>6, <1>7 DEF GetToken

LEMMA RequestInv ==
  ASSUME Inv, NEW r \in Requests, Request(r)
  PROVE  Inv'
<1>1. TypeOK /\ NewIsUnsent
  BY DEF Inv
<1>2. PICK q \in InRequest \cup {"done"}, s \in 0..issued, w \in Configs \cup {NoConfig} :
        /\ Move(r, q, s, w) /\ MayMove(r, q, s, w)
        /\ q \in Waiting /\ s # NoToken => s = sent[r] /\ token # NoToken
  BY Getting DEF Request
<1>3. sent[r] = NoToken
  BY <1>1 DEF Request, NewIsUnsent
<1>4. s <= issued
  BY <1>1 DEF TypeOK
<1>5. client' \in BOOLEAN /\ endpoints' \in Configs \cup {NoConfig}
  BY <1>1 DEF Request, secretVars, configVars, TypeOK
<1> QED BY <1>2, <1>3, <1>4, <1>5, MoveWithoutTokens
     DEF Request, secretVars, tokenVars, configVars, serverVars, flowVars

LEMMA AnsweredInv ==
  ASSUME Inv, NEW r \in Requests, Answered(r)
  PROVE  Inv'
<1>1. TypeOK /\ OneExchange
  BY DEF Inv
<1>2. lock # r
  BY <1>1 DEF Answered, OneExchange, InRefresh
<1>3. Move(r, "done", NoToken, NoConfig) /\ MayMove(r, "done", NoToken, NoConfig)
  BY <1>2, Ending DEF Answered
<1>4. client' \in BOOLEAN /\ endpoints' \in Configs \cup {NoConfig} /\ NoToken <= issued
  BY <1>1 DEF Answered, secretVars, configVars, TypeOK, NoToken
<1> QED BY <1>3, <1>4, MoveWithoutTokens
     DEF Answered, secretVars, tokenVars, configVars, serverVars, flowVars

LEMMA RejectedInv ==
  ASSUME Inv, NEW r \in Requests, Rejected(r)
  PROVE  Inv'
<1>1. TypeOK /\ MemoryIsPersisted /\ RejectedIsMarked
  BY DEF Inv
<1>2. PICK q \in InRequest \cup {"done"}, s \in 0..issued, w \in Configs \cup {NoConfig} :
        /\ Move(r, q, s, w) /\ MayMove(r, q, s, w)
        /\ q \in Waiting /\ s # NoToken => s = sent[r] /\ token # NoToken
  BY Getting DEF Rejected
<1>3. /\ UNCHANGED <<client, stored, token, unwritten, config, endpoints, issued, refreshable,
                     lapsed, pending, exchanging, exchanges, unmarked>>
      /\ forced' = (token # NoToken)
  BY DEF Rejected, secretVars, configVars, serverVars, flowVars
<1>4. /\ lock' \in Requests \cup {NoRequest}
      /\ pc' \in [Agents -> InRequest \cup {"new", "pending", "done"}]
      /\ wanted' \in [Agents -> Configs \cup {NoConfig}]
      /\ OneExchange' /\ FlowsOnce' /\ NewIsUnsent'
  BY <1>2, <1>3, MoveKeeps
<1>5. sent' \in [Requests -> 0..issued']
  BY <1>1, <1>2, <1>3 DEF TypeOK, Move
<1>6. TypeOK'
  BY <1>1, <1>3, <1>4, <1>5 DEF TypeOK
<1>7. MemoryIsPersisted'
  BY <1>1, <1>3 DEF MemoryIsPersisted
<1>8. ASSUME NEW e \in Requests PROVE Marked(e)'
  <2>1. pc'[r] = q /\ sent'[r] = s /\ (e # r => pc'[e] = pc[e] /\ sent'[e] = sent[e])
    BY <1>1, <1>2 DEF Move, TypeOK, Agents
  <2>2. token # NoToken => forced' = TRUE
    BY <1>3
  <2>3. token # NoToken => unwritten = TRUE \/ token = stored
    BY <1>1 DEF MemoryIsPersisted, TypeOK
  <2>4. CASE e = r
    BY <1>2, <1>3, <2>1, <2>2, <2>3, <2>4 DEF Marked
  <2>5. CASE e # r
    <3>1. Marked(e)
      BY <1>1 DEF RejectedIsMarked
    <3>2. forced = TRUE => forced' = TRUE
      BY <1>1, <2>2 DEF TypeOK
    <3> QED BY <1>3, <2>1, <2>5, <3>1, <3>2 DEF Marked
  <2> QED BY <2>4, <2>5
<1> QED BY <1>4, <1>6, <1>7, <1>8 DEF Inv, RejectedIsMarked

LEMMA LockGrantedInv ==
  ASSUME Inv, NEW r \in Requests, LockGranted(r)
  PROVE  Inv'
<1>1. TypeOK
  BY DEF Inv
<1>2. /\ lock = NoRequest /\ pc[r] = "locking"
      /\ UNCHANGED <<config, stored, token, forced, unwritten, issued, refreshable, lapsed, unmarked,
                     client, endpoints, pending, exchanging, exchanges>>
  BY DEF LockGranted, secretVars, tokenVars, configVars, serverVars, flowVars
<1>3. client' \in BOOLEAN /\ endpoints' \in Configs \cup {NoConfig}
  BY <1>1, <1>2 DEF TypeOK
<1>4. CASE Send(r) /\ UNCHANGED <<lock, wanted>>
  <2>1. lock # r
    BY <1>2, OAuthAssumption
  <2>2. PICK q \in {"sent", "resent"}, s \in 0..issued :
          Move(r, q, s, wanted[r]) /\ MayMove(r, q, s, wanted[r])
    BY <1>4, <2>1, Sending
  <2>3. q \notin Waiting /\ s <= issued
    BY <1>1, <2>2 DEF Waiting, InRefresh, TypeOK
  <2> QED BY <1>2, <1>3, <2>2, <2>3, MoveWithoutTokens
<1>5. CASE Refresh(r)
  <2>1. PICK q \in InRefresh \cup {"done"}, s \in {NoToken, sent[r]}, w \in Configs \cup {NoConfig} :
          Move(r, q, s, w) /\ MayMove(r, q, s, w)
    BY <1>2, <1>5, Refreshing
  <2>2. pc[r] \in Waiting
    BY <1>2 DEF Waiting
  <2>3. s <= issued
    BY <1>1, <2>1 DEF TypeOK, NoToken
  <2> QED BY <1>2, <1>3, <2>1, <2>2, <2>3, MoveWithoutTokens
<1> QED BY <1>4, <1>5 DEF LockGranted

LEMMA DiscoveredInv ==
  ASSUME Inv, NEW r \in Requests, Discovered(r)
  PROVE  Inv'
<1>1. TypeOK /\ OneExchange
  BY DEF Inv
<1>2. lock = r /\ pc[r] \in Waiting
  BY <1>1 DEF Discovered, OneExchange, InRefresh, Waiting
<1>3. /\ UNCHANGED <<config, stored, token, forced, unwritten, issued, refreshable, lapsed, unmarked,
                     client, pending, exchanging, exchanges>>
      /\ endpoints' = wanted[r]
  BY DEF Discovered, secretVars, tokenVars, serverVars, flowVars
<1>4. client' \in BOOLEAN /\ endpoints' \in Configs \cup {NoConfig}
  BY <1>1, <1>3 DEF TypeOK, Agents
<1>5. CASE End(r) /\ lock' = NoRequest
  <2>1. Move(r, "done", NoToken, NoConfig) /\ MayMove(r, "done", NoToken, NoConfig)
    BY <1>2, <1>5, Ending
  <2>2. NoToken <= issued
    BY <1>1 DEF TypeOK, NoToken
  <2> QED BY <1>3, <1>4, <2>1, <2>2, MoveWithoutTokens
<1>6. CASE /\ config # NoConfig
           /\ pc' = [pc EXCEPT ![r] = NextAwait(TRUE)]
           /\ wanted' = [wanted EXCEPT ![r] = NoConfig]
           /\ UNCHANGED <<lock, sent>>
  <2>1. PICK q \in InRefresh : q = NextAwait(TRUE)
    BY <1>6, Zenon DEF NextAwait, InRefresh
  <2>2. sent' = [sent EXCEPT ![r] = sent[r]] /\ sent[r] \in Nat /\ sent[r] <= issued
    BY <1>1, <1>6 DEF TypeOK
  <2>3. Move(r, q, sent[r], NoConfig)
    BY <1>2, <1>6, <2>1, <2>2 DEF Move
  <2>4. MayMove(r, q, sent[r], NoConfig)
    BY <1>2, <2>1, <2>2 DEF MayMove, InRequest
  <2> QED BY <1>2, <1>3, <1>4, <2>2, <2>3, <2>4, MoveWithoutTokens
<1> QED BY <1>5, <1>6 DEF Discovered

LEMMA RegisteredInv ==
  ASSUME Inv, NEW r \in Requests, Registered(r)
  PROVE  Inv'
<1>1. TypeOK /\ OneExchange
  BY DEF Inv
<1>2. lock = r /\ pc[r] \in Waiting
  BY <1>1 DEF Registered, OneExchange, InRefresh, Waiting
<1>3. /\ UNCHANGED <<config, endpoints, stored, token, forced, unwritten, issued, refreshable, lapsed,
                     unmarked, lock, sent, wanted, pending, exchanging, exchanges>>
      /\ client' = TRUE /\ pc' = [pc EXCEPT ![r] = "exchanging"]
  BY DEF Registered, tokenVars, configVars, serverVars, requestVars, flowVars
<1>4. client' \in BOOLEAN /\ endpoints' \in Configs \cup {NoConfig}
  BY <1>1, <1>3 DEF TypeOK
<1>5. /\ sent' = [sent EXCEPT ![r] = sent[r]] /\ sent[r] \in Nat /\ sent[r] <= issued
      /\ wanted' = [wanted EXCEPT ![r] = wanted[r]] /\ wanted[r] \in Configs \cup {NoConfig}
  BY <1>1, <1>3 DEF TypeOK, Agents
<1>6. "exchanging" \in InRefresh
  BY DEF InRefresh
<1>7. Move(r, "exchanging", sent[r], wanted[r])
  BY <1>2, <1>3, <1>5, <1>6 DEF Move
<1>8. MayMove(r, "exchanging", sent[r], wanted[r])
  BY <1>2, <1>5, <1>6 DEF MayMove, InRequest
<1> QED BY <1>2, <1>3, <1>4, <1>5, <1>7, <1>8, MoveWithoutTokens

\* The exchange that an exclusive holder of the lock made brings a token set
\* that no request was rejected with.
LEMMA RefreshedInv ==
  ASSUME Inv, NEW r \in Requests, Refreshed(r)
  PROVE  Inv'
<1>1. TypeOK /\ OneExchange
  BY DEF Inv
<1>2. lock = r /\ issued \in Nat
  BY <1>1, OAuthAssumption DEF Refreshed, OneExchange, InRefresh, TypeOK
<1>3. /\ UNCHANGED <<config, endpoints, client, lapsed, unmarked, wanted, pending,
                     exchanging, exchanges>>
      /\ issued < MaxTokens /\ issued' = issued + 1 /\ lock' = NoRequest
      /\ token' = issued + 1 /\ stored' = issued + 1
  BY DEF Refreshed, Issue, Persist, configVars, flowVars
<1>4. PICK q \in {"sent", "resent"} : pc' = [pc EXCEPT ![r] = q]
  BY DEF Refreshed
<1>5. PICK s \in {issued + 1, sent[r]} : sent' = [sent EXCEPT ![r] = s]
  BY DEF Refreshed
<1>6. wanted' = [wanted EXCEPT ![r] = wanted[r]] /\ wanted[r] \in Configs \cup {NoConfig}
  BY <1>1, <1>3 DEF TypeOK, Agents
<1>7. q \notin InRefresh /\ q \notin Waiting /\ q \in InRequest
  BY <1>4 DEF InRefresh, InRequest, Waiting
<1>8. s \in 0..issued'
  BY <1>1, <1>2, <1>3, <1>5 DEF TypeOK
<1>9. Move(r, q, s, wanted[r]) /\ MayMove(r, q, s, wanted[r])
  <2>1. Move(r, q, s, wanted[r])
    BY <1>2, <1>3, <1>4, <1>5, <1>6, <1>7 DEF Move
  <2>2. s \in Nat
    BY <1>2, <1>3, <1>8
  <2> QED BY <1>6, <1>7, <2>1, <2>2 DEF MayMove
<1>10. /\ lock' \in Requests \cup {NoRequest}
       /\ pc' \in [Agents -> InRequest \cup {"new", "pending", "done"}]
       /\ wanted' \in [Agents -> Configs \cup {NoConfig}]
       /\ OneExchange' /\ FlowsOnce' /\ NewIsUnsent'
  BY <1>3, <1>9, MoveKeeps
<1>11. sent' \in [Requests -> 0..issued']
  BY <1>1, <1>2, <1>3, <1>5, <1>8 DEF TypeOK
<1>12. TypeOK'
  <2>1. TokensOK'
    BY <1>1, IssueKeeps DEF Refreshed
  <2> QED BY <1>1, <1>3, <1>10, <1>11, <2>1 DEF TypeOK, TokensOK
<1>13. MemoryIsPersisted'
  BY <1>1, IssueKeeps DEF Refreshed
<1>14. ASSUME NEW e \in Requests PROVE Marked(e)'
  <2>1. CASE e = r
    BY <1>1, <1>4, <1>7, <2>1 DEF Marked, TypeOK, Agents
  <2>2. CASE e # r
    <3>1. sent'[e] \in 0..issued
      BY <1>1, <1>5, <2>2 DEF TypeOK
    <3> QED BY <1>2, <1>3, <3>1 DEF Marked
  <2> QED BY <2>1, <2>2
<1> QED BY <1>10, <1>12, <1>13, <1>14 DEF Inv, RejectedIsMarked

\* What a request leaves behind that ends with a change of the tokens.
LEMMA EndsWithTokens ==
  ASSUME Inv, NEW r \in Requests, lock = r, End(r), lock' = NoRequest,
         UNCHANGED <<config, endpoints, client, unmarked, pending, exchanging, exchanges>>,
         issued <= issued', TokensOK', MemoryIsPersisted',
         \A e \in Requests :
           sent'[e] # NoToken => token' # sent'[e] /\ (stored' = sent'[e] => unwritten' = TRUE)
  PROVE  Inv'
<1>1. TypeOK
  BY DEF Inv
<1>2. Move(r, "done", NoToken, NoConfig) /\ MayMove(r, "done", NoToken, NoConfig)
  BY Ending
<1>3. /\ lock' \in Requests \cup {NoRequest}
      /\ pc' \in [Agents -> InRequest \cup {"new", "pending", "done"}]
      /\ wanted' \in [Agents -> Configs \cup {NoConfig}]
      /\ OneExchange' /\ FlowsOnce' /\ NewIsUnsent'
  BY <1>2, MoveKeeps
<1>4. issued \in Nat /\ issued' \in Nat /\ 0..issued \subseteq 0..issued'
  BY <1>1, OAuthAssumption DEF TypeOK, TokensOK
<1>5. sent' \in [Requests -> 0..issued']
  BY <1>1, <1>2, <1>4 DEF TypeOK, Move, NoToken
<1>6. TypeOK'
  BY <1>1, <1>3, <1>5 DEF TypeOK, TokensOK
<1>7. RejectedIsMarked'
  BY DEF RejectedIsMarked, Marked
<1> QED BY <1>3, <1>6, <1>7 DEF Inv

LEMMA RefreshedNotSavedInv ==
  ASSUME Inv, NEW r \in Requests, RefreshedNotSaved(r)
  PROVE  Inv'
<1>1. TypeOK /\ OneExchange
  BY DEF Inv
<1>2. lock = r /\ issued \in Nat
  BY <1>1, OAuthAssumption DEF RefreshedNotSaved, OneExchange, InRefresh, TypeOK
<1>3. /\ UNCHANGED <<config, endpoints, client, unmarked, pending, exchanging, exchanges>>
      /\ issued' = issued + 1 /\ token' = issued + 1 /\ unwritten' = TRUE
      /\ sent' = [sent EXCEPT ![r] = NoToken]
  BY DEF RefreshedNotSaved, Issue, Persist, End, configVars, flowVars
<1>4. TokensOK' /\ MemoryIsPersisted'
  BY <1>1, IssueKeeps DEF RefreshedNotSaved
<1>5. ASSUME NEW e \in Requests, sent'[e] # NoToken
      PROVE  token' # sent'[e]
  <2>1. sent'[e] = sent[e] /\ sent[e] \in 0..issued
    BY <1>1, <1>3, <1>5 DEF TypeOK
  <2> QED BY <1>2, <1>3, <2>1
<1>6. issued <= issued'
  BY <1>2, <1>3
<1> QED BY <1>2, <1>3, <1>4, <1>5, <1>6, EndsWithTokens DEF RefreshedNotSaved

LEMMA RefreshRefusedInv ==
  ASSUME Inv, NEW r \in Requests, NEW written \in BOOLEAN, RefreshRefused(r, written)
  PROVE  Inv'
<1>1. TypeOK /\ OneExchange
  BY DEF Inv
<1>2. lock = r /\ issued \in Nat
  BY <1>1, OAuthAssumption DEF RefreshRefused, OneExchange, InRefresh, TypeOK
<1>3. /\ UNCHANGED <<config, endpoints, client, issued, unmarked, pending, exchanging, exchanges>>
      /\ token' = NoToken /\ (stored' = NoToken \/ unwritten' = TRUE)
  BY DEF RefreshRefused, Drop, configVars, serverVars, flowVars
<1>4. TokensOK' /\ MemoryIsPersisted'
  BY <1>1, DropKeeps DEF RefreshRefused
<1>5. issued <= issued'
  BY <1>2, <1>3
<1> QED BY <1>2, <1>3, <1>4, <1>5, EndsWithTokens DEF RefreshRefused

\* A refresh that raises, or a request that is cancelled, gives the lock back
\* if it has it.
LEMMA EndsInv ==
  ASSUME Inv, NEW r \in Requests, End(r),
         lock' = IF lock = r THEN NoRequest ELSE lock,
         UNCHANGED <<secretVars, tokenVars, configVars, serverVars, flowVars, unmarked>>
  PROVE  Inv'
<1>1. Move(r, "done", NoToken, NoConfig) /\ MayMove(r, "done", NoToken, NoConfig)
  BY Ending
<1>2. client' \in BOOLEAN /\ endpoints' \in Configs \cup {NoConfig} /\ NoToken <= issued
  BY DEF Inv, secretVars, configVars, TypeOK, NoToken
<1> QED BY <1>1, <1>2, MoveWithoutTokens
     DEF secretVars, tokenVars, configVars, serverVars, flowVars

LEMMA RefreshRaisesInv ==
  ASSUME Inv, NEW r \in Requests, RefreshRaises(r)
  PROVE  Inv'
<1>1. lock = r
  BY DEF Inv, RefreshRaises, OneExchange
<1> QED BY <1>1, EndsInv DEF RefreshRaises

LEMMA CancelInv ==
  ASSUME Inv, NEW r \in Requests, Cancel(r)
  PROVE  Inv'
BY EndsInv DEF Cancel

(***************************************************************************)
(* The steps of an authorization.                                          *)
(***************************************************************************)

\* start_authorization goes on: it enters its flow only where it ends.
LEMMA FlowMoves ==
  ASSUME Inv, NEW f \in Flows,
         NEW q \in {"discovering", "registering", "pending", "done"},
         pc[f] \in {"new", "discovering", "registering"},
         pc' = [pc EXCEPT ![f] = q],
         pending' \subseteq pending \cup {f}, f \in pending' => q = "pending",
         UNCHANGED <<config, stored, token, forced, unwritten, issued, refreshable, lapsed, unmarked,
                     lock, sent, exchanging, exchanges>>,
         client' \in BOOLEAN, endpoints' \in Configs \cup {NoConfig},
         wanted' \in [Agents -> Configs \cup {NoConfig}]
  PROVE  Inv'
<1>1. TypeOK /\ OneExchange /\ FlowsOnce /\ NewIsUnsent /\ MemoryIsPersisted /\ RejectedIsMarked
  BY DEF Inv
<1>2. pc'[f] = q /\ \A a \in Agents \ {f} : pc'[a] = pc[a]
  BY <1>1 DEF TypeOK, Agents
<1>3. \A r \in Requests : pc'[r] = pc[r]
  BY <1>2, OAuthAssumption DEF Agents
<1>4. pc' \in [Agents -> InRequest \cup {"new", "pending", "done"}]
  BY <1>1 DEF TypeOK, InRequest, InRefresh
<1>5. pending' \subseteq Flows
  BY <1>1 DEF TypeOK
<1>6. TypeOK'
  BY <1>1, <1>4, <1>5 DEF TypeOK
<1>7. OneExchange' /\ NewIsUnsent'
  BY <1>1, <1>3 DEF OneExchange, NewIsUnsent
<1>8. ASSUME NEW g \in Flows
      PROVE  /\ exchanges'[g] <= 1
             /\ pc'[g] \in {"new", "discovering", "registering"}
                  => exchanges'[g] = 0 /\ g \notin pending'
             /\ g \in pending' => exchanges'[g] = 0
  <2>1. CASE g = f
    BY <1>1, <1>2, <2>1 DEF FlowsOnce
  <2>2. CASE g # f
    BY <1>1, <1>2, <2>2 DEF FlowsOnce, Agents
  <2> QED BY <2>1, <2>2
<1>9. MemoryIsPersisted'
  BY <1>1 DEF MemoryIsPersisted
<1>10. RejectedIsMarked'
  BY <1>1, <1>3 DEF RejectedIsMarked, Marked
<1> QED BY <1>6, <1>7, <1>8, <1>9, <1>10 DEF Inv, FlowsOnce

\* Where start_authorization goes after its endpoints are known, or are not.
LEMMA FlowGoes ==
  ASSUME NEW f \in Flows, NEW next \in InRefresh \cup {"done"}, FlowGoesOn(f, next),
         f \notin pending
  PROVE  \E q \in {"discovering", "registering", "pending", "done"} :
           /\ pc' = [pc EXCEPT ![f] = q]
           /\ pending' \subseteq pending \cup {f} /\ (f \in pending' => q = "pending")
<1>1. CASE next = "exchanging"
  BY <1>1 DEF FlowGoesOn, EnterPending
<1>2. CASE next # "exchanging"
  BY <1>2 DEF FlowGoesOn, InRefresh
<1> QED BY <1>1, <1>2

LEMMA StartFlowInv ==
  ASSUME Inv, NEW f \in Flows, StartFlow(f)
  PROVE  Inv'
<1>1. TypeOK /\ f \notin pending
  BY DEF Inv, StartFlow, FlowsOnce
<1>2. PICK next \in InRefresh \cup {"done"} : next = NextAwait(endpoints # NoConfig)
  BY NextAwaitType
<1>3. FlowGoesOn(f, next)
  BY <1>2 DEF StartFlow
<1>4. PICK q \in {"discovering", "registering", "pending", "done"} :
        /\ pc' = [pc EXCEPT ![f] = q]
        /\ pending' \subseteq pending \cup {f} /\ (f \in pending' => q = "pending")
  BY <1>1, <1>3, FlowGoes
<1>5. /\ UNCHANGED <<config, stored, token, forced, unwritten, issued, refreshable, lapsed, unmarked,
                     lock, sent, exchanging, exchanges, client, endpoints>>
      /\ pc[f] = "new"
  BY DEF StartFlow, secretVars, tokenVars, configVars, serverVars
<1>6. wanted' \in [Agents -> Configs \cup {NoConfig}]
  BY <1>1 DEF StartFlow, TypeOK, Agents
<1>7. client' \in BOOLEAN /\ endpoints' \in Configs \cup {NoConfig}
  BY <1>1, <1>5 DEF TypeOK
<1> QED BY <1>4, <1>5, <1>6, <1>7, FlowMoves

LEMMA FlowDiscoveredInv ==
  ASSUME Inv, NEW f \in Flows, FlowDiscovered(f)
  PROVE  Inv'
<1>1. TypeOK /\ f \notin pending
  BY DEF Inv, FlowDiscovered, FlowsOnce
<1>2. PICK next \in InRefresh \cup {"done"} : next = NextAwait(TRUE)
  BY NextAwaitType
<1>3. FlowGoesOn(f, next)
  BY <1>2 DEF FlowDiscovered
<1>4. PICK q \in {"discovering", "registering", "pending", "done"} :
        /\ pc' = [pc EXCEPT ![f] = q]
        /\ pending' \subseteq pending \cup {f} /\ (f \in pending' => q = "pending")
  BY <1>1, <1>3, FlowGoes
<1>5. /\ UNCHANGED <<config, stored, token, forced, unwritten, issued, refreshable, lapsed, unmarked,
                     lock, sent, exchanging, exchanges, client>>
      /\ pc[f] = "discovering"
      /\ endpoints' = wanted[f] /\ wanted' = [wanted EXCEPT ![f] = NoConfig]
  BY DEF FlowDiscovered, secretVars, tokenVars, serverVars
<1>6. wanted' \in [Agents -> Configs \cup {NoConfig}]
  BY <1>1, <1>5 DEF TypeOK, Agents
<1>7. client' \in BOOLEAN /\ endpoints' \in Configs \cup {NoConfig}
  BY <1>1, <1>5 DEF TypeOK, Agents
<1> QED BY <1>4, <1>5, <1>6, <1>7, FlowMoves

LEMMA FlowRegisteredInv ==
  ASSUME Inv, NEW f \in Flows, FlowRegistered(f)
  PROVE  Inv'
<1>1. TypeOK /\ f \notin pending
  BY DEF Inv, FlowRegistered, FlowsOnce
<1>2. FlowGoesOn(f, "exchanging") /\ "exchanging" \in InRefresh
  BY DEF FlowRegistered, InRefresh
<1>3. PICK q \in {"discovering", "registering", "pending", "done"} :
        /\ pc' = [pc EXCEPT ![f] = q]
        /\ pending' \subseteq pending \cup {f} /\ (f \in pending' => q = "pending")
  BY <1>1, <1>2, FlowGoes
<1>4. /\ UNCHANGED <<config, stored, token, forced, unwritten, issued, refreshable, lapsed, unmarked,
                     lock, sent, wanted, exchanging, exchanges, endpoints>>
      /\ pc[f] = "registering" /\ client' = TRUE
  BY DEF FlowRegistered, tokenVars, configVars, serverVars, requestVars
<1>5. /\ wanted' \in [Agents -> Configs \cup {NoConfig}]
      /\ client' \in BOOLEAN /\ endpoints' \in Configs \cup {NoConfig}
  BY <1>1, <1>4 DEF TypeOK
<1> QED BY <1>3, <1>4, <1>5, FlowMoves

LEMMA FlowRaisesInv ==
  ASSUME Inv, NEW f \in Flows, FlowRaises(f)
  PROVE  Inv'
<1>1. TypeOK /\ f \notin pending
  BY DEF Inv, FlowRaises, FlowsOnce
<1>2. /\ UNCHANGED <<config, stored, token, forced, unwritten, issued, refreshable, lapsed, unmarked,
                     lock, sent, pending, exchanging, exchanges, client, endpoints>>
      /\ pc[f] \in {"discovering", "registering"}
      /\ pc' = [pc EXCEPT ![f] = "done"] /\ wanted' = [wanted EXCEPT ![f] = NoConfig]
  BY DEF FlowRaises, secretVars, tokenVars, configVars, serverVars, flowVars
<1>3. /\ wanted' \in [Agents -> Configs \cup {NoConfig}]
      /\ client' \in BOOLEAN /\ endpoints' \in Configs \cup {NoConfig}
  BY <1>1, <1>2 DEF TypeOK, Agents
<1> QED BY <1>1, <1>2, <1>3, FlowMoves

\* The flow is taken out before its state is exchanged.
LEMMA FinishInv ==
  ASSUME Inv, NEW f \in Flows, Finish(f)
  PROVE  Inv'
<1>1. TypeOK /\ OneExchange /\ FlowsOnce /\ NewIsUnsent /\ MemoryIsPersisted /\ RejectedIsMarked
  BY DEF Inv
<1>2. UNCHANGED <<config, endpoints, client, stored, token, forced, unwritten, issued, refreshable, lapsed,
                  unmarked, lock, sent, wanted, pc>>
  BY DEF Finish, secretVars, tokenVars, configVars, serverVars, requestVars
<1>3. f \in pending /\ pending' = pending \ {f}
  BY DEF Finish
<1>4. exchanging' \in [Flows -> Nat] /\ exchanges' \in [Flows -> Nat]
  BY <1>1 DEF Finish, TypeOK
<1>5. TypeOK'
  BY <1>1, <1>2, <1>3, <1>4 DEF TypeOK
<1>6. FlowsOnce'
  <2>1. exchanges[f] = 0 /\ pc[f] \notin {"new", "discovering", "registering"}
    BY <1>1, <1>3 DEF FlowsOnce
  <2>2. exchanges'[f] <= 1 /\ \A g \in Flows \ {f} : exchanges'[g] = exchanges[g]
    BY <1>1, <2>1 DEF Finish, TypeOK
  <2> QED BY <1>1, <1>2, <1>3, <2>1, <2>2 DEF FlowsOnce
<1>7. OneExchange' /\ NewIsUnsent' /\ MemoryIsPersisted' /\ RejectedIsMarked'
  BY <1>1, <1>2 DEF OneExchange, NewIsUnsent, MemoryIsPersisted, RejectedIsMarked, Marked
<1> QED BY <1>5, <1>6, <1>7 DEF Inv

\* The exchange of a code brings a token set that no request was rejected with.
LEMMA FinishedInv ==
  ASSUME Inv, NEW f \in Flows, NEW renewable, NEW written \in BOOLEAN,
         Finished(f, renewable, written)
  PROVE  Inv'
<1>1. TypeOK /\ OneExchange /\ FlowsOnce /\ NewIsUnsent
  BY DEF Inv
<1>2. /\ UNCHANGED <<config, endpoints, client, unmarked, lock, sent, wanted, pc, pending,
                     exchanges>>
      /\ issued' = issued + 1 /\ token' = issued + 1
      /\ stored' = issued + 1 \/ unwritten' = TRUE
      /\ exchanging[f] > 0 /\ exchanging' = [exchanging EXCEPT ![f] = @ - 1]
  BY DEF Finished, Issue, Persist, configVars, requestVars
<1>3. TokensOK' /\ MemoryIsPersisted'
  BY <1>1, IssueKeeps DEF Finished
<1>4. exchanging' \in [Flows -> Nat]
  BY <1>1, <1>2 DEF TypeOK
<1>5. issued \in Nat /\ \A r \in Requests : sent[r] \in 0..issued
  BY <1>1, OAuthAssumption DEF TypeOK
<1>6. sent' \in [Requests -> 0..issued']
  <2>1. \A r \in Requests : sent'[r] \in 0..issued'
    BY <1>2, <1>5
  <2> QED BY <1>1, <1>2, <2>1 DEF TypeOK
<1>7. TypeOK'
  BY <1>1, <1>2, <1>3, <1>4, <1>6 DEF TypeOK, TokensOK
<1>8. OneExchange' /\ FlowsOnce' /\ NewIsUnsent'
  BY <1>1, <1>2 DEF OneExchange, FlowsOnce, NewIsUnsent
<1>9. ASSUME NEW r \in Requests PROVE Marked(r)'
  <2>1. sent'[r] # issued + 1
    BY <1>2, <1>5
  <2> QED BY <1>2, <2>1 DEF Marked
<1> QED BY <1>3, <1>7, <1>8, <1>9 DEF Inv, RejectedIsMarked

LEMMA FinishRaisesInv ==
  ASSUME Inv, NEW f \in Flows, FinishRaises(f)
  PROVE  Inv'
<1>1. TypeOK /\ OneExchange /\ FlowsOnce /\ NewIsUnsent /\ MemoryIsPersisted /\ RejectedIsMarked
  BY DEF Inv
<1>2. /\ UNCHANGED <<config, endpoints, client, stored, token, forced, unwritten, issued, refreshable,
                     lapsed, unmarked, lock, sent, wanted, pc, pending, exchanges>>
      /\ exchanging[f] > 0 /\ exchanging' = [exchanging EXCEPT ![f] = @ - 1]
  BY DEF FinishRaises, secretVars, tokenVars, configVars, serverVars, requestVars
<1>3. exchanging' \in [Flows -> Nat]
  BY <1>1, <1>2 DEF TypeOK
<1>4. TypeOK'
  BY <1>1, <1>2, <1>3 DEF TypeOK
<1>5. OneExchange' /\ FlowsOnce' /\ NewIsUnsent' /\ MemoryIsPersisted' /\ RejectedIsMarked'
  BY <1>1, <1>2 DEF OneExchange, FlowsOnce, NewIsUnsent, MemoryIsPersisted, RejectedIsMarked, Marked
<1> QED BY <1>4, <1>5 DEF Inv

(***************************************************************************)
(* Revocations, applies, restarts, time.                                   *)
(***************************************************************************)

LEMMA RevokeInv ==
  ASSUME Inv, NEW written \in BOOLEAN, Revoke(written)
  PROVE  Inv'
<1>1. TypeOK /\ OneExchange /\ FlowsOnce /\ NewIsUnsent
  BY DEF Inv
<1>2. /\ UNCHANGED <<config, endpoints, client, issued, unmarked, lock, sent, wanted, pc,
                     pending, exchanging, exchanges>>
      /\ token' = NoToken /\ (stored' = NoToken \/ unwritten' = TRUE)
  BY DEF Revoke, Drop, configVars, serverVars, requestVars, flowVars
<1>3. TokensOK' /\ MemoryIsPersisted'
  BY <1>1, DropKeeps DEF Revoke
<1>4. TypeOK'
  BY <1>1, <1>2, <1>3 DEF TypeOK, TokensOK
<1>5. OneExchange' /\ FlowsOnce' /\ NewIsUnsent'
  BY <1>1, <1>2 DEF OneExchange, FlowsOnce, NewIsUnsent
<1>6. RejectedIsMarked'
  BY <1>2 DEF RejectedIsMarked, Marked
<1> QED BY <1>3, <1>4, <1>5, <1>6 DEF Inv

\* What an apply leaves alone; a flow that it removes is not entered again.
LEMMA ApplyKeeps ==
  ASSUME Inv, UNCHANGED <<lock, sent, wanted, pc, exchanges>>, pending' = {}
  PROVE  OneExchange' /\ FlowsOnce' /\ NewIsUnsent'
BY DEF Inv, OneExchange, FlowsOnce, NewIsUnsent

\* A rejected token set that is loaded again is recorded as unmarked.
LEMMA RegisterInv ==
  ASSUME Inv, NEW k \in Configs, Register(k)
  PROVE  Inv'
<1>1. TypeOK /\ MemoryIsPersisted /\ RejectedIsMarked
  BY DEF Inv
<1>2. /\ UNCHANGED <<client, stored, issued, refreshable, lapsed, lock, sent, wanted, pc,
                     exchanging, exchanges>>
      /\ config' = k /\ endpoints' = NoConfig /\ pending' = {}
  BY DEF Register, secretVars, serverVars, requestVars
<1>3. OneExchange' /\ FlowsOnce' /\ NewIsUnsent'
  BY <1>2, ApplyKeeps
<1>4. CASE stored # NoToken
  <2>1. /\ token' = stored /\ forced' = FALSE /\ unwritten' = FALSE
        /\ unmarked' = (unmarked \/ forced \/ unwritten)
    BY <1>1, <1>4 DEF Register, TypeOK
  <2>2. TypeOK' /\ MemoryIsPersisted'
    BY <1>1, <1>2, <2>1 DEF TypeOK, MemoryIsPersisted
  <2>3. ASSUME NEW r \in Requests PROVE Marked(r)'
    <3>1. Marked(r)
      BY <1>1 DEF RejectedIsMarked
    <3>2. unmarked = TRUE \/ forced = TRUE \/ unwritten = TRUE => unmarked' = TRUE
      BY <2>1
    <3> QED BY <1>2, <2>1, <3>1, <3>2 DEF Marked
  <2> QED BY <1>3, <2>2, <2>3 DEF Inv, RejectedIsMarked
<1>5. CASE stored = NoToken
  <2>1. UNCHANGED <<token, forced, unwritten, unmarked>>
    BY <1>1, <1>5 DEF Register, TypeOK
  <2>2. TypeOK'
    BY <1>1, <1>2, <2>1 DEF TypeOK
  <2>3. MemoryIsPersisted'
    BY <1>1, <1>2, <1>5, <2>1 DEF MemoryIsPersisted
  <2>4. RejectedIsMarked'
    BY <1>1, <1>2, <2>1 DEF RejectedIsMarked, Marked
  <2> QED BY <1>3, <2>2, <2>3, <2>4 DEF Inv
<1> QED BY <1>4, <1>5

LEMMA UnregisterInv ==
  ASSUME Inv, Unregister
  PROVE  Inv'
<1>1. TypeOK /\ RejectedIsMarked
  BY DEF Inv
<1>2. /\ UNCHANGED <<client, stored, issued, refreshable, lapsed, lock, sent, wanted, pc,
                     exchanging, exchanges>>
      /\ config' = NoConfig /\ endpoints' = NoConfig /\ pending' = {}
      /\ token' = NoToken /\ forced' = FALSE /\ unwritten' = FALSE
      /\ unmarked' = (unmarked \/ forced \/ unwritten)
  BY DEF Unregister, secretVars, serverVars, requestVars
<1>3. token' \in 0..issued'
  BY <1>1, <1>2, OAuthAssumption DEF TypeOK, NoToken
<1>4. TypeOK'
  BY <1>1, <1>2, <1>3 DEF TypeOK
<1>5. MemoryIsPersisted'
  BY <1>2 DEF MemoryIsPersisted
<1>6. ASSUME NEW r \in Requests PROVE Marked(r)'
  <2>1. Marked(r)
    BY <1>1 DEF RejectedIsMarked
  <2>2. unmarked = TRUE \/ forced = TRUE \/ unwritten = TRUE => unmarked' = TRUE
    BY <1>2
  <2> QED BY <1>2, <2>1, <2>2 DEF Marked
<1>7. OneExchange' /\ FlowsOnce' /\ NewIsUnsent'
  BY <1>2, ApplyKeeps
<1> QED BY <1>4, <1>5, <1>6, <1>7 DEF Inv, RejectedIsMarked

\* After a restart nobody waits, and the tokens in use are the persisted ones.
LEMMA RestartInv ==
  ASSUME Inv, Restart
  PROVE  Inv'
<1>1. TypeOK /\ FlowsOnce
  BY DEF Inv
<1>2. /\ UNCHANGED <<client, stored, config, issued, refreshable, lapsed, exchanges, unmarked>>
      /\ endpoints' = NoConfig /\ forced' = FALSE /\ unwritten' = FALSE
      /\ lock' = NoRequest /\ pending' = {}
      /\ token' = IF config = NoConfig THEN NoToken ELSE stored
      /\ pc' = [a \in Agents |-> IF pc[a] = "new" THEN "new" ELSE "done"]
      /\ exchanging' = [f \in Flows |-> 0]
      /\ sent' = [r \in Requests |-> NoToken]
      /\ wanted' = [a \in Agents |-> NoConfig]
  BY DEF Restart, secretVars, serverVars
<1>3. NoToken \in 0..issued
  BY <1>1, OAuthAssumption DEF TypeOK, NoToken
<1>4. token' \in 0..issued' /\ sent' \in [Requests -> 0..issued']
  BY <1>1, <1>2, <1>3 DEF TypeOK
<1>5. pc' \in [Agents -> InRequest \cup {"new", "pending", "done"}]
  BY <1>2
<1>6. exchanging' \in [Flows -> Nat] /\ wanted' \in [Agents -> Configs \cup {NoConfig}]
  BY <1>2
<1>7. TypeOK'
  BY <1>1, <1>2, <1>4, <1>5, <1>6 DEF TypeOK
<1>8. \A a \in Agents : pc'[a] \in {"new", "done"} /\ (pc'[a] = "new" => pc[a] = "new")
  BY <1>2
<1>9. OneExchange'
  BY <1>2, <1>8, OAuthAssumption DEF OneExchange, InRefresh, Agents
<1>10. FlowsOnce'
  BY <1>1, <1>2, <1>8 DEF FlowsOnce, Agents
<1>11. NewIsUnsent' /\ RejectedIsMarked'
  BY <1>2 DEF NewIsUnsent, RejectedIsMarked, Marked
<1>12. MemoryIsPersisted'
  BY <1>2 DEF MemoryIsPersisted
<1> QED BY <1>7, <1>9, <1>10, <1>11, <1>12 DEF Inv

LEMMA LapseInv ==
  ASSUME Inv, NEW t, Lapse(t)
  PROVE  Inv'
<1>1. TypeOK /\ OneExchange /\ FlowsOnce /\ NewIsUnsent /\ MemoryIsPersisted /\ RejectedIsMarked
  BY DEF Inv
<1>2. /\ UNCHANGED <<config, endpoints, client, stored, token, forced, unwritten, issued, refreshable,
                     unmarked, lock, sent, wanted, pc, pending, exchanging, exchanges>>
      /\ t \in 1..issued /\ lapsed' = lapsed \cup {t}
  BY DEF Lapse, secretVars, tokenVars, configVars, requestVars, flowVars
<1>3. TypeOK'
  BY <1>1, <1>2 DEF TypeOK
<1>4. OneExchange' /\ FlowsOnce' /\ NewIsUnsent' /\ MemoryIsPersisted' /\ RejectedIsMarked'
  BY <1>1, <1>2 DEF OneExchange, FlowsOnce, NewIsUnsent, MemoryIsPersisted, RejectedIsMarked, Marked
<1> QED BY <1>3, <1>4 DEF Inv

LEMMA StutterInv ==
  ASSUME Inv, UNCHANGED vars
  PROVE  Inv'
<1>1. TypeOK /\ OneExchange /\ FlowsOnce /\ NewIsUnsent /\ MemoryIsPersisted /\ RejectedIsMarked
  BY DEF Inv
<1>2. UNCHANGED <<config, endpoints, client, stored, token, forced, unwritten, issued, refreshable, lapsed,
                  unmarked, lock, sent, wanted, pc, pending, exchanging, exchanges>>
  BY DEF vars, secretVars, tokenVars, configVars, serverVars, requestVars, flowVars
<1>3. TypeOK'
  BY <1>1, <1>2 DEF TypeOK
<1>4. OneExchange' /\ FlowsOnce' /\ NewIsUnsent' /\ MemoryIsPersisted' /\ RejectedIsMarked'
  BY <1>1, <1>2 DEF OneExchange, FlowsOnce, NewIsUnsent, MemoryIsPersisted, RejectedIsMarked, Marked
<1> QED BY <1>3, <1>4 DEF Inv

(***************************************************************************)
(* The theorems.                                                           *)
(***************************************************************************)

LEMMA InitInv ==
  ASSUME Init
  PROVE  Inv
<1>1. /\ config \in Configs /\ endpoints = NoConfig /\ client \in BOOLEAN
      /\ token = stored /\ issued = stored /\ refreshable \subseteq 1..issued /\ lapsed = {}
      /\ forced = FALSE /\ lock = NoRequest /\ pc = [a \in Agents |-> "new"]
      /\ sent = [r \in Requests |-> NoToken] /\ wanted = [a \in Agents |-> NoConfig]
      /\ pending = {} /\ exchanging = [f \in Flows |-> 0] /\ exchanges = [f \in Flows |-> 0]
      /\ unmarked = FALSE /\ unwritten = FALSE
  BY DEF Init
<1>2. stored \in 0..MaxTokens
  <2>1. stored = NoToken \/ stored \in Tokens
    BY DEF Init
  <2> QED BY <2>1, OAuthAssumption DEF NoToken, Tokens
<1>3. stored \in 0..issued /\ NoToken \in 0..issued
  BY <1>1, <1>2, OAuthAssumption DEF NoToken
<1>4. TypeOK
  BY <1>1, <1>2, <1>3, OAuthAssumption DEF TypeOK
<1>5. OneExchange
  BY <1>1, OAuthAssumption DEF OneExchange, InRefresh, Agents
<1>6. FlowsOnce /\ NewIsUnsent /\ MemoryIsPersisted
  BY <1>1 DEF FlowsOnce, NewIsUnsent, MemoryIsPersisted
<1>7. RejectedIsMarked
  BY <1>1 DEF RejectedIsMarked, Marked
<1> QED BY <1>4, <1>5, <1>6, <1>7 DEF Inv

LEMMA StepInv ==
  ASSUME Inv, [Next]_vars
  PROVE  Inv'
<1>1. ASSUME NEW r \in Requests, Request(r) \/ RequestGoesOn(r) \/ Cancel(r)
      PROVE  Inv'
  BY <1>1, RequestInv, AnsweredInv, RejectedInv, LockGrantedInv, DiscoveredInv, RegisteredInv,
     RefreshedInv, RefreshedNotSavedInv, RefreshRefusedInv, RefreshRaisesInv, CancelInv DEF RequestGoesOn
<1>2. ASSUME NEW f \in Flows, FlowStep(f)
      PROVE  Inv'
  BY <1>2, StartFlowInv, FlowDiscoveredInv, FlowRegisteredInv, FlowRaisesInv, FinishInv,
     FinishRaisesInv, FinishedInv DEF FlowStep
<1> QED BY <1>1, <1>2, RevokeInv, UnregisterInv, RestartInv, RegisterInv, LapseInv, StutterInv
     DEF Next

\* Every state of OAuthManager satisfies the inductive invariant.
THEOREM Invariance == Spec => []Inv
<1>1. Init => Inv
  BY InitInv
<1>2. Inv /\ [Next]_vars => Inv'
  BY StepInv
<1> QED BY <1>1, <1>2, PTL DEF Spec

\* Every variable keeps its type: memory and secrets have a token set that was
\* issued, and none is marked as rejected where there is none.
THEOREM TypeCorrect == Spec => []TypeOK
<1>1. Inv => TypeOK
  BY DEF Inv
<1> QED BY <1>1, Invariance, PTL

\* No two requests of an upstream run refresh exchanges at a time, and no state
\* of an authorization is exchanged twice, for any number of requests,
\* authorizations, cancellations and restarts.
THEOREM ServerIsAskedOnce == Spec => []ExchangesAreExclusive
<1>1. Inv => ExchangesAreExclusive
  BY DEF Inv, ExchangesAreExclusive, FlowsOnce, StateUsedOnce
<1> QED BY <1>1, Invariance, PTL

\* The token set in memory is the one a restart or a registration loads, from
\* any write that succeeded until one fails.
THEOREM MemoryHoldsWhatIsStored == Spec => []MemoryIsPersisted
<1>1. Inv => MemoryIsPersisted
  BY DEF Inv
<1> QED BY <1>1, Invariance, PTL

(***************************************************************************)
(* The second attempt.                                                     *)
(***************************************************************************)
Retries(r) == pc[r] # "resent" /\ pc'[r] = "resent" => token' # sent[r] \/ unmarked

\* A request that is not at a step stays where it is.
LEMMA RequestRetries ==
  ASSUME Inv, NEW e \in Requests, Request(e) \/ RequestGoesOn(e) \/ Cancel(e),
         NEW r \in Requests
  PROVE  Retries(r)
<1>1. /\ TypeOK /\ OneExchange /\ NewIsUnsent /\ MemoryIsPersisted /\ RejectedIsMarked
      /\ pc[e] \in InRequest \cup {"new", "pending", "done"}
  BY DEF Inv, TypeOK, Agents
<1>2. ASSUME NEW next, pc' = [pc EXCEPT ![e] = next], e = r => next # "resent"
      PROVE  Retries(r)
  BY <1>1, <1>2 DEF Retries, TypeOK, Agents
<1>3. CASE End(e)
  BY <1>2, <1>3 DEF End
<1>4. CASE Request(e)
  <2>1. sent[e] = NoToken
    BY <1>1, <1>4 DEF Request, NewIsUnsent
  <2>2. CASE Send(e)
    BY <1>2, <2>1, <2>2 DEF Send
  <2>3. CASE Refresh(e)
    <3>1. PICK next \in InRefresh \cup {"done"} : pc' = [pc EXCEPT ![e] = next]
      BY <2>3, NextAwaitType DEF Refresh
    <3> QED BY <1>2, <3>1 DEF InRefresh
  <2>4. CASE pc' = [pc EXCEPT ![e] = "locking"]
    BY <1>2, <2>4
  <2> QED BY <1>3, <1>4, <2>2, <2>3, <2>4 DEF Request, GetToken
<1>5. CASE Rejected(e)
  <2>1. CASE Refresh(e)
    <3>1. PICK next \in InRefresh \cup {"done"} : pc' = [pc EXCEPT ![e] = next]
      BY <2>1, NextAwaitType DEF Refresh
    <3> QED BY <1>2, <3>1 DEF InRefresh
  <2>2. CASE pc' = [pc EXCEPT ![e] = "locking"]
    BY <1>2, <2>2
  <2> QED BY <1>3, <1>5, <2>1, <2>2 DEF Rejected, GetToken
<1>6. CASE LockGranted(e)
  <2>1. CASE Refresh(e)
    <3>1. PICK next \in InRefresh \cup {"done"} : pc' = [pc EXCEPT ![e] = next]
      BY <2>1, NextAwaitType DEF Refresh
    <3> QED BY <1>2, <3>1 DEF InRefresh
  <2>2. CASE token # NoToken /\ ~Expired /\ Send(e)
    <3>1. pc[e] \in Waiting /\ token' = token
      BY <1>6 DEF LockGranted, Waiting, tokenVars
    <3>2. forced # TRUE
      BY <2>2 DEF Expired
    <3>3. Marked(e)
      BY <1>1 DEF RejectedIsMarked
    <3>4. CASE sent[e] = NoToken
      BY <1>2, <2>2, <3>4 DEF Send
    <3>5. CASE sent[e] # NoToken
      <4>1. token' # sent[e] \/ unmarked
        BY <3>1, <3>2, <3>3, <3>5 DEF Marked
      <4>2. pc' = [pc EXCEPT ![e] = "resent"]
        BY <2>2, <3>5 DEF Send
      <4>3. e # r => pc'[r] = pc[r]
        BY <1>1, <4>2 DEF TypeOK, Agents
      <4> QED BY <4>1, <4>3 DEF Retries
    <3> QED BY <3>4, <3>5
  <2> QED BY <1>6, <2>1, <2>2 DEF LockGranted
<1>7. CASE Discovered(e) \/ Registered(e)
  <2>1. PICK next \in InRefresh \cup {"done"} : pc' = [pc EXCEPT ![e] = next]
    BY <1>7, NextAwaitType DEF Discovered, Registered, End, InRefresh
  <2> QED BY <1>2, <2>1 DEF InRefresh
<1>8. CASE Refreshed(e)
  <2>1. token' # sent[e]
    <3>1. sent[e] \in 0..issued /\ issued \in Nat
      BY <1>1, OAuthAssumption DEF TypeOK
    <3> QED BY <1>8, <3>1 DEF Refreshed, Persist
  <2>2. e # r => pc'[r] = pc[r]
    BY <1>1, <1>8 DEF Refreshed, TypeOK, Agents
  <2> QED BY <2>1, <2>2 DEF Retries
<1> QED BY <1>3, <1>4, <1>5, <1>6, <1>7, <1>8
     DEF RequestGoesOn, Answered, RefreshedNotSaved, RefreshRefused, RefreshRaises, Cancel

LEMMA FlowRetries ==
  ASSUME Inv, NEW f \in Flows, FlowStep(f), NEW r \in Requests
  PROVE  Retries(r)
<1>1. TypeOK
  BY DEF Inv
<1>2. ASSUME NEW next, pc' = [pc EXCEPT ![f] = next]
      PROVE  Retries(r)
  <2>1. f # r
    BY OAuthAssumption
  <2> QED BY <1>1, <1>2, <2>1 DEF Retries, TypeOK, Agents
<1>3. (\E next : pc' = [pc EXCEPT ![f] = next]) \/ pc' = pc
  BY DEF FlowStep, StartFlow, FlowDiscovered, FlowRegistered, FlowRaises, FlowGoesOn, Finish,
         Finished, FinishRaises
<1> QED BY <1>2, <1>3 DEF Retries

\* After a 401 a request never tries again with the token set that was
\* rejected, unless a registration loaded it again as a good one.
THEOREM RetriesAreWorthwhile == Spec => RetryHasNewToken
<1>1. Inv /\ [Next]_vars => [\A r \in Requests : Retries(r)]_vars
  <2> SUFFICES ASSUME Inv, [Next]_vars, NEW r \in Requests PROVE Retries(r)
    OBVIOUS
  <2>1. ASSUME NEW e \in Requests, Request(e) \/ RequestGoesOn(e) \/ Cancel(e)
        PROVE  Retries(r)
    BY <2>1, RequestRetries
  <2>2. ASSUME NEW f \in Flows, FlowStep(f)
        PROVE  Retries(r)
    BY <2>2, FlowRetries
  <2>3. CASE Restart
    BY <2>3 DEF Restart, Retries, Agents
  <2>4. ASSUME pc' = pc PROVE Retries(r)
    BY <2>4 DEF Retries
  <2>5. CASE (\E written \in BOOLEAN : Revoke(written)) \/ Unregister \/ (\E k \in Configs : Register(k)) \/ (\E t \in Tokens : Lapse(t))
    BY <2>4, <2>5 DEF Revoke, Unregister, Register, Lapse
  <2>6. CASE UNCHANGED vars
    BY <2>4, <2>6 DEF vars
  <2> QED BY <2>1, <2>2, <2>3, <2>5, <2>6 DEF Next
<1>2. [\A r \in Requests : Retries(r)]_vars
        <=> [\A r \in Requests :
              pc[r] # "resent" /\ pc'[r] = "resent" => token' # sent[r] \/ unmarked]_vars
  BY DEF Retries
<1> QED BY <1>1, <1>2, Invariance, PTL DEF Spec, RetryHasNewToken
===============================================================================
