----------------------------- MODULE SessionProofs -----------------------------
(***************************************************************************)
(* Proofs about Session, and with it about Wizard, for any dialects, texts *)
(* and tokens and for any number of calls, sign-outs and reloads.          *)
(*                                                                         *)
(* WizardInv says at which step of the wizard a request may be in flight,  *)
(* that its one `busy` lets only one of them be, and what the server has   *)
(* stored by then.  AppInv says of the calls in flight whose credentials   *)
(* they carry, as long as nobody signed in across an earlier session.      *)
(***************************************************************************)
EXTENDS Session, TLAPS

(***************************************************************************)
(* Types.                                                                  *)
(***************************************************************************)
Server ==
  [stamped : BOOLEAN, done : BOOLEAN, expired : BOOLEAN, account : BOOLEAN,
   store : {"default", "other"}, valid : SUBSET (0..MaxTokens), issued : 0..MaxTokens]

Creds == Tokens \cup {NoToken}

Arguments ==
  /\ asked = [o \in Ops |-> asked[o]]
  /\ asked["test"] \subseteq Targets /\ asked["save"] \subseteq Targets
  /\ asked["status"] \subseteq {3, 4}
  /\ asked["configure"] \subseteq {"local", "federated"}
  /\ asked["login"] \subseteq {0} /\ asked["finish"] \subseteq {0}
  /\ asked["catalog"] \subseteq Creds \X Creds /\ asked["install"] \subseteq Creds \X Creds

Providers == {"none", "local", "federated"}
Roles == {"none", "member", "admin"}

CallKinds == {"boot", "me", "config", "legacy", "page", "login", "start", "logout"}

WellFormed(r) ==
  /\ r \in [kind : CallKinds, user : Users \cup {Legacy, NoUser}, n : Nat, bearer : Creds,
            cookie : Creds, live : BOOLEAN, reply : {"none", "ok", "refused", "failed"},
            role : Roles]
  /\ r.kind = "login" => r.user \in Users /\ r.n <= MaxTokens
  /\ r.kind \notin {"me", "config"} => r.live = TRUE

Types ==
  /\ TypeOK
  /\ server \in Server
  /\ Arguments
  /\ onboarding # "over" => calls = {}
  /\ \A r \in calls : WellFormed(r)
  /\ {edited, overtaken, crossed, out} \subseteq BOOLEAN
  /\ signOuts \in Nat
  /\ provider \in Providers

(***************************************************************************)
(* The invariant of the wizard.                                            *)
(***************************************************************************)
BusyOps == Ops \ {"catalog"}
Waiting(o) == IF o = "status" THEN asked[o] \ {4} ELSE asked[o]

\* The wizard waits for one request at a time, but for the status after
\* AuthStep, and for the catalog.
OneRequest ==
  \A o \in BusyOps, p \in BusyOps : \A a \in Waiting(o), b \in Waiting(p) :
    busy = TRUE /\ o = p /\ a = b

Stages ==
  /\ onboarding # "required" => step = 1 /\ \A o \in BusyOps : asked[o] = {}
  /\ asked["test"] # {} \/ asked["save"] # {} \/ 3 \in asked["status"] => step = 2
  /\ asked["configure"] # {} \/ asked["login"] # {} \/ 4 \in asked["status"] => step >= 3
  /\ asked["install"] # {} => step >= 4

\* Who is behind the stamp need not look at the server, and a wizard that is
\* not there yet can do nothing to a server that has it.
StampIsSure ==
  /\ asked["login"] # {} \/ 4 \in asked["status"] => server.stamped
  /\ onboarding = "required" /\ step <= 2 /\ server.stamped => ~Access

TestIsKnown ==
  /\ result = "ok" => tested = Target \/ edited = TRUE
  /\ \A t \in asked["test"] : t = Target \/ edited = TRUE

Has(t, u) == t # NoToken /\ t.user = u

\* A token of the wizard leads out of AuthStep, and is invalidated only from there.
TokenLeadsOn ==
  onboarding = "required" /\ Has(token, Admin) =>
    /\ step <= 3 => 4 \in asked["status"]
    /\ asked["configure"] # {} \/ asked["login"] # {} => overtaken

WizardInv ==
  /\ OneRequest /\ Stages /\ StampIsSure /\ TestIsKnown
  /\ StepFollowsServer /\ TokenIsAccepted /\ TokenLeadsOn

(***************************************************************************)
(* The invariant of the page behind it.                                    *)
(***************************************************************************)
\* No one is signed in, or will be, at a server that still requires the wizard.
Settled ==
  /\ server.valid # {} => ~Required
  /\ cookie # NoToken => server.stamped
  /\ token # NoToken /\ token.user \in Users => server.stamped
  /\ token # NoToken => ~Required \/ \E r \in calls : r.kind = "legacy"
  /\ authed \/ out => ~Required
  /\ out => onboarding # "required"
  /\ \A r \in calls : r.kind \in {"login", "start"} => server.stamped
  /\ \A r \in calls :
       r.kind = "logout" \/ (r.reply = "ok" /\ r.kind \in {"boot", "me", "config", "legacy"})
         => ~Required

SignedInOnly ==
  /\ onboarding # "over" => ~authed /\ ~gateBusy
  /\ ~authed => me = "none" /\ \A r \in calls : r.kind \in {"me", "config"} => ~r.live

GateKinds == {"login", "legacy", "start"}

\* The gate waits for one sign-in, while no one is signed in.
OneSignIn ==
  \A r \in calls : r.kind \in GateKinds =>
    gateBusy /\ ~authed /\ \A q \in calls : q.kind \in GateKinds => q = r

\* The probe of the cookie is sent without a token, and alone.
BootIsAlone ==
  \A r \in calls : r.kind = "boot" =>
    /\ calls = {r} /\ ~authed /\ ~gateBusy /\ r.bearer = NoToken
    /\ r.reply = "ok" => cookie # NoToken

Agree(a, b) == a = NoToken \/ b = NoToken \/ a = b

Probing(r) == r.kind \in {"boot", "me", "config"} /\ r.live

\* A probe that is listened to carries the credentials of the browser, but for a
\* token that was removed since.
ProbeIsOurs ==
  /\ Agree(cookie, token)
  /\ \A r \in calls : Probing(r) /\ r.reply = "none" =>
       /\ r.cookie = cookie /\ (r.bearer = token \/ token = NoToken)
       /\ Agree(r.cookie, r.bearer)

\* The user of the token is an administrator, or was one during this session.
Rightful(t) ==
  t # NoToken /\ t.user \in Users => roles[t.user] = "admin" \/ t.user \in fallen

AdminsOnly == Rightful(cookie) /\ Rightful(token)

\* Who is shown as an administrator, or is about to be, left the credentials of one.
AdminIsReal ==
  /\ authed /\ me = "admin" => AdminsOnly
  /\ \A r \in calls :
       Probing(r) /\ r.reply = "ok" /\ (r.kind = "config" \/ r.role = "admin") => AdminsOnly

\* No sign-in is in flight after a sign-out.
OutIsClean ==
  out => /\ ~authed /\ token = NoToken /\ cookie = NoToken
         /\ \A r \in calls : r.kind \notin GateKinds

Uncrossed == ~crossed => OneSignIn /\ BootIsAlone /\ ProbeIsOurs /\ AdminIsReal /\ OutIsClean

AppInv == Settled /\ SignedInOnly /\ Uncrossed

SessionInv == Types /\ WizardInv /\ AppInv

(***************************************************************************)
(* Constants, and the operators of the wizard.                             *)
(***************************************************************************)
LEMMA Constants ==
  /\ Member # Admin /\ Member # Legacy /\ Member # NoUser
  /\ Legacy # Admin /\ Legacy # NoUser /\ Admin # NoUser
  /\ NoToken \notin Tokens /\ NoToken \in Creds /\ Tokens \subseteq Creds
  /\ MaxTokens \in Nat /\ 0 \in 0..MaxTokens
<1>1. Tokens \subseteq [user : {Admin, Member, Legacy, NoUser}, jti : Nat]
  BY WizardAssumption DEF Tokens, Users
<1>2. 0 \in 0..MaxTokens
  BY WizardAssumption
<1> QED BY <1>1, <1>2, SessionAssumption, WizardAssumption DEF Creds

\* What a question, an answer, and an answer that is followed by a question make
\* of the requests in flight.
LEMMA AskedFacts ==
  ASSUME Arguments, NEW o \in Ops, NEW a
  PROVE  /\ Ask(o, a) => \A q \in Ops : asked'[q] = IF q = o THEN asked[q] \cup {a} ELSE asked[q]
         /\ Got(o, a) => \A q \in Ops : asked'[q] = IF q = o THEN asked[q] \ {a} ELSE asked[q]
         /\ Ask(o, a) \/ Got(o, a) => asked' = [q \in Ops |-> asked'[q]]
BY DEF Arguments, Ask, Got

LEMMA ThenFacts ==
  ASSUME Arguments, NEW o \in Ops, NEW a, NEW p \in Ops, NEW b, o # p
  PROVE  Then(o, a, p, b) =>
           /\ \A q \in Ops : asked'[q] = IF q = o THEN asked[q] \ {a}
                                         ELSE IF q = p THEN asked[q] \cup {b} ELSE asked[q]
           /\ asked' = [q \in Ops |-> asked'[q]]
<1> SUFFICES ASSUME Then(o, a, p, b)
             PROVE  /\ \A q \in Ops : asked'[q] = IF q = o THEN asked[q] \ {a}
                                                  ELSE IF q = p THEN asked[q] \cup {b} ELSE asked[q]
                    /\ asked' = [q \in Ops |-> asked'[q]]
  OBVIOUS
<1> DEFINE one == [q \in Ops |-> IF q = o THEN asked[q] \ {a} ELSE asked[q]]
<1>1. asked' = [one EXCEPT ![p] = @ \cup {b}]
  BY DEF Arguments, Then
<1> QED BY <1>1

AppStays ==
  UNCHANGED <<authed, checking, me, gateBusy, calls, fallen, people, signOuts, reloads,
              crossed, out>>

\* What the page behind the wizard has of it: the token may be removed, and the
\* server moves on.
LEMMA AppKept ==
  ASSUME SessionInv, AppStays, UNCHANGED <<cookie, onboarding>>, token' \in {token, NoToken},
         server.stamped => server'.stamped, Required' => Required, server'.valid # {} => ~Required'
  PROVE  AppInv'
<1>1. AppInv
  BY DEF SessionInv
<1>2. UNCHANGED <<authed, me, gateBusy, calls, crossed, out, cookie, fallen, roles>>
  BY DEF AppStays, people
<1>3. Settled'
  BY <1>1, <1>2 DEF AppInv, Settled
<1>4. SignedInOnly'
  BY <1>1, <1>2 DEF AppInv, SignedInOnly
<1>5. Uncrossed'
  <2>1. (OneSignIn /\ BootIsAlone) => (OneSignIn' /\ BootIsAlone')
    BY <1>2 DEF OneSignIn, BootIsAlone
  <2>2. ProbeIsOurs => ProbeIsOurs'
    BY <1>2 DEF ProbeIsOurs, Probing, Agree
  <2>3. AdminIsReal => AdminIsReal'
    BY <1>2 DEF AdminIsReal, Probing, AdminsOnly, Rightful
  <2>4. OutIsClean => OutIsClean'
    BY <1>2 DEF OutIsClean
  <2> QED BY <1>1, <1>2, <2>1, <2>2, <2>3, <2>4 DEF AppInv, Uncrossed
<1> QED BY <1>3, <1>4, <1>5 DEF AppInv

LEMMA AppUntouched ==
  ASSUME SessionInv, AppStays, UNCHANGED <<server, token, cookie, onboarding>>
  PROVE  AppInv'
<1>1. Required' = Required
  BY DEF Required, Access
<1>2. server.valid # {} => ~Required
  BY DEF SessionInv, AppInv, Settled
<1> QED BY <1>1, <1>2, AppKept

FormType == [dialect : Dialects, fields : Texts, raw : Texts \cup {NoText}, ack : BOOLEAN]

FormsType ==
  /\ form \in FormType /\ result \in {"none", "ok", "failed"} /\ tested \in Targets \cup {NoTarget}
  /\ edited \in BOOLEAN /\ provider \in Providers

LEMMA TypesKept ==
  ASSUME Types, AppStays, Arguments', FormsType',
         server' \in Server, token' \in Creds, cookie' \in Creds,
         onboarding' = onboarding, step' \in 1..5, busy' \in BOOLEAN, overtaken' \in BOOLEAN
  PROVE  Types'
<1>1. TypeOK'
  BY DEF Types, TypeOK, AppStays, people, Arguments, FormsType, FormType, Creds
<1>2. (onboarding # "over" => calls = {})' /\ (\A r \in calls : WellFormed(r))'
  BY DEF Types, AppStays, WellFormed
<1>3. edited' \in BOOLEAN /\ provider' \in Providers
  BY DEF FormsType
<1> QED BY <1>1, <1>2, <1>3 DEF Types, AppStays

LEMMA FormsFacts ==
  ASSUME Types
  PROVE  /\ FormsType /\ Target \in Targets
         /\ form0 \in FormType /\ NoTarget \in Targets \cup {NoTarget}
<1>1. FormsType
  BY DEF Types, TypeOK, FormsType, FormType
<1>2. Target \in Targets
  BY <1>1 DEF FormsType, FormType, Target, Targets
<1>3. (CHOOSE t \in Texts : TRUE) \in Texts
  BY WizardAssumption
<1>4. form0 \in FormType
  BY <1>3 DEF form0, FormType, Dialects
<1> QED BY <1>1, <1>2, <1>4

(***************************************************************************)
(* Clicks that ask for nothing.                                            *)
(***************************************************************************)
LEMMA MovedInv ==
  ASSUME SessionInv, AppStays, onboarding = "required",
         UNCHANGED <<server, token, cookie, onboarding, busy, asked, overtaken>>,
         \/ step' = step
         \/ step = 1 /\ step' = 2
         \/ step = 2 /\ step' = 3 /\ ~busy
         \/ step = 4 /\ step' = 5,
         FormsType', TestIsKnown'
  PROVE  SessionInv'
<1>1. Types /\ WizardInv
  BY DEF SessionInv
<1>2. /\ step \in 1..5 /\ step' \in 1..5 /\ server \in Server /\ token \in Creds /\ cookie \in Creds
      /\ busy \in BOOLEAN /\ overtaken \in BOOLEAN /\ Arguments
  BY <1>1 DEF Types, TypeOK, Creds
<1>3. Types'
  BY <1>1, <1>2, TypesKept DEF Arguments
<1>4. AppInv'
  BY AppUntouched
<1>5. OneRequest'
  BY <1>1 DEF WizardInv, OneRequest, Waiting
<1>6. ~busy => asked["test"] = {} /\ asked["save"] = {} /\ 3 \notin asked["status"]
  BY <1>1 DEF WizardInv, OneRequest, Waiting, BusyOps, Ops
<1>7. Stages'
  BY <1>1, <1>2, <1>6 DEF WizardInv, Stages
<1>8. StampIsSure' /\ StepFollowsServer'
  BY <1>1, <1>2 DEF WizardInv, StampIsSure, StepFollowsServer, StepDone, Access
<1>9. TokenIsAccepted' /\ TokenLeadsOn'
  BY <1>1, <1>2 DEF WizardInv, TokenIsAccepted, TokenLeadsOn, Accepts, Has
<1> QED BY <1>3, <1>4, <1>5, <1>7, <1>8, <1>9 DEF SessionInv, WizardInv

\* The form as it is left.
LEMMA LeftIsUntested ==
  ASSUME Types, LeaveStorage, asked'["test"] = {}, provider' \in Providers
  PROVE  FormsType' /\ TestIsKnown'
BY FormsFacts DEF LeaveStorage, FormsType, TestIsKnown

LEMMA WelcomeInv ==
  ASSUME SessionInv, AppStays, Welcome
  PROVE  SessionInv'
<1>1. FormsType /\ TestIsKnown
  BY FormsFacts DEF SessionInv, WizardInv
<1>2. FormsType' /\ TestIsKnown'
  BY <1>1 DEF Welcome, storage, auth, FormsType, TestIsKnown, Target
<1> QED BY <1>2, MovedInv DEF Welcome, Shown, browser, auth

LEMMA SkipStorageInv ==
  ASSUME SessionInv, AppStays, SkipStorage
  PROVE  SessionInv'
<1>1. asked'["test"] = {}
  BY DEF SkipStorage, SessionInv, WizardInv, OneRequest, Waiting, BusyOps, Ops
<1>2. FormsType' /\ TestIsKnown'
  BY <1>1, LeftIsUntested DEF SkipStorage, SessionInv, Types, auth
<1> QED BY <1>2, MovedInv DEF SkipStorage, Shown, browser, auth

LEMMA OtherClicksInv ==
  ASSUME SessionInv, AppStays,
         SkipFirst \/ (\E p \in {"local", "federated"} : ChooseProvider(p)) \/ \E b \in BOOLEAN : Select(b)
  PROVE  SessionInv'
<1>1. FormsType /\ TestIsKnown
  BY FormsFacts DEF SessionInv, WizardInv
<1>2. UNCHANGED <<form, result, tested, edited, asked>> /\ provider' \in Providers
  BY <1>1 DEF SkipFirst, ChooseProvider, Select, storage, auth, FormsType, Providers
<1>3. FormsType' /\ TestIsKnown'
  BY <1>1, <1>2 DEF FormsType, TestIsKnown, Target
<1>4. CASE SkipFirst
  BY <1>3, <1>4, MovedInv DEF SkipFirst, Shown, browser, auth
<1>5. ASSUME NEW p \in {"local", "federated"}, ChooseProvider(p)
      PROVE  SessionInv'
  BY <1>3, <1>5, MovedInv DEF ChooseProvider, Shown, browser, tab
<1>6. ASSUME NEW b \in BOOLEAN, Select(b)
      PROVE  SessionInv'
  BY <1>3, <1>6, MovedInv DEF Select, Shown, browser, tab, auth
<1> QED BY <1>4, <1>5, <1>6

LEMMA FormEditedInv ==
  ASSUME SessionInv, AppStays,
         \/ \E d \in Dialects : PickDialect(d)
         \/ \E t \in Texts : EditFields(t)
         \/ \E t \in Texts \cup {NoText} : EditRawUrl(t)
         \/ \E b \in BOOLEAN : Acknowledge(b)
  PROVE  SessionInv'
<1>1. FormsType /\ TestIsKnown
  BY FormsFacts DEF SessionInv, WizardInv
<1>2. /\ onboarding = "required"
      /\ UNCHANGED <<server, token, cookie, onboarding, step, busy, asked, overtaken, provider, tested>>
  BY DEF PickDialect, EditFields, EditRawUrl, Acknowledge, Untested, Shown, browser, tab, auth
<1>3. CASE \E b \in BOOLEAN : Acknowledge(b)
  <2>1. UNCHANGED <<result, edited>> /\ form' \in FormType /\ Target' = Target
    BY <1>1, <1>3 DEF Acknowledge, FormsType, FormType, Target
  <2>2. FormsType' /\ TestIsKnown'
    BY <1>1, <1>2, <2>1 DEF FormsType, TestIsKnown
  <2> QED BY <1>2, <2>2, MovedInv
<1>4. CASE ~\E b \in BOOLEAN : Acknowledge(b)
  <2>1. form' \in FormType /\ Untested
    BY <1>1, <1>4 DEF PickDialect, EditFields, EditRawUrl, FormsType, FormType
  <2>2. FormsType'
    BY <1>1, <1>2, <2>1 DEF FormsType, Untested
  <2>3. TestIsKnown'
    BY <1>1, <1>2, <2>1 DEF TestIsKnown, Untested
  <2> QED BY <1>2, <2>2, <2>3, MovedInv
<1> QED BY <1>3, <1>4

(***************************************************************************)
(* Clicks that ask for something: the wizard was not waiting, and is.      *)
(***************************************************************************)
LEMMA IdleFacts ==
  ASSUME Types, WizardInv, ~busy
  PROVE  \A o \in BusyOps : Waiting(o) = {}
BY DEF WizardInv, OneRequest

LEMMA AskingInv ==
  ASSUME SessionInv, AppStays, onboarding = "required", ~busy, busy' = TRUE,
         NEW o \in {"test", "save", "configure", "install", "finish"}, NEW a, Ask(o, a), Arguments',
         UNCHANGED <<server, token, cookie, onboarding, step>>,
         o \in {"test", "save"} => step = 2,
         o = "configure" => step = 3,
         o = "install" => step = 4,
         overtaken' \in BOOLEAN, overtaken => overtaken',
         o = "configure" /\ asked["status"] # {} => overtaken',
         FormsType', TestIsKnown'
  PROVE  SessionInv'
<1>1. Types /\ WizardInv
  BY DEF SessionInv
<1>2. /\ step \in 1..5 /\ server \in Server /\ token \in Creds /\ cookie \in Creds
      /\ overtaken \in BOOLEAN /\ Arguments
  BY <1>1 DEF Types, TypeOK, Creds
<1>3. Types'
  BY <1>1, <1>2, TypesKept
<1>4. AppInv'
  BY AppUntouched
<1>5. \A q \in Ops : asked'[q] = IF q = o THEN asked[q] \cup {a} ELSE asked[q]
  <2>1. o \in Ops
    BY DEF Ops
  <2> QED BY <1>2, <2>1, AskedFacts
<1>6. \A q \in BusyOps : Waiting(q) = {}
  BY <1>1, IdleFacts
<1>7. OneRequest'
  <2>1. \A q \in BusyOps : Waiting(q)' = IF q = o THEN {a} ELSE {}
    BY <1>5, <1>6 DEF Waiting, BusyOps
  <2> QED BY <2>1 DEF OneRequest
<1>8. Stages'
  BY <1>1, <1>2, <1>5 DEF WizardInv, Stages, BusyOps, Ops
<1>9. StampIsSure' /\ StepFollowsServer'
  BY <1>1, <1>2, <1>5 DEF WizardInv, StampIsSure, StepFollowsServer, StepDone, Access, Ops
<1>10. TokenIsAccepted'
  BY <1>1, <1>2 DEF WizardInv, TokenIsAccepted, Accepts
<1>11. TokenLeadsOn'
  BY <1>1, <1>2, <1>5 DEF WizardInv, TokenLeadsOn, Has, Ops
<1> QED BY <1>3, <1>4, <1>7, <1>8, <1>9, <1>10, <1>11 DEF SessionInv, WizardInv

LEMMA RunTestInv ==
  ASSUME SessionInv, AppStays, RunTest
  PROVE  SessionInv'
<1>1. Types /\ WizardInv /\ Arguments /\ FormsType /\ Target \in Targets
  BY FormsFacts DEF SessionInv, Types
<1>2. /\ onboarding = "required" /\ step = 2 /\ ~busy /\ busy' = TRUE
      /\ result' = "none" /\ edited' = FALSE /\ Ask("test", Target)
      /\ UNCHANGED <<server, token, cookie, onboarding, step, form, tested, provider, overtaken>>
  BY DEF RunTest, Shown, browser, auth
<1>3. /\ \A q \in Ops : asked'[q] = IF q = "test" THEN asked[q] \cup {Target} ELSE asked[q]
      /\ asked' = [q \in Ops |-> asked'[q]]
  BY <1>1, <1>2, AskedFacts DEF Ops
<1>4. Arguments'
  BY <1>1, <1>3 DEF Arguments, Ops
<1>5. asked["test"] = {}
  BY <1>1, <1>2 DEF WizardInv, OneRequest, Waiting, BusyOps, Ops
<1>6. Target' = Target
  BY <1>2 DEF Target
<1>7. FormsType' /\ TestIsKnown'
  BY <1>1, <1>2, <1>3, <1>5, <1>6 DEF FormsType, TestIsKnown, Ops
<1>8. overtaken' \in BOOLEAN /\ (overtaken => overtaken')
  BY <1>1, <1>2 DEF Types
<1> QED BY <1>2, <1>4, <1>7, <1>8, AskingInv

LEMMA SaveAndContinueInv ==
  ASSUME SessionInv, AppStays, SaveAndContinue
  PROVE  SessionInv'
<1>1. Types /\ TestIsKnown /\ Arguments /\ FormsType /\ Target \in Targets
  BY FormsFacts DEF SessionInv, WizardInv, Types
<1>2. /\ onboarding = "required" /\ step = 2 /\ ~busy /\ busy' = TRUE /\ Ask("save", Target)
      /\ UNCHANGED <<server, token, cookie, onboarding, step, form, result, tested, edited, provider,
                     overtaken>>
  BY DEF SaveAndContinue, SaveDisabled, Shown, browser, auth, storage
<1>3. /\ \A q \in Ops : asked'[q] = IF q = "save" THEN asked[q] \cup {Target} ELSE asked[q]
      /\ asked' = [q \in Ops |-> asked'[q]]
  BY <1>1, <1>2, AskedFacts DEF Ops
<1>4. Arguments'
  BY <1>1, <1>3 DEF Arguments, Ops
<1>5. FormsType' /\ TestIsKnown'
  BY <1>1, <1>2, <1>3 DEF FormsType, TestIsKnown, Target, Ops
<1>6. overtaken' \in BOOLEAN /\ (overtaken => overtaken')
  BY <1>1, <1>2 DEF Types
<1> QED BY <1>2, <1>4, <1>5, <1>6, AskingInv

LEMMA SubmitInv ==
  ASSUME SessionInv, AppStays, Submit
  PROVE  SessionInv'
<1>1. Types /\ TestIsKnown /\ Arguments /\ FormsType
  BY FormsFacts DEF SessionInv, WizardInv, Types
<1>2. /\ onboarding = "required" /\ step = 3 /\ ~busy /\ busy' = TRUE /\ Ask("configure", provider)
      /\ overtaken' = (overtaken \/ asked["status"] # {})
      /\ UNCHANGED <<server, token, cookie, onboarding, step, form, result, tested, edited,
                     provider>>
  BY DEF Submit, Shown, browser, storage
<1>3. /\ \A q \in Ops : asked'[q] = IF q = "configure" THEN asked[q] \cup {provider} ELSE asked[q]
      /\ asked' = [q \in Ops |-> asked'[q]]
  BY <1>1, <1>2, AskedFacts DEF Ops
<1>4. provider \in {"local", "federated"}
  BY DEF Submit, SessionInv, Types, Providers
<1>5. Arguments'
  BY <1>1, <1>3, <1>4 DEF Arguments, Ops
<1>6. FormsType' /\ TestIsKnown'
  BY <1>1, <1>2, <1>3 DEF FormsType, TestIsKnown, Target, Ops
<1>7. overtaken' \in BOOLEAN /\ (overtaken => overtaken')
  BY <1>1, <1>2 DEF Types
<1> QED BY <1>2, <1>5, <1>6, <1>7, AskingInv

LEMMA InstallInv ==
  ASSUME SessionInv, AppStays, Install
  PROVE  SessionInv'
<1>1. Types /\ TestIsKnown /\ Arguments /\ FormsType /\ <<token, cookie>> \in Creds \X Creds
  BY FormsFacts DEF SessionInv, WizardInv, Types, TypeOK, Creds
<1>2. /\ onboarding = "required" /\ step = 4 /\ ~busy /\ busy' = TRUE
      /\ Ask("install", <<token, cookie>>)
      /\ UNCHANGED <<server, token, cookie, onboarding, step, form, result, tested, edited, provider,
                     overtaken>>
  BY DEF Install, Shown, browser, auth, storage
<1>3. /\ \A q \in Ops : asked'[q] = IF q = "install" THEN asked[q] \cup {<<token, cookie>>}
                                     ELSE asked[q]
      /\ asked' = [q \in Ops |-> asked'[q]]
  BY <1>1, <1>2, AskedFacts DEF Ops
<1>4. Arguments'
  BY <1>1, <1>3 DEF Arguments, Ops
<1>5. FormsType' /\ TestIsKnown'
  BY <1>1, <1>2, <1>3 DEF FormsType, TestIsKnown, Target, Ops
<1>6. overtaken' \in BOOLEAN /\ (overtaken => overtaken')
  BY <1>1, <1>2 DEF Types
<1> QED BY <1>2, <1>4, <1>5, <1>6, AskingInv

LEMMA FinishInv ==
  ASSUME SessionInv, AppStays, Finish
  PROVE  SessionInv'
<1>1. Types /\ TestIsKnown /\ Arguments /\ FormsType
  BY FormsFacts DEF SessionInv, WizardInv, Types
<1>2. /\ onboarding = "required" /\ ~busy /\ busy' = TRUE /\ Ask("finish", 0)
      /\ UNCHANGED <<server, token, cookie, onboarding, step, form, result, tested, edited, provider,
                     overtaken>>
  BY DEF Finish, Shown, browser, auth, storage
<1>3. /\ \A q \in Ops : asked'[q] = IF q = "finish" THEN asked[q] \cup {0} ELSE asked[q]
      /\ asked' = [q \in Ops |-> asked'[q]]
  BY <1>1, <1>2, AskedFacts DEF Ops
<1>4. Arguments'
  BY <1>1, <1>3 DEF Arguments, Ops
<1>5. FormsType' /\ TestIsKnown'
  BY <1>1, <1>2, <1>3 DEF FormsType, TestIsKnown, Target, Ops
<1>6. overtaken' \in BOOLEAN /\ (overtaken => overtaken')
  BY <1>1, <1>2 DEF Types
<1> QED BY <1>2, <1>4, <1>5, <1>6, AskingInv

(***************************************************************************)
(* Answers.                                                                *)
(***************************************************************************)
\* Who is answered was the only one that was waited for.
LEMMA AloneFacts ==
  ASSUME WizardInv, NEW o \in BusyOps, NEW a \in Waiting(o)
  PROVE  /\ busy = TRUE /\ onboarding = "required"
         /\ \A q \in BusyOps : Waiting(q) = IF q = o THEN {a} ELSE {}
<1>1. asked[o] # {}
  BY DEF Waiting
<1> QED BY <1>1 DEF WizardInv, OneRequest, Stages

LEMMA TestAnsweredInv ==
  ASSUME SessionInv, AppStays, NEW target \in asked["test"], NEW ok \in BOOLEAN,
         TestAnswered(target, ok)
  PROVE  SessionInv'
<1>1. Types /\ WizardInv /\ Arguments /\ FormsType
  BY FormsFacts DEF SessionInv, Types
<1>2. /\ busy' = FALSE /\ result' = (IF ok THEN "ok" ELSE "failed")
      /\ tested' = (IF ok THEN target ELSE tested) /\ Got("test", target)
      /\ UNCHANGED <<server, token, cookie, onboarding, step, form, edited, provider, overtaken>>
  BY DEF TestAnswered, browser, auth
<1>3. /\ \A q \in Ops : asked'[q] = IF q = "test" THEN asked[q] \ {target} ELSE asked[q]
      /\ asked' = [q \in Ops |-> asked'[q]]
  BY <1>1, <1>2, AskedFacts DEF Ops
<1>4. /\ "test" \in BusyOps /\ target \in Waiting("test")
  BY DEF BusyOps, Ops, Waiting
<1>5. \A q \in BusyOps : Waiting(q) = IF q = "test" THEN {target} ELSE {}
  BY <1>1, <1>4, AloneFacts
<1>6. Types'
  <2>1. Arguments'
    BY <1>1, <1>3 DEF Arguments, Ops
  <2>2. target \in Targets
    BY <1>1 DEF Arguments
  <2>3. FormsType'
    BY <1>1, <1>2, <2>2 DEF FormsType
  <2> QED BY <1>1, <1>2, <2>1, <2>3, TypesKept DEF Types, TypeOK, Creds
<1>7. AppInv'
  BY <1>2, AppUntouched
<1>8. OneRequest'
  <2>1. \A q \in BusyOps : Waiting(q)' = {}
    BY <1>3, <1>5 DEF Waiting, BusyOps
  <2> QED BY <2>1 DEF OneRequest
<1>9. Stages' /\ StampIsSure' /\ StepFollowsServer'
  BY <1>1, <1>2, <1>3
     DEF WizardInv, Stages, StampIsSure, StepFollowsServer, StepDone, Access, BusyOps, Ops
<1>10. TestIsKnown'
  <2>1. Target' = Target
    BY <1>2 DEF Target
  <2> QED BY <1>1, <1>2, <1>3, <2>1 DEF WizardInv, TestIsKnown, Ops
<1>11. TokenIsAccepted' /\ TokenLeadsOn'
  BY <1>1, <1>2, <1>3 DEF WizardInv, TokenIsAccepted, Accepts, TokenLeadsOn, Has, Ops
<1> QED BY <1>6, <1>7, <1>8, <1>9, <1>10, <1>11 DEF SessionInv, WizardInv

\* Only a server that nobody has stamped changes its store.
LEMMA SwapFacts ==
  ASSUME SessionInv, asked["save"] # {}
  PROVE  /\ step = 2 /\ onboarding = "required" /\ 4 \notin asked["status"]
         /\ asked["login"] = {} /\ asked["configure"] = {} /\ asked["install"] = {}
         /\ ~Has(token, Admin)
         /\ server.stamped => ~Access
<1>1. Types /\ WizardInv
  BY DEF SessionInv
<1>2. step = 2 /\ onboarding = "required"
  BY <1>1 DEF WizardInv, Stages, BusyOps, Ops
<1>3. /\ 4 \notin asked["status"] /\ asked["login"] = {} /\ asked["configure"] = {}
      /\ asked["install"] = {}
  BY <1>1, <1>2 DEF WizardInv, Stages
<1>4. ~Has(token, Admin)
  BY <1>1, <1>2, <1>3 DEF WizardInv, TokenLeadsOn
<1> QED BY <1>1, <1>2, <1>3, <1>4 DEF WizardInv, StampIsSure

LEMMA SaveAnsweredInv ==
  ASSUME SessionInv, AppStays, NEW target \in asked["save"], NEW reached \in BOOLEAN,
         NEW arrived \in BOOLEAN, NEW mode \in {"refused", "hot_swap", "restart_required"},
         NEW used \in BOOLEAN, SaveAnswered(target, reached, arrived, mode, used)
  PROVE  SessionInv'
<1>1. Types /\ WizardInv /\ Arguments /\ FormsType /\ server \in Server
  BY FormsFacts DEF SessionInv, Types
<1>2. /\ server' = server \/ (Access /\ server' = Swapped(target, used))
      /\ busy' \in BOOLEAN
      /\ IF busy' THEN Then("save", target, "status", 3) ELSE Got("save", target)
      /\ UNCHANGED <<token, cookie, onboarding, step, form, result, tested, edited, provider,
                     overtaken>>
  BY DEF SaveAnswered, browser, auth, storage
<1>3. /\ \A q \in Ops : asked'[q] = IF q = "save" THEN asked[q] \ {target}
                                     ELSE IF busy' /\ q = "status" THEN asked[q] \cup {3} ELSE asked[q]
      /\ asked' = [q \in Ops |-> asked'[q]]
  <2>1. CASE busy'
    <3>1. "save" \in Ops /\ "status" \in Ops /\ "save" # "status"
      BY DEF Ops
    <3>2. Then("save", target, "status", 3)
      BY <1>2, <2>1
    <3>3. /\ \A q \in Ops : asked'[q] = IF q = "save" THEN asked[q] \ {target}
                                         ELSE IF q = "status" THEN asked[q] \cup {3} ELSE asked[q]
          /\ asked' = [q \in Ops |-> asked'[q]]
      BY <1>1, <3>1, <3>2, ThenFacts, Zenon
    <3> QED BY <2>1, <3>3
  <2>2. CASE ~busy'
    BY <1>1, <1>2, <2>2, AskedFacts DEF Ops
  <2> QED BY <2>1, <2>2
<1>4. /\ step = 2 /\ onboarding = "required" /\ 4 \notin asked["status"]
      /\ asked["login"] = {} /\ asked["configure"] = {} /\ asked["install"] = {}
      /\ ~Has(token, Admin) /\ (server.stamped => ~Access)
  BY SwapFacts
<1>5. \A q \in BusyOps : Waiting(q) = IF q = "save" THEN {target} ELSE {}
  <2>1. "save" \in BusyOps /\ target \in Waiting("save")
    BY DEF BusyOps, Ops, Waiting
  <2> QED BY <1>1, <2>1, AloneFacts
<1>6. /\ server' \in Server /\ (server.stamped => server'.stamped)
      /\ Required' => Required
      /\ server'.valid = server.valid \/ server'.valid = {}
      /\ server'.stamped => ~Access'
  BY <1>1, <1>2, <1>4 DEF Server, Swapped, Access, Required
<1>7. Types'
  <2>1. Arguments'
    BY <1>1, <1>3 DEF Arguments, Ops
  <2>2. FormsType'
    BY <1>1, <1>2 DEF FormsType
  <2> QED BY <1>1, <1>2, <1>6, <2>1, <2>2, TypesKept DEF Types, TypeOK, Creds
<1>8. AppInv'
  <2>1. server.valid # {} => ~Required
    BY DEF SessionInv, AppInv, Settled
  <2> QED BY <1>2, <1>6, <2>1, AppKept
<1>9. OneRequest'
  <2>1. asked["status"] = {}
    BY <1>4, <1>5 DEF Waiting, BusyOps, Ops
  <2>2. Waiting("status")' = IF busy' THEN {3} ELSE {}
    BY <1>3, <2>1 DEF Waiting, Ops
  <2>3. \A q \in BusyOps : q # "status" => Waiting(q)' = {}
    BY <1>3, <1>5 DEF Waiting, BusyOps
  <2> QED BY <1>2, <2>2, <2>3 DEF OneRequest
<1>10. Stages' /\ StampIsSure' /\ StepFollowsServer'
  BY <1>1, <1>2, <1>3, <1>4, <1>6
     DEF WizardInv, Stages, StampIsSure, StepFollowsServer, StepDone, BusyOps, Ops
<1>11. TestIsKnown'
  <2>1. Target' = Target
    BY <1>2 DEF Target
  <2> QED BY <1>1, <1>2, <1>3, <2>1 DEF WizardInv, TestIsKnown, Ops
<1>12. TokenIsAccepted' /\ TokenLeadsOn'
  BY <1>2, <1>4 DEF TokenIsAccepted, TokenLeadsOn, Has
<1> QED BY <1>7, <1>8, <1>9, <1>10, <1>11, <1>12 DEF SessionInv, WizardInv

LEMMA ConfigureAnsweredInv ==
  ASSUME SessionInv, AppStays, NEW arg \in asked["configure"], NEW reached \in BOOLEAN,
         NEW arrived \in BOOLEAN, ConfigureAnswered(arg, reached, arrived)
  PROVE  SessionInv'
<1> DEFINE ok == reached /\ Access /\ arrived /\ ~(arg = "local" /\ server.account)
<1>1. Types /\ WizardInv /\ Arguments /\ FormsType /\ server \in Server
  BY FormsFacts DEF SessionInv, Types
<1>2. /\ server' = IF reached /\ Access THEN Configured(arg = "local") ELSE server
      /\ busy' = (ok /\ arg = "local")
      /\ UNCHANGED <<token, cookie, onboarding, step, form, result, tested, edited, provider,
                     overtaken>>
  BY DEF ConfigureAnswered, browser, auth, storage
<1>3. \/ ok /\ arg = "local" /\ Then("configure", arg, "login", 0)
      \/ ok /\ arg # "local" /\ Then("configure", arg, "status", 4)
      \/ ~ok /\ Got("configure", arg)
  BY Zenon DEF ConfigureAnswered
<1>4. /\ \A q \in Ops : asked'[q] = IF q = "configure" THEN asked[q] \ {arg}
                                     ELSE IF q = "login" /\ ok /\ arg = "local" THEN asked[q] \cup {0}
                                     ELSE IF q = "status" /\ ok /\ arg # "local" THEN asked[q] \cup {4}
                                     ELSE asked[q]
      /\ asked' = [q \in Ops |-> asked'[q]]
  <2>1. /\ "configure" \in Ops /\ "login" \in Ops /\ "status" \in Ops
        /\ "configure" # "login" /\ "configure" # "status"
    BY DEF Ops
  <2>2. CASE ok /\ arg = "local" /\ Then("configure", arg, "login", 0)
    <3>1. Then("configure", arg, "login", 0) /\ Arguments
      BY <1>1, <2>2
    <3>2. /\ \A q \in Ops : asked'[q] = IF q = "configure" THEN asked[q] \ {arg}
                                         ELSE IF q = "login" THEN asked[q] \cup {0} ELSE asked[q]
          /\ asked' = [q \in Ops |-> asked'[q]]
      BY <2>1, <3>1, ThenFacts, Zenon
    <3> QED BY <2>2, <3>2
  <2>3. CASE ok /\ arg # "local" /\ Then("configure", arg, "status", 4)
    <3>1. Then("configure", arg, "status", 4) /\ Arguments
      BY <1>1, <2>3
    <3>2. /\ \A q \in Ops : asked'[q] = IF q = "configure" THEN asked[q] \ {arg}
                                         ELSE IF q = "status" THEN asked[q] \cup {4} ELSE asked[q]
          /\ asked' = [q \in Ops |-> asked'[q]]
      BY <2>1, <3>1, ThenFacts, Zenon
    <3> QED BY <2>3, <3>2
  <2>4. CASE ~ok /\ Got("configure", arg)
    BY <1>1, <2>1, <2>4, AskedFacts
  <2> QED BY <1>3, <2>2, <2>3, <2>4
<1>5. \A q \in BusyOps : Waiting(q) = IF q = "configure" THEN {arg} ELSE {}
  <2>1. "configure" \in BusyOps /\ arg \in Waiting("configure")
    BY DEF BusyOps, Ops, Waiting
  <2> QED BY <1>1, <2>1, AloneFacts
<1>6. /\ server' \in Server /\ (server.stamped => server'.stamped) /\ (ok => server'.stamped)
      /\ Required' => Required
      /\ server'.valid = server.valid \/ server'.valid = {}
  BY <1>1, <1>2 DEF Server, Configured, Access, Required
<1>7. /\ step >= 3 /\ step \in 1..5 /\ asked["test"] = {} /\ asked["save"] = {} /\ 3 \notin asked["status"]
      /\ Has(token, Admin) /\ onboarding = "required" => overtaken
  BY <1>1 DEF WizardInv, Stages, TokenLeadsOn, Types, TypeOK
<1>8. Types'
  <2>1. Arguments'
    BY <1>1, <1>4 DEF Arguments, Ops
  <2>2. FormsType'
    BY <1>1, <1>2 DEF FormsType
  <2> QED BY <1>1, <1>2, <1>6, <2>1, <2>2, TypesKept DEF Types, TypeOK, Creds
<1>9. AppInv'
  <2>1. server.valid # {} => ~Required
    BY DEF SessionInv, AppInv, Settled
  <2> QED BY <1>2, <1>6, <2>1, AppKept
<1>10. OneRequest'
  <2>1. \A q \in BusyOps : Waiting(q)' = IF q = "login" /\ ok /\ arg = "local" THEN {0} ELSE {}
    BY <1>4, <1>5 DEF Waiting, BusyOps
  <2> QED BY <1>2, <2>1 DEF OneRequest
<1>11. Stages'
  BY <1>1, <1>2, <1>4, <1>7 DEF WizardInv, Stages, BusyOps, Ops
<1>12. StampIsSure' /\ StepFollowsServer'
  BY <1>1, <1>2, <1>4, <1>6, <1>7 DEF WizardInv, StampIsSure, StepFollowsServer, StepDone, Ops
<1>13. TestIsKnown'
  <2>1. Target' = Target
    BY <1>2 DEF Target
  <2> QED BY <1>1, <1>2, <1>4, <2>1 DEF WizardInv, TestIsKnown, Ops
<1>14. TokenIsAccepted' /\ TokenLeadsOn'
  BY <1>1, <1>2, <1>4, <1>7 DEF WizardInv, TokenIsAccepted, TokenLeadsOn, Has, Ops
<1> QED BY <1>8, <1>9, <1>10, <1>11, <1>12, <1>13, <1>14 DEF SessionInv, WizardInv

\* While the wizard is shown, the page behind it has nothing in flight.
LEMMA WizardAlone ==
  ASSUME SessionInv, onboarding = "required"
  PROVE  /\ calls = {} /\ ~authed /\ ~gateBusy /\ me = "none" /\ ~out
         /\ token # NoToken => ~Required
         /\ ~crossed => Agree(cookie, token)
BY DEF SessionInv, Types, AppInv, SignedInOnly, Settled, Uncrossed, ProbeIsOurs

LEMMA LoginAnsweredInv ==
  ASSUME SessionInv, AppStays, 0 \in asked["login"], NEW reached \in BOOLEAN,
         NEW arrived \in BOOLEAN, LoginAnswered(reached, arrived)
  PROVE  SessionInv'
<1> DEFINE handled == reached /\ server.account /\ server.issued < MaxTokens
           new == [user |-> Admin, jti |-> server.issued + 1]
<1>1. Types /\ WizardInv /\ Arguments /\ FormsType /\ server \in Server
  BY FormsFacts DEF SessionInv, Types
<1>2. /\ server' = IF handled THEN Issued ELSE server
      /\ \/ handled /\ token' = new /\ cookie' = new
         \/ token' = token /\ cookie' = cookie
      /\ busy' = FALSE /\ Then("login", 0, "status", 4)
      /\ UNCHANGED <<onboarding, step, form, result, tested, edited, provider, overtaken>>
  BY DEF LoginAnswered, auth, storage
<1>3. /\ \A q \in Ops : asked'[q] = IF q = "login" THEN asked[q] \ {0}
                                     ELSE IF q = "status" THEN asked[q] \cup {4} ELSE asked[q]
      /\ asked' = [q \in Ops |-> asked'[q]]
  <2>1. "login" \in Ops /\ "status" \in Ops /\ "login" # "status"
    BY DEF Ops
  <2>2. Arguments /\ Then("login", 0, "status", 4)
    BY <1>1, <1>2
  <2> QED BY <2>1, <2>2, ThenFacts, Zenon
<1>4. /\ onboarding = "required"
      /\ \A q \in BusyOps : Waiting(q) = IF q = "login" THEN {0} ELSE {}
  <2>1. "login" \in BusyOps /\ 0 \in Waiting("login")
    BY DEF BusyOps, Ops, Waiting
  <2> QED BY <1>1, <2>1, AloneFacts
<1>5. /\ step >= 3 /\ step \in 1..5 /\ server.stamped
      /\ asked["test"] = {} /\ asked["save"] = {} /\ 3 \notin asked["status"]
  BY <1>1 DEF WizardInv, Stages, StampIsSure, Types, TypeOK
<1>6. handled => server.issued + 1 \in 0..MaxTokens /\ new \in Tokens
  <2>1. handled => server.issued + 1 \in 0..MaxTokens /\ server.issued + 1 \in 0..MaxTokens + 1
    BY <1>1, Constants DEF Server
  <2> QED BY <2>1 DEF Tokens, Users
<1>7. /\ server' \in Server /\ server'.stamped /\ server.valid \subseteq server'.valid
      /\ handled => server.issued + 1 \in server'.valid
  BY <1>1, <1>2, <1>5, <1>6 DEF Server, Issued
<1>8. token' \in Creds /\ cookie' \in Creds
  BY <1>1, <1>2, <1>6, Constants DEF Types, TypeOK, Creds
<1>9. Types'
  <2>1. Arguments'
    BY <1>1, <1>3 DEF Arguments, Ops
  <2>2. FormsType'
    BY <1>1, <1>2 DEF FormsType
  <2> QED BY <1>1, <1>2, <1>7, <1>8, <2>1, <2>2, TypesKept DEF Types, TypeOK
<1>10. AppInv'
  <2>1. /\ calls' = {} /\ ~authed' /\ ~gateBusy' /\ me' = "none" /\ ~out' /\ crossed' = crossed
        /\ ~Required'
    BY <1>4, <1>7, WizardAlone DEF AppStays, Required
  <2>2. Settled' /\ SignedInOnly'
    BY <1>7, <2>1 DEF Settled, SignedInOnly
  <2>3. OneSignIn' /\ BootIsAlone' /\ AdminIsReal' /\ OutIsClean'
    BY <2>1 DEF OneSignIn, BootIsAlone, AdminIsReal, OutIsClean
  <2>4. ~crossed => ProbeIsOurs'
    BY <1>2, <1>4, <2>1, WizardAlone DEF ProbeIsOurs, Agree
  <2> QED BY <2>1, <2>2, <2>3, <2>4 DEF AppInv, Uncrossed
<1>11. OneRequest'
  <2>1. \A q \in BusyOps : Waiting(q)' = {}
    BY <1>3, <1>4 DEF Waiting, BusyOps
  <2> QED BY <2>1 DEF OneRequest
<1>12. Stages'
  BY <1>1, <1>2, <1>3, <1>4, <1>5 DEF WizardInv, Stages, BusyOps, Ops
<1>13. StampIsSure' /\ StepFollowsServer'
  BY <1>5, <1>2, <1>7 DEF StampIsSure, StepFollowsServer, StepDone
<1>14. TestIsKnown'
  <2>1. Target' = Target
    BY <1>2 DEF Target
  <2> QED BY <1>1, <1>2, <1>3, <2>1 DEF WizardInv, TestIsKnown, Ops
<1>15. TokenIsAccepted'
  BY <1>1, <1>2, <1>4, <1>7 DEF WizardInv, TokenIsAccepted, Accepts
<1>16. TokenLeadsOn'
  <2>1. asked'["configure"] = {} /\ asked'["login"] = {} /\ 4 \in asked'["status"]
    BY <1>3, <1>4 DEF Waiting, BusyOps, Ops
  <2> QED BY <2>1 DEF TokenLeadsOn
<1> QED BY <1>9, <1>10, <1>11, <1>12, <1>13, <1>14, <1>15, <1>16 DEF SessionInv, WizardInv

LEMMA CatalogAnsweredInv ==
  ASSUME SessionInv, AppStays, NEW creds \in asked["catalog"], NEW ok \in BOOLEAN,
         CatalogAnswered(creds, ok)
  PROVE  SessionInv'
<1>1. Types /\ WizardInv /\ Arguments /\ FormsType
  BY FormsFacts DEF SessionInv, Types
<1>2. /\ token' \in {token, NoToken} /\ Got("catalog", creds)
      /\ UNCHANGED <<server, cookie, onboarding, step, busy, form, result, tested, edited, provider,
                     overtaken>>
  BY DEF CatalogAnswered, Unauthorized, tab, storage, auth
<1>3. /\ \A q \in Ops : asked'[q] = IF q = "catalog" THEN asked[q] \ {creds} ELSE asked[q]
      /\ asked' = [q \in Ops |-> asked'[q]]
  BY <1>1, <1>2, AskedFacts DEF Ops
<1>4. Types'
  <2>1. Arguments'
    BY <1>1, <1>3 DEF Arguments, Ops
  <2>2. FormsType'
    BY <1>1, <1>2 DEF FormsType
  <2> QED BY <1>1, <1>2, <2>1, <2>2, TypesKept DEF Types, TypeOK, Creds
<1>5. AppInv'
  <2>1. Required' = Required
    BY <1>2 DEF Required, Access
  <2>2. server.valid # {} => ~Required
    BY DEF SessionInv, AppInv, Settled
  <2> QED BY <1>2, <2>1, <2>2, AppKept
<1>6. OneRequest'
  <2>1. \A q \in BusyOps : Waiting(q)' = Waiting(q)
    BY <1>3 DEF Waiting, BusyOps
  <2> QED BY <1>1, <1>2, <2>1 DEF WizardInv, OneRequest
<1>7. Stages' /\ StampIsSure' /\ StepFollowsServer'
  BY <1>1, <1>2, <1>3
     DEF WizardInv, Stages, StampIsSure, StepFollowsServer, StepDone, Access, BusyOps, Ops
<1>8. TestIsKnown'
  <2>1. Target' = Target
    BY <1>2 DEF Target
  <2> QED BY <1>1, <1>2, <1>3, <2>1 DEF WizardInv, TestIsKnown, Ops
<1>9. TokenIsAccepted' /\ TokenLeadsOn'
  BY <1>1, <1>2, <1>3 DEF WizardInv, TokenIsAccepted, Accepts, TokenLeadsOn, Has, Ops
<1> QED BY <1>4, <1>5, <1>6, <1>7, <1>8, <1>9 DEF SessionInv, WizardInv

LEMMA InstallAnsweredInv ==
  ASSUME SessionInv, AppStays, NEW creds \in asked["install"], NEW ok \in BOOLEAN,
         InstallAnswered(creds, ok)
  PROVE  SessionInv'
<1>1. Types /\ WizardInv /\ Arguments /\ FormsType
  BY FormsFacts DEF SessionInv, Types
<1>2. /\ token' \in {token, NoToken} /\ Got("install", creds) /\ busy' = FALSE
      /\ step' = (IF ok THEN 5 ELSE step)
      /\ UNCHANGED <<server, cookie, onboarding, form, result, tested, edited, provider, overtaken>>
  BY DEF InstallAnswered, Unauthorized, storage, auth
<1>3. /\ \A q \in Ops : asked'[q] = IF q = "install" THEN asked[q] \ {creds} ELSE asked[q]
      /\ asked' = [q \in Ops |-> asked'[q]]
  BY <1>1, <1>2, AskedFacts DEF Ops
<1>4. /\ onboarding = "required"
      /\ \A q \in BusyOps : Waiting(q) = IF q = "install" THEN {creds} ELSE {}
  <2>1. "install" \in BusyOps /\ creds \in Waiting("install")
    BY DEF BusyOps, Ops, Waiting
  <2> QED BY <1>1, <2>1, AloneFacts
<1>5. /\ step >= 4 /\ step \in 1..5 /\ server.stamped
      /\ asked["test"] = {} /\ asked["save"] = {} /\ 3 \notin asked["status"]
  BY <1>1, <1>4 DEF WizardInv, Stages, StepFollowsServer, StepDone, Types, TypeOK
<1>6. Types'
  <2>1. Arguments'
    BY <1>1, <1>3 DEF Arguments, Ops
  <2>2. FormsType'
    BY <1>1, <1>2 DEF FormsType
  <2>3. step' \in 1..5 /\ token' \in Creds
    BY <1>1, <1>2, <1>5 DEF Types, TypeOK, Creds
  <2> QED BY <1>1, <1>2, <2>1, <2>2, <2>3, TypesKept DEF Types, TypeOK, Creds
<1>7. AppInv'
  <2>1. Required' = Required
    BY <1>2 DEF Required, Access
  <2>2. server.valid # {} => ~Required
    BY DEF SessionInv, AppInv, Settled
  <2> QED BY <1>2, <2>1, <2>2, AppKept
<1>8. OneRequest'
  <2>1. \A q \in BusyOps : Waiting(q)' = {}
    BY <1>3, <1>4 DEF Waiting, BusyOps
  <2> QED BY <2>1 DEF OneRequest
<1>9. Stages'
  BY <1>1, <1>2, <1>3, <1>4, <1>5 DEF WizardInv, Stages, BusyOps, Ops
<1>10. StampIsSure' /\ StepFollowsServer'
  BY <1>2, <1>5 DEF StampIsSure, StepFollowsServer, StepDone
<1>11. TestIsKnown'
  <2>1. Target' = Target
    BY <1>2 DEF Target
  <2> QED BY <1>1, <1>2, <1>3, <2>1 DEF WizardInv, TestIsKnown, Ops
<1>12. TokenIsAccepted'
  BY <1>1, <1>2 DEF WizardInv, TokenIsAccepted, Accepts
<1>13. TokenLeadsOn'
  BY <1>1, <1>2, <1>3, <1>5 DEF WizardInv, TokenLeadsOn, Has, Ops
<1> QED BY <1>6, <1>7, <1>8, <1>9, <1>10, <1>11, <1>12, <1>13 DEF SessionInv, WizardInv

LEMMA StatusAnsweredInv ==
  ASSUME SessionInv, AppStays, NEW next \in asked["status"], NEW ok \in BOOLEAN,
         StatusAnswered(next, ok)
  PROVE  SessionInv'
<1>1. Types /\ WizardInv /\ Arguments /\ server \in Server /\ next \in {3, 4}
  BY DEF SessionInv, Types, Arguments
<1>2. /\ step' = IF ok /\ server.stamped /\ next = 3 THEN 4 ELSE next
      /\ busy' = (IF next = 3 THEN FALSE ELSE busy)
      /\ LeaveStorage /\ provider' = "none"
      /\ UNCHANGED <<server, token, cookie, onboarding, overtaken>>
  <2>1. stamped' = IF ok THEN server.stamped ELSE stamped
    BY DEF StatusAnswered
  <2>2. step' = IF ok THEN Resumed(next) ELSE next
    BY DEF StatusAnswered, Show
  <2>3. step' = IF ok /\ server.stamped /\ next = 3 THEN 4 ELSE next
    BY <1>1, <2>1, <2>2 DEF Resumed
  <2> QED BY <2>3 DEF StatusAnswered, browser
<1>3. /\ asked' = [q \in Ops |-> asked'[q]]
      /\ asked'["status"] = asked["status"] \ {next}
      /\ \A q \in BusyOps : q # "status" => asked'[q] = asked[q]
      /\ asked'["catalog"] \in {asked["catalog"], {<<token, cookie>>}}
  <2> DEFINE rest == [asked EXCEPT !["status"] = @ \ {next}]
  <2>1. asked' = rest \/ asked' = [rest EXCEPT !["catalog"] = {<<token, cookie>>}]
    BY DEF StatusAnswered, Show
  <2>2. asked = [q \in Ops |-> asked[q]] /\ "status" \in Ops /\ "catalog" \in Ops
    BY <1>1 DEF Types, Arguments, Ops
  <2>3. \A q \in Ops : rest[q] = IF q = "status" THEN asked[q] \ {next} ELSE asked[q]
    BY <2>2
  <2>4. rest = [q \in Ops |-> rest[q]]
    BY <2>2
  <2> HIDE DEF rest
  <2> QED BY <2>1, <2>2, <2>3, <2>4 DEF BusyOps
<1>4. onboarding = "required"
  BY <1>1 DEF WizardInv, Stages, BusyOps, Ops
<1>5. asked["test"] = {} /\ asked["save"] = {}
  <2>1. CASE next = 4
    BY <1>1, <2>1 DEF WizardInv, Stages
  <2>2. CASE next = 3
    <3>1. "status" \in BusyOps /\ 3 \in Waiting("status")
      BY <2>2 DEF BusyOps, Ops, Waiting
    <3>2. \A q \in BusyOps : Waiting(q) = IF q = "status" THEN {3} ELSE {}
      BY <1>1, <3>1, AloneFacts
    <3> QED BY <3>2 DEF Waiting, BusyOps, Ops
  <2> QED BY <1>1, <2>1, <2>2
<1>6. Types'
  <2>1. <<token, cookie>> \in Creds \X Creds /\ busy \in BOOLEAN /\ overtaken \in BOOLEAN
    BY <1>1 DEF Types, TypeOK, Creds
  <2>2. Arguments'
    BY <1>1, <1>3, <2>1 DEF Types, Arguments, BusyOps, Ops
  <2>3. FormsType' /\ TestIsKnown'
    BY <1>1, <1>2, <1>3, <1>5, LeftIsUntested DEF BusyOps, Ops, Providers
  <2>4. step' \in 1..5
    BY <1>1, <1>2
  <2>5. busy' \in BOOLEAN
    BY <1>2, <2>1
  <2> QED BY <1>1, <1>2, <2>1, <2>2, <2>3, <2>4, <2>5, TypesKept
<1>7. AppInv'
  BY <1>2, AppUntouched
<1>8. TestIsKnown'
  BY <1>1, <1>2, <1>3, <1>5, LeftIsUntested DEF BusyOps, Ops, Providers
<1>9. CASE next = 4
  <2>1. /\ step >= 3 /\ step \in 1..5 /\ server.stamped /\ 3 \notin asked["status"] /\ step' = 4
        /\ busy' = busy
    BY <1>1, <1>2, <1>9 DEF WizardInv, Stages, StampIsSure, Types, TypeOK
  <2>2. OneRequest'
    <3>1. \A q \in BusyOps : Waiting(q)' = Waiting(q)
      BY <1>3, <1>9 DEF Waiting
    <3> QED BY <1>1, <2>1, <3>1 DEF WizardInv, OneRequest
  <2>3. Stages'
    BY <1>1, <1>2, <1>3, <1>4, <1>5, <2>1 DEF WizardInv, Stages, BusyOps, Ops
  <2>4. StampIsSure' /\ StepFollowsServer'
    BY <1>2, <2>1 DEF StampIsSure, StepFollowsServer, StepDone
  <2>5. TokenIsAccepted' /\ TokenLeadsOn'
    BY <1>1, <1>2, <1>3, <2>1
       DEF WizardInv, TokenIsAccepted, Accepts, TokenLeadsOn, Has, BusyOps, Ops
  <2> QED BY <1>6, <1>7, <1>8, <2>2, <2>3, <2>4, <2>5 DEF SessionInv, WizardInv
<1>10. CASE next = 3
  <2>1. /\ step = 2 /\ 4 \notin asked["status"]
        /\ asked["configure"] = {} /\ asked["login"] = {} /\ asked["install"] = {}
    BY <1>1, <1>10 DEF WizardInv, Stages
  <2>2. ~Has(token, Admin)
    BY <1>1, <1>4, <2>1 DEF WizardInv, TokenLeadsOn
  <2>3. asked'["status"] = {}
    BY <1>1, <1>3, <1>10, <2>1 DEF Types, Arguments
  <2>4. OneRequest'
    <3>1. "status" \in BusyOps /\ 3 \in Waiting("status")
      BY <1>10 DEF BusyOps, Ops, Waiting
    <3>2. \A q \in BusyOps : Waiting(q) = IF q = "status" THEN {3} ELSE {}
      BY <1>1, <3>1, AloneFacts
    <3>3. \A q \in BusyOps : Waiting(q)' = {}
      BY <1>3, <2>3, <3>2 DEF Waiting
    <3> QED BY <3>3 DEF OneRequest
  <2>5. step' \in {3, 4} /\ (step' = 4 => server.stamped)
    BY <1>2, <1>10
  <2>6. Stages'
    BY <1>2, <1>3, <1>4, <1>5, <2>1, <2>3, <2>5 DEF Stages, BusyOps, Ops
  <2>7. StampIsSure' /\ StepFollowsServer'
    BY <1>2, <1>3, <2>1, <2>3, <2>5 DEF StampIsSure, StepFollowsServer, StepDone, BusyOps, Ops
  <2>8. TokenIsAccepted' /\ TokenLeadsOn'
    BY <1>2, <2>2 DEF TokenIsAccepted, TokenLeadsOn, Has
  <2> QED BY <1>6, <1>7, <1>8, <2>4, <2>6, <2>7, <2>8 DEF SessionInv, WizardInv
<1> QED BY <1>1, <1>9, <1>10

LEMMA ExpireInv ==
  ASSUME SessionInv, AppStays, Expire
  PROVE  SessionInv'
<1>1. Types /\ WizardInv /\ Arguments /\ FormsType /\ server \in Server
  BY FormsFacts DEF SessionInv, Types
<1>2. /\ server' = [server EXCEPT !.expired = TRUE]
      /\ UNCHANGED <<token, cookie, onboarding, step, busy, form, result, tested, edited, provider,
                     overtaken, asked>>
  BY DEF Expire, browser, tab, storage, auth
<1>3. /\ server' \in Server /\ server'.stamped = server.stamped /\ server'.valid = server.valid
      /\ ~Required' /\ ~Access'
  BY <1>1, <1>2 DEF Server, Required, Access
<1>4. Types'
  <2>1. Arguments' /\ FormsType'
    BY <1>1, <1>2 DEF Arguments, FormsType
  <2> QED BY <1>1, <1>2, <1>3, <2>1, TypesKept DEF Types, TypeOK, Creds
<1>5. AppInv'
  BY <1>2, <1>3, AppKept
<1>6. OneRequest' /\ Stages'
  BY <1>1, <1>2 DEF WizardInv, OneRequest, Waiting, Stages
<1>7. StampIsSure' /\ StepFollowsServer'
  BY <1>1, <1>2, <1>3 DEF WizardInv, StampIsSure, StepFollowsServer, StepDone
<1>8. TestIsKnown'
  BY <1>1, <1>2 DEF WizardInv, TestIsKnown, Target
<1>9. TokenIsAccepted' /\ TokenLeadsOn'
  BY <1>1, <1>2, <1>3 DEF WizardInv, TokenIsAccepted, Accepts, TokenLeadsOn, Has
<1> QED BY <1>4, <1>5, <1>6, <1>7, <1>8, <1>9 DEF SessionInv, WizardInv

(***************************************************************************)
(* The page behind the wizard.                                             *)
(***************************************************************************)
WizardAside ==
  \/ onboarding # "required" /\ UNCHANGED <<tab, storage, first, auth, asked>>
  \/ NewPage /\ UNCHANGED overtaken

\* Without the wizard nothing is left to say of it.
LEMMA WizardGone ==
  ASSUME Types, WizardInv, onboarding' # "required", WizardAside
  PROVE  WizardInv' /\ Arguments' /\ FormsType' /\ step' \in 1..5 /\ busy' \in BOOLEAN
         /\ overtaken' \in BOOLEAN
<1>1. /\ Arguments /\ FormsType /\ busy \in BOOLEAN /\ overtaken \in BOOLEAN
      /\ onboarding # "required" => step = 1 /\ \A o \in BusyOps : asked[o] = {}
  BY FormsFacts DEF WizardInv, Stages, Types, TypeOK
<1>2. /\ asked' = [o \in Ops |-> asked'[o]] /\ Arguments' /\ step' = 1
      /\ \A o \in BusyOps : asked'[o] = {}
      /\ busy' \in BOOLEAN /\ overtaken' \in BOOLEAN
  <2>1. CASE onboarding # "required" /\ UNCHANGED <<tab, storage, first, auth, asked>>
    BY <1>1, <2>1 DEF Arguments, tab, auth
  <2>2. CASE NewPage /\ UNCHANGED overtaken
    BY <1>1, <2>2 DEF NewPage, Unmounted, NothingAsked, Arguments, BusyOps, Ops
  <2> QED BY <2>1, <2>2 DEF WizardAside
<1>3. FormsType' /\ TestIsKnown'
  <2>1. CASE onboarding # "required" /\ UNCHANGED <<tab, storage, first, auth, asked>>
    <3>1. UNCHANGED <<form, result, tested, edited, provider, asked>>
      BY <2>1 DEF storage, auth
    <3> QED BY <1>1, <3>1 DEF FormsType, WizardInv, TestIsKnown, Target
  <2>2. CASE NewPage /\ UNCHANGED overtaken
    <3>1. asked'["test"] = {}
      BY <1>2 DEF BusyOps, Ops
    <3> QED BY <2>2, <3>1, LeftIsUntested DEF NewPage, Unmounted, LeaveStorage, Providers
  <2> QED BY <2>1, <2>2 DEF WizardAside
<1>4. OneRequest' /\ Stages'
  BY <1>2 DEF OneRequest, Waiting, Stages, BusyOps, Ops
<1>5. StampIsSure' /\ StepFollowsServer'
  BY <1>2 DEF StampIsSure, StepFollowsServer, BusyOps, Ops
<1>6. TokenIsAccepted' /\ TokenLeadsOn'
  BY DEF TokenIsAccepted, TokenLeadsOn
<1> QED BY <1>1, <1>2, <1>3, <1>4, <1>5, <1>6 DEF WizardInv

LEMMA AppTypes ==
  ASSUME Arguments', FormsType', step' \in 1..5, busy' \in BOOLEAN, overtaken' \in BOOLEAN,
         server' \in Server, token' \in Creds, cookie' \in Creds,
         onboarding' \in {"unresolved", "required", "over"}, onboarding' # "over" => calls' = {},
         \A r \in calls' : WellFormed(r), signOuts' \in Nat,
         me' \in Roles, authed' \in BOOLEAN, checking' \in BOOLEAN,
         roles' \in [Users -> {"admin", "member", "gone"}], fallen' \subseteq Users,
         gateBusy' \in BOOLEAN, crossed' \in BOOLEAN, out' \in BOOLEAN
  PROVE  Types'
<1>1. TypeOK'
  BY DEF TypeOK, Arguments, FormsType, FormType, Creds, Roles
<1> QED BY <1>1 DEF Types, FormsType

LEMMA RenderFacts ==
  ASSUME NEW a \in BOOLEAN, NEW c, NEW u, NEW cs, authed \in BOOLEAN, Render(a, c, u, cs)
  PROVE  /\ authed' = a /\ checking' \in BOOLEAN
         /\ (~a /\ authed) => me' = "none"
         /\ (a \/ ~authed) => me' = u
         /\ fallen' = (IF ~a /\ authed THEN {} ELSE fallen)
         /\ a = authed => calls' = cs
         /\ a /\ ~authed => calls' = Dead(cs) \cup {Call("me", NoUser, 0)}
         /\ ~a /\ authed => calls' = Dead(cs)
<1>1. /\ authed' = a /\ checking' = (c /\ (a \/ ~authed))
      /\ me' = (IF ~a /\ authed THEN "none" ELSE u)
      /\ fallen' = (IF ~a /\ authed THEN {} ELSE fallen)
  BY DEF Render
<1>2. calls' = CASE a = authed -> cs
                 [] a /\ ~authed -> Dead(cs) \cup {Call("me", NoUser, 0)}
                 [] ~a /\ authed -> Dead(cs)
  BY DEF Render
<1>3. ASSUME a = authed
      PROVE  calls' = cs
  <2>1. ~(a /\ ~authed) /\ ~(~a /\ authed)
    BY <1>3
  <2> QED BY <1>2, <1>3, <2>1, Zenon
<1>4. a /\ ~authed => calls' = Dead(cs) \cup {Call("me", NoUser, 0)}
  BY <1>2, Zenon
<1>5. ~a /\ authed => calls' = Dead(cs)
  BY <1>2, Zenon
<1> QED BY <1>1, <1>3, <1>4, <1>5

\* A call that is ignored.
Ignored(r) ==
  /\ WellFormed(r) /\ r.kind \in {"me", "config"} /\ ~r.live
  /\ r.reply = "ok" => ~Required

LEMMA DeadFacts ==
  ASSUME NEW cs, \A r \in cs : WellFormed(r),
         \A r \in cs : r.reply = "ok" /\ r.kind \in {"me", "config"} => ~Required
  PROVE  /\ \A q \in Dead(cs) : Ignored(q) \/ (q \in cs /\ q.kind \notin {"me", "config"})
         /\ \A q \in cs : q.kind = "legacy" => q \in Dead(cs)
<1>1. ASSUME NEW q \in Dead(cs)
      PROVE  Ignored(q) \/ (q \in cs /\ q.kind \notin {"me", "config"})
  <2>1. PICK r \in cs : q = IF r.kind \in {"me", "config"} THEN [r EXCEPT !.live = FALSE] ELSE r
    BY DEF Dead, Awaited
  <2>2. WellFormed(r)
    OBVIOUS
  <2>3. CASE r.kind \in {"me", "config"}
    <3>1. q = [r EXCEPT !.live = FALSE]
      BY <2>1, <2>3
    <3>2. q.kind = r.kind /\ q.user = r.user /\ q.n = r.n /\ q.live = FALSE /\ q.reply = r.reply
      BY <2>2, <3>1 DEF WellFormed
    <3>3. WellFormed(q)
      BY <2>2, <2>3, <3>1, <3>2 DEF WellFormed
    <3> QED BY <2>3, <3>2, <3>3 DEF Ignored
  <2>4. CASE r.kind \notin {"me", "config"}
    BY <2>1, <2>4
  <2> QED BY <2>3, <2>4
<1>2. ASSUME NEW q \in cs, q.kind = "legacy"
      PROVE  q \in Dead(cs)
  <2>1. q.live /\ q.kind # "page" /\ q.kind \notin {"me", "config"}
    BY <1>2 DEF WellFormed
  <2> QED BY <2>1 DEF Dead, Awaited
<1> QED BY <1>1, <1>2

\* A probe that is sent with what the browser holds from then on.
Opened(r) ==
  /\ WellFormed(r) /\ r.kind \in {"me", "config"} /\ r.live
  /\ r.reply = "none" /\ r.bearer = token' /\ r.cookie = cookie'

LEMMA NewCall ==
  ASSUME NEW kind \in CallKinds, NEW u \in Users \cup {Legacy, NoUser}, NEW n \in Nat,
         kind = "login" => u \in Users /\ n <= MaxTokens, token' \in Creds, cookie' \in Creds
  PROVE  /\ WellFormed(Call(kind, u, n))
         /\ Call(kind, u, n).kind = kind /\ Call(kind, u, n).reply = "none"
         /\ Call(kind, u, n).live = TRUE
         /\ Call(kind, u, n).bearer = token' /\ Call(kind, u, n).cookie = cookie'
         /\ kind \in {"me", "config"} => Opened(Call(kind, u, n))
BY DEF Call, WellFormed, Opened, Roles

\* A request that is not about a user.
LEMMA NewRequest ==
  ASSUME NEW kind \in CallKinds, kind # "login", NEW n \in Nat, token' \in Creds, cookie' \in Creds
  PROVE  /\ WellFormed(Call(kind, NoUser, n))
         /\ Call(kind, NoUser, n).kind = kind /\ Call(kind, NoUser, n).reply = "none"
         /\ Call(kind, NoUser, n).live = TRUE
         /\ Call(kind, NoUser, n).bearer = token' /\ Call(kind, NoUser, n).cookie = cookie'
<1>1. NoUser \in Users \cup {Legacy, NoUser}
  OBVIOUS
<1> QED BY <1>1, NewCall

\* A request of the second effect.
LEMMA NewProbe ==
  ASSUME NEW kind \in {"me", "config"}, token' \in Creds, cookie' \in Creds
  PROVE  Opened(Call(kind, NoUser, 0))
<1>1. kind \in CallKinds /\ kind # "login"
  BY DEF CallKinds
<1>2. NoUser \in Users \cup {Legacy, NoUser} /\ 0 \in Nat
  OBVIOUS
<1> QED BY <1>1, <1>2, NewCall

\* What is in flight after the effect on [authed].
LEMMA AfterRender ==
  ASSUME NEW a \in BOOLEAN, NEW c, NEW u, NEW cs, authed \in BOOLEAN, Render(a, c, u, cs),
         \A r \in cs : WellFormed(r),
         \A r \in cs : r.reply = "ok" /\ r.kind \in {"me", "config"} => ~Required,
         token' \in Creds, cookie' \in Creds
  PROVE  /\ \A q \in calls' : \/ q \in cs /\ (q.kind \in {"me", "config"} => authed' = authed)
                              \/ Ignored(q)
                              \/ Opened(q) /\ authed' /\ ~authed
         /\ \A q \in cs : q.kind = "legacy" => q \in calls'
<1>1. /\ \A q \in Dead(cs) : Ignored(q) \/ (q \in cs /\ q.kind \notin {"me", "config"})
      /\ \A q \in cs : q.kind = "legacy" => q \in Dead(cs)
  BY DeadFacts
<1>2. /\ authed' = a
      /\ a = authed => calls' = cs
      /\ a /\ ~authed => calls' = Dead(cs) \cup {Call("me", NoUser, 0)}
      /\ ~a /\ authed => calls' = Dead(cs)
  BY RenderFacts
<1>3. Opened(Call("me", NoUser, 0))
  BY NewProbe
<1>4. CASE a = authed
  BY <1>2, <1>4
<1>5. CASE a /\ ~authed
  BY <1>1, <1>2, <1>3, <1>5
<1>6. CASE ~a /\ authed
  BY <1>1, <1>2, <1>6
<1> QED BY <1>4, <1>5, <1>6

\* What an answer r may do to who is signed in, if AppInv is to hold afterwards.
AnswerOf(r) ==
  /\ UNCHANGED <<server, onboarding, tab, storage, first, auth, asked, signOuts, reloads, crossed,
                 roles>>
  /\ fallen' \subseteq Users /\ (~authed \/ authed' => fallen' = fallen)
  /\ token' \in Creds /\ cookie' \in Creds /\ me' \in Roles
  /\ authed' \in BOOLEAN /\ checking' \in BOOLEAN /\ gateBusy' \in BOOLEAN /\ out' \in BOOLEAN
  /\ \A q \in calls' : \/ q \in calls /\ q # r /\ (q.kind \in {"me", "config"} => authed' = authed)
                       \/ Ignored(q)
                       \/ Opened(q) /\ authed'
  /\ \A q \in calls : q.kind = "legacy" /\ q # r => q \in calls'

\* The same, of what the server has stored.
AnswerIsSettled(r) ==
  /\ cookie' # NoToken \/ (token' # NoToken /\ token'.user \in Users) => server.stamped
  /\ token' # NoToken => (token' = token /\ r.kind # "legacy") \/ ~Required
  /\ authed' \/ out' => ~Required
  /\ ~authed' => me' = "none"

\* The same, as long as nobody signed in across an earlier session.
AnswerIsClean(r) ==
  /\ ~authed /\ r.kind \notin GateKinds \cup {"boot"} => ~authed' /\ gateBusy' = gateBusy
  /\ authed /\ authed' => cookie' = cookie /\ token' \in {token, NoToken}
  /\ Agree(cookie', token')
  /\ authed' /\ me' = "admin" => AdminsOnly'
  /\ out' => /\ ~authed' /\ token' = NoToken /\ cookie' = NoToken
             /\ \A q \in calls : q.kind \in GateKinds => q = r

LEMMA AdminsKept ==
  ASSUME NEW r, AnswerOf(r), ~authed \/ authed', AdminsOnly, cookie' = cookie,
         token' \in {token, NoToken}
  PROVE  AdminsOnly'
<1>1. UNCHANGED <<roles, fallen, cookie>>
  BY DEF AnswerOf
<1> QED BY <1>1 DEF AdminsOnly, Rightful

LEMMA AnsweredInv ==
  ASSUME SessionInv, NEW r \in calls, AnswerOf(r), AnswerIsSettled(r), ~crossed => AnswerIsClean(r)
  PROVE  SessionInv'
<1>1. Types /\ WizardInv /\ Settled /\ SignedInOnly /\ Uncrossed /\ onboarding = "over"
  BY DEF SessionInv, AppInv, Types
<1>2. Types' /\ WizardInv'
  <2>1. WizardInv' /\ Arguments' /\ FormsType' /\ step' \in 1..5 /\ busy' \in BOOLEAN
        /\ overtaken' \in BOOLEAN
    BY <1>1, WizardGone DEF AnswerOf, WizardAside
  <2>2. \A q \in calls' : WellFormed(q)
    BY <1>1 DEF Types, AnswerOf, Ignored, Opened
  <2> QED BY <1>1, <2>1, <2>2, AppTypes DEF Types, TypeOK, AnswerOf
<1>3. Required' = Required /\ server' = server /\ onboarding' = "over" /\ crossed' = crossed
  BY <1>1 DEF Required, Access, AnswerOf
<1>4. \A q \in calls' : q.kind \notin {"me", "config"} => q \in calls /\ q # r
  BY DEF AnswerOf, Ignored, Opened
<1>5. Settled'
  <2>1. token' # NoToken => ~Required \/ \E q \in calls' : q.kind = "legacy"
    <3>1. CASE token' = token /\ r.kind # "legacy" /\ token # NoToken
      BY <1>1, <3>1 DEF Settled, AnswerOf
    <3> QED BY <3>1 DEF AnswerIsSettled
  <2>2. \A q \in calls' : q.kind \in {"login", "start"} => server.stamped
    BY <1>1, <1>4 DEF Settled
  <2>3. \A q \in calls' :
          q.kind = "logout" \/ (q.reply = "ok" /\ q.kind \in {"boot", "me", "config", "legacy"})
            => ~Required
    BY <1>1 DEF Settled, AnswerOf, Ignored, Opened
  <2> QED BY <1>1, <1>3, <2>1, <2>2, <2>3 DEF Settled, AnswerIsSettled
<1>6. SignedInOnly'
  <2>1. ASSUME ~authed', NEW q \in calls', q.kind \in {"me", "config"}
        PROVE  ~q.live
    BY <1>1, <2>1 DEF SignedInOnly, AnswerOf, Ignored
  <2> QED BY <1>3, <2>1 DEF SignedInOnly, AnswerIsSettled
<1>7. Uncrossed'
  <2> SUFFICES ASSUME ~crossed
               PROVE  OneSignIn' /\ BootIsAlone' /\ ProbeIsOurs' /\ AdminIsReal' /\ OutIsClean'
    BY <1>3 DEF Uncrossed
  <2>1. OneSignIn /\ BootIsAlone /\ ProbeIsOurs /\ AdminIsReal /\ AnswerIsClean(r)
    BY <1>1 DEF Uncrossed
  <2>2. OneSignIn'
    <3>1. ASSUME NEW q \in calls', q.kind \in GateKinds
          PROVE  gateBusy' /\ ~authed' /\ \A p \in calls' : p.kind \in GateKinds => p = q
      <4>1. q \in calls /\ q # r /\ gateBusy /\ ~authed
            /\ \A p \in calls : p.kind \in GateKinds => p = q
        BY <1>4, <2>1, <3>1 DEF OneSignIn, GateKinds
      <4>2. r.kind \notin GateKinds \cup {"boot"}
        BY <2>1, <4>1 DEF BootIsAlone
      <4> QED BY <1>4, <2>1, <4>1, <4>2 DEF AnswerIsClean, GateKinds
    <3> QED BY <3>1 DEF OneSignIn
  <2>3. BootIsAlone'
    BY <1>4, <2>1 DEF BootIsAlone
  <2>4. \A q \in calls' : Probing(q) =>
           \/ q \in calls /\ authed /\ authed' /\ cookie' = cookie /\ token' \in {token, NoToken}
           \/ Opened(q)
    <3>1. ASSUME NEW q \in calls', Probing(q), ~Opened(q)
          PROVE  q \in calls /\ authed /\ authed' /\ cookie' = cookie /\ token' \in {token, NoToken}
      <4>1. q \in calls /\ q # r /\ (q.kind \in {"me", "config"} => authed' = authed)
        BY <3>1 DEF AnswerOf, Ignored, Probing
      <4>2. q.kind # "boot"
        BY <2>1, <4>1 DEF BootIsAlone
      <4>3. authed /\ authed'
        BY <1>1, <3>1, <4>1, <4>2 DEF SignedInOnly, Probing, Types, TypeOK
      <4> QED BY <2>1, <4>1, <4>3 DEF AnswerIsClean
    <3> QED BY <3>1
  <2>5. ProbeIsOurs'
    <3>1. Agree(cookie', token')
      BY <2>1 DEF AnswerIsClean
    <3>2. ASSUME NEW q \in calls', Probing(q), q.reply = "none"
          PROVE  /\ q.cookie = cookie' /\ (q.bearer = token' \/ token' = NoToken)
                 /\ Agree(q.cookie, q.bearer)
      <4>1. CASE Opened(q)
        BY <3>1, <4>1 DEF Opened
      <4>2. CASE q \in calls /\ cookie' = cookie /\ token' \in {token, NoToken}
        BY <2>1, <3>2, <4>2 DEF ProbeIsOurs
      <4> QED BY <2>4, <3>2, <4>1, <4>2
    <3> QED BY <3>1, <3>2 DEF ProbeIsOurs, Probing
  <2>6. AdminIsReal'
    <3>1. ASSUME NEW q \in calls', Probing(q), q.reply = "ok",
                 q.kind = "config" \/ q.role = "admin"
          PROVE  AdminsOnly'
      <4>1. q \in calls /\ authed' /\ cookie' = cookie /\ token' \in {token, NoToken}
        BY <2>4, <3>1 DEF Opened
      <4>2. AdminsOnly
        BY <2>1, <3>1, <4>1 DEF AdminIsReal
      <4> QED BY <4>1, <4>2, AdminsKept
    <3> QED BY <2>1, <3>1 DEF AdminIsReal, AnswerIsClean, Probing
  <2>7. OutIsClean'
    BY <1>4, <2>1 DEF OutIsClean, AnswerIsClean, GateKinds
  <2> QED BY <2>2, <2>3, <2>5, <2>6, <2>7
<1> QED BY <1>2, <1>5, <1>6, <1>7 DEF SessionInv, AppInv

\* An answer whose handler leaves the other calls in flight.
LEMMA AnswerCalls ==
  ASSUME SessionInv, NEW r \in calls, NEW a \in BOOLEAN, NEW c, NEW u,
         Render(a, c, u, calls \ {r}), Answered(r), token' \in Creds, cookie' \in Creds,
         gateBusy' \in BOOLEAN, out' \in BOOLEAN, u \in Roles
  PROVE  /\ AnswerOf(r) /\ authed' = a
         /\ (~a /\ authed) => me' = "none"
         /\ (a \/ ~authed) => me' = u
<1>1. /\ authed \in BOOLEAN /\ fallen \subseteq Users /\ \A q \in calls \ {r} : WellFormed(q)
      /\ \A q \in calls \ {r} : q.reply = "ok" /\ q.kind \in {"me", "config"} => ~Required
  BY DEF SessionInv, Types, TypeOK, AppInv, Settled
<1>2. /\ \A q \in calls' : \/ q \in calls \ {r} /\ (q.kind \in {"me", "config"} => authed' = authed)
                           \/ Ignored(q)
                           \/ Opened(q) /\ authed' /\ ~authed
      /\ \A q \in calls \ {r} : q.kind = "legacy" => q \in calls'
  BY <1>1, AfterRender
<1>3. /\ authed' = a /\ checking' \in BOOLEAN
      /\ (~a /\ authed) => me' = "none"
      /\ (a \/ ~authed) => me' = u
      /\ fallen' = (IF ~a /\ authed THEN {} ELSE fallen)
  BY <1>1, RenderFacts
<1>4. me' \in Roles
  BY <1>1, <1>3 DEF Roles
<1> QED BY <1>1, <1>2, <1>3, <1>4 DEF AnswerOf, Answered, people

LEMMA CallFacts ==
  ASSUME SessionInv, NEW r \in calls
  PROVE  /\ onboarding = "over" /\ WellFormed(r)
         /\ token \in Creds /\ cookie \in Creds /\ NoToken \in Creds
         /\ me \in Roles /\ authed \in BOOLEAN /\ gateBusy \in BOOLEAN
         /\ out \in BOOLEAN /\ checking \in BOOLEAN
         /\ r.role \in Roles /\ r.live \in BOOLEAN /\ fallen \subseteq Users
         /\ Settled /\ SignedInOnly
         /\ ~crossed => OneSignIn /\ BootIsAlone /\ ProbeIsOurs /\ AdminIsReal /\ OutIsClean
<1>1. Types /\ Settled /\ SignedInOnly /\ Uncrossed
  BY DEF SessionInv, AppInv
<1> QED BY <1>1, Constants DEF Types, TypeOK, Creds, WellFormed, Uncrossed, Roles

LEMMA KeptTokenFacts ==
  ASSUME NEW r, KeepToken(r), token \in Creds
  PROVE  token' \in {token, NoToken} /\ token' \in Creds
BY Constants DEF KeepToken

LEMMA BootAnsweredInv ==
  ASSUME SessionInv, NEW r \in calls, BootAnswered(r)
  PROVE  SessionInv'
<1>1. /\ onboarding = "over" /\ WellFormed(r) /\ Settled /\ SignedInOnly
      /\ token' \in {token, NoToken} /\ token' \in Creds /\ cookie' = cookie /\ cookie \in Creds
      /\ authed \in BOOLEAN /\ gateBusy \in BOOLEAN /\ out \in BOOLEAN /\ out' = out
      /\ r.kind = "boot" /\ Answered(r) /\ gateBusy' = (gateBusy /\ ~authed')
      /\ ~crossed => OneSignIn /\ BootIsAlone /\ ProbeIsOurs /\ AdminIsReal /\ OutIsClean
  BY CallFacts, KeptTokenFacts DEF BootAnswered, GateKept
<1>2. AnswerOf(r) /\ authed' = (r.reply = "ok")
      /\ (r.reply # "ok" /\ authed => me' = "none")
      /\ (r.reply # "ok" /\ ~authed => me' = me)
      /\ (r.reply = "ok" => me' = r.role)
  <2>1. r.role \in Roles /\ me \in Roles
    BY CallFacts
  <2>2. gateBusy' \in BOOLEAN /\ out' \in BOOLEAN
    BY <1>1
  <2>3. CASE r.reply = "ok"
    <3>1. Render(TRUE, FALSE, r.role, calls \ {r})
      BY <2>3 DEF BootAnswered
    <3> QED BY <1>1, <2>1, <2>2, <2>3, <3>1, AnswerCalls
  <2>4. CASE r.reply # "ok"
    <3>1. Render(FALSE, FALSE, me, calls \ {r})
      BY <2>4 DEF BootAnswered
    <3> QED BY <1>1, <2>1, <2>2, <2>4, <3>1, AnswerCalls
  <2> QED BY <2>3, <2>4
<1>3. AnswerIsSettled(r)
  BY <1>1, <1>2 DEF AnswerIsSettled, Settled, SignedInOnly
<1>4. ~crossed => AnswerIsClean(r)
  <2> SUFFICES ASSUME ~crossed
               PROVE  AnswerIsClean(r)
    OBVIOUS
  <2>1. ~authed /\ \A q \in calls : q = r
    BY <1>1 DEF BootIsAlone
  <2>2. out => r.reply # "ok"
    BY <1>1 DEF BootIsAlone, OutIsClean
  <2>3. Agree(cookie', token')
    BY <1>1 DEF ProbeIsOurs, Agree
  <2>4. authed' /\ me' = "admin" => AdminsOnly'
    <3>1. r.live = TRUE
      BY <1>1 DEF WellFormed
    <3>2. authed' /\ me' = "admin" => AdminsOnly
      BY <1>1, <1>2, <3>1 DEF AdminIsReal, Probing
    <3> QED BY <1>1, <1>2, <2>1, <3>2, AdminsKept
  <2>5. out' => ~authed' /\ token' = NoToken /\ cookie' = NoToken
    BY <1>1, <1>2, <2>2 DEF OutIsClean
  <2> QED BY <1>1, <2>1, <2>3, <2>4, <2>5 DEF AnswerIsClean
<1> QED BY <1>2, <1>3, <1>4, AnsweredInv

\* An answer that changes no more than the token, and leaves who is signed in as it is.
LEMMA QuietAnswerInv ==
  ASSUME SessionInv, NEW r \in calls, Answered(r), r.kind \notin {"legacy", "boot"}, r.kind \in CallKinds,
         AnswerOf(r), authed' = authed, me' = me, token' \in {token, NoToken}, cookie' = cookie, out' = out,
         r.kind \notin GateKinds => gateBusy' = gateBusy
  PROVE  SessionInv'
<1>1. /\ onboarding = "over" /\ Settled /\ SignedInOnly /\ authed \in BOOLEAN
      /\ ~crossed => OneSignIn /\ BootIsAlone /\ ProbeIsOurs /\ AdminIsReal /\ OutIsClean
  BY CallFacts
<1>2. AnswerIsSettled(r)
  BY <1>1 DEF AnswerIsSettled, Settled, SignedInOnly
<1>3. ~crossed => AnswerIsClean(r)
  <2> SUFFICES ASSUME ~crossed
               PROVE  AnswerIsClean(r)
    OBVIOUS
  <2>1. Agree(cookie', token')
    BY <1>1 DEF ProbeIsOurs, Agree
  <2>2. authed' /\ me' = "admin" => AdminsOnly'
    BY <1>1, AdminsKept DEF AdminIsReal
  <2>3. out' => /\ ~authed' /\ token' = NoToken /\ cookie' = NoToken
                /\ \A q \in calls : q.kind \in GateKinds => q = r
    BY <1>1 DEF OutIsClean
  <2> QED BY <2>1, <2>2, <2>3 DEF AnswerIsClean
<1> QED BY <1>2, <1>3, AnsweredInv

LEMMA MeAnsweredInv ==
  ASSUME SessionInv, NEW r \in calls, MeAnswered(r)
  PROVE  SessionInv'
<1>1. /\ onboarding = "over" /\ WellFormed(r) /\ Settled /\ SignedInOnly
      /\ token' \in {token, NoToken} /\ token' \in Creds /\ cookie' = cookie /\ cookie \in Creds
      /\ authed \in BOOLEAN /\ gateBusy \in BOOLEAN /\ out \in BOOLEAN /\ out' = out
      /\ r.kind = "me" /\ Answered(r) /\ gateBusy' = gateBusy
      /\ ~crossed => OneSignIn /\ BootIsAlone /\ ProbeIsOurs /\ AdminIsReal /\ OutIsClean
  BY CallFacts, KeptTokenFacts DEF MeAnswered
<1>2. \/ ~r.live /\ Render(authed, checking, me, calls \ {r})
      \/ r.live /\ r.reply = "ok" /\ Render(authed, FALSE, r.role, calls \ {r})
      \/ r.live /\ r.reply # "ok"
         /\ Render(authed, checking, me, (calls \ {r}) \cup {Call("config", NoUser, 0)})
  <2>1. (CASE ~r.live -> Render(authed, checking, me, calls \ {r})
           [] r.live /\ r.reply = "ok" -> Render(authed, FALSE, r.role, calls \ {r})
           [] OTHER -> Render(authed, checking, me, (calls \ {r}) \cup {Call("config", NoUser, 0)}))
    BY DEF MeAnswered
  <2> QED BY <2>1, Zenon
<1>3. /\ r.role \in Roles /\ me \in Roles
      /\ gateBusy' \in BOOLEAN /\ out' \in BOOLEAN
  BY <1>1, CallFacts
<1>4. CASE ~r.live /\ Render(authed, checking, me, calls \ {r})
  <2>1. AnswerOf(r) /\ authed' = authed /\ me' = me
    BY <1>1, <1>3, <1>4, AnswerCalls
  <2> QED BY <1>1, <2>1, QuietAnswerInv DEF CallKinds
<1>5. CASE r.live /\ r.reply = "ok" /\ Render(authed, FALSE, r.role, calls \ {r})
  <2>1. authed
    BY <1>1, <1>5 DEF SignedInOnly
  <2>2. AnswerOf(r) /\ authed' /\ me' = r.role
    BY <1>1, <1>3, <1>5, <2>1, AnswerCalls
  <2>3. AnswerIsSettled(r)
    BY <1>1, <2>1, <2>2 DEF AnswerIsSettled, Settled
  <2>4. ~crossed => AnswerIsClean(r)
    <3> SUFFICES ASSUME ~crossed
                 PROVE  AnswerIsClean(r)
      OBVIOUS
    <3>1. Agree(cookie', token')
      BY <1>1 DEF ProbeIsOurs, Agree
    <3>2. authed' /\ me' = "admin" => AdminsOnly'
      BY <1>1, <1>5, <2>2, AdminsKept DEF AdminIsReal, Probing
    <3>3. ~out'
      BY <1>1, <2>1 DEF OutIsClean
    <3> QED BY <1>1, <2>1, <3>1, <3>2, <3>3 DEF AnswerIsClean
  <2> QED BY <2>2, <2>3, <2>4, AnsweredInv
<1>6. CASE r.live /\ r.reply # "ok"
           /\ Render(authed, checking, me, (calls \ {r}) \cup {Call("config", NoUser, 0)})
  <2>1. authed
    BY <1>1, <1>6 DEF SignedInOnly
  <2>2. /\ authed' = authed /\ checking' \in BOOLEAN /\ me' = me /\ fallen' = fallen
        /\ calls' = (calls \ {r}) \cup {Call("config", NoUser, 0)}
    <3> DEFINE cs == (calls \ {r}) \cup {Call("config", NoUser, 0)}
    <3>1. Render(authed, checking, me, cs)
      BY <1>6
    <3> HIDE DEF cs
    <3>2. /\ authed' = authed /\ checking' = (checking /\ (authed \/ ~authed))
          /\ me' = (IF ~authed /\ authed THEN "none" ELSE me)
          /\ fallen' = (IF ~authed /\ authed THEN {} ELSE fallen)
          /\ calls' = CASE authed = authed -> cs
                        [] authed /\ ~authed -> Dead(cs) \cup {Call("me", NoUser, 0)}
                        [] ~authed /\ authed -> Dead(cs)
      BY <3>1 DEF Render
    <3>3. calls' = cs
      BY <3>2, Zenon
    <3> QED BY <3>2, <3>3 DEF cs
  <2>3. Opened(Call("config", NoUser, 0))
    BY <1>1, NewProbe
  <2>4. AnswerOf(r)
    <3>1. fallen \subseteq Users
      BY CallFacts
    <3> QED BY <1>1, <1>3, <2>1, <2>2, <2>3, <3>1 DEF AnswerOf, Answered, people
  <2> QED BY <1>1, <2>2, <2>4, QuietAnswerInv DEF CallKinds
<1> QED BY <1>2, <1>4, <1>5, <1>6

LEMMA ConfigAnsweredInv ==
  ASSUME SessionInv, NEW r \in calls, ConfigAnswered(r)
  PROVE  SessionInv'
<1>1. /\ onboarding = "over" /\ WellFormed(r) /\ Settled /\ SignedInOnly
      /\ token' \in {token, NoToken} /\ token' \in Creds /\ cookie' = cookie /\ cookie \in Creds
      /\ authed \in BOOLEAN /\ gateBusy \in BOOLEAN /\ out \in BOOLEAN /\ out' = out
      /\ r.kind = "config" /\ Answered(r) /\ gateBusy' = (gateBusy /\ ~authed')
      /\ ~crossed => OneSignIn /\ BootIsAlone /\ ProbeIsOurs /\ AdminIsReal /\ OutIsClean
  BY CallFacts, KeptTokenFacts DEF ConfigAnswered, GateKept
<1>2. \/ ~r.live /\ Render(authed, checking, me, calls \ {r})
      \/ r.live /\ r.reply = "ok" /\ Render(authed, FALSE, "admin", calls \ {r})
      \/ r.live /\ r.reply # "ok" /\ Render(FALSE, FALSE, me, calls \ {r})
  <2>1. (CASE ~r.live -> Render(authed, checking, me, calls \ {r})
           [] r.live /\ r.reply = "ok" -> Render(authed, FALSE, "admin", calls \ {r})
           [] OTHER -> Render(FALSE, FALSE, me, calls \ {r}))
    BY DEF ConfigAnswered
  <2> QED BY <2>1, Zenon
<1>3. /\ "admin" \in Roles /\ me \in Roles
      /\ gateBusy' \in BOOLEAN /\ out' \in BOOLEAN
  BY <1>1, CallFacts DEF Roles
<1>4. r.live => authed
  BY <1>1 DEF SignedInOnly
<1>5. CASE ~r.live /\ Render(authed, checking, me, calls \ {r})
  <2>1. AnswerOf(r) /\ authed' = authed /\ me' = me
    BY <1>1, <1>3, <1>5, AnswerCalls
  <2>2. AnswerIsSettled(r)
    BY <1>1, <2>1 DEF AnswerIsSettled, Settled, SignedInOnly
  <2>3. ~crossed => AnswerIsClean(r)
    <3> SUFFICES ASSUME ~crossed
                 PROVE  AnswerIsClean(r)
      OBVIOUS
    <3>1. Agree(cookie', token')
      BY <1>1 DEF ProbeIsOurs, Agree
    <3>2. authed' /\ me' = "admin" => AdminsOnly'
      BY <1>1, <2>1, AdminsKept DEF AdminIsReal
    <3> QED BY <1>1, <2>1, <3>1, <3>2 DEF AnswerIsClean, OutIsClean
  <2> QED BY <2>1, <2>2, <2>3, AnsweredInv
<1>6. CASE r.live /\ r.reply = "ok" /\ Render(authed, FALSE, "admin", calls \ {r})
  <2>1. AnswerOf(r) /\ authed' /\ authed /\ me' = "admin"
    BY <1>1, <1>3, <1>4, <1>6, AnswerCalls
  <2>2. AnswerIsSettled(r)
    BY <1>1, <2>1 DEF AnswerIsSettled, Settled
  <2>3. ~crossed => AnswerIsClean(r)
    <3> SUFFICES ASSUME ~crossed
                 PROVE  AnswerIsClean(r)
      OBVIOUS
    <3>1. Agree(cookie', token')
      BY <1>1 DEF ProbeIsOurs, Agree
    <3>2. AdminsOnly'
      <4>1. AdminsOnly
        BY <1>1, <1>6 DEF AdminIsReal, Probing
      <4> QED BY <1>1, <2>1, <4>1, AdminsKept
    <3>3. ~out'
      BY <1>1, <2>1 DEF OutIsClean
    <3> QED BY <1>1, <2>1, <3>1, <3>2, <3>3 DEF AnswerIsClean
  <2> QED BY <2>1, <2>2, <2>3, AnsweredInv
<1>7. CASE r.live /\ r.reply # "ok" /\ Render(FALSE, FALSE, me, calls \ {r})
  <2>1. AnswerOf(r) /\ ~authed' /\ authed /\ me' = "none"
    BY <1>1, <1>3, <1>4, <1>7, AnswerCalls
  <2>2. AnswerIsSettled(r)
    BY <1>1, <2>1 DEF AnswerIsSettled, Settled
  <2>3. ~crossed => AnswerIsClean(r)
    <3>1. ~crossed => Agree(cookie', token')
      BY <1>1 DEF ProbeIsOurs, Agree
    <3>2. ~crossed => ~out'
      BY <1>1, <2>1 DEF OutIsClean
    <3> QED BY <1>1, <2>1, <3>1, <3>2 DEF AnswerIsClean
  <2> QED BY <2>1, <2>2, <2>3, AnsweredInv
<1> QED BY <1>2, <1>5, <1>6, <1>7

LEMMA OtherAnswersInv ==
  ASSUME SessionInv, NEW r \in calls, StartFailed(r) \/ PageAnswered(r)
  PROVE  SessionInv'
<1>1. /\ WellFormed(r) /\ token \in Creds /\ cookie \in Creds /\ authed \in BOOLEAN
      /\ gateBusy \in BOOLEAN /\ out \in BOOLEAN /\ me \in Roles
  BY CallFacts
<1>2. /\ KeepToken(r) /\ UNCHANGED <<cookie, out>> /\ Answered(r)
      /\ Render(authed, checking, me, calls \ {r})
      /\ (r.kind = "start" /\ gateBusy' = FALSE) \/ (r.kind = "page" /\ gateBusy' = gateBusy)
  BY DEF StartFailed, PageAnswered
<1>3. token' \in {token, NoToken} /\ token' \in Creds
  BY <1>1, <1>2, KeptTokenFacts
<1>4. cookie' \in Creds /\ gateBusy' \in BOOLEAN /\ out' \in BOOLEAN
  BY <1>1, <1>2
<1>5. AnswerOf(r) /\ authed' = authed /\ me' = me
  BY <1>1, <1>2, <1>3, <1>4, AnswerCalls
<1> QED BY <1>2, <1>3, <1>5, QuietAnswerInv DEF CallKinds, GateKinds

LEMMA LoginOverInv ==
  ASSUME SessionInv, NEW r \in calls, LoginOver(r)
  PROVE  SessionInv'
<1>1. /\ onboarding = "over" /\ WellFormed(r) /\ Settled /\ SignedInOnly
      /\ token \in Creds /\ cookie \in Creds /\ NoToken \in Creds
      /\ authed \in BOOLEAN /\ out \in BOOLEAN /\ out' = out
      /\ me \in Roles
      /\ r.kind = "login" /\ Answered(r) /\ gateBusy' = FALSE
      /\ ~crossed => OneSignIn /\ BootIsAlone /\ ProbeIsOurs /\ AdminIsReal /\ OutIsClean
  BY CallFacts DEF LoginOver
<1>2. server.stamped /\ ~Required
  BY <1>1 DEF Settled, Required
<1>3. gateBusy' \in BOOLEAN /\ out' \in BOOLEAN
  BY <1>1
<1>4. CASE r.reply = "ok"
  <2>1. /\ token' = [user |-> r.user, jti |-> r.n] /\ cookie' = token'
        /\ Render(TRUE, checking, me, calls \ {r})
    BY <1>4 DEF LoginOver
  <2>2. token' \in Creds /\ cookie' \in Creds
    <3>1. r.user \in Users /\ r.n \in 0..MaxTokens + 1
      BY <1>1, Constants DEF WellFormed
    <3> QED BY <2>1, <3>1 DEF Creds, Tokens
  <2>3. AnswerOf(r) /\ authed' /\ me' = me
    BY <1>1, <1>3, <2>1, <2>2, AnswerCalls
  <2>4. AnswerIsSettled(r)
    BY <1>2, <2>3 DEF AnswerIsSettled
  <2>5. ~crossed => AnswerIsClean(r)
    <3> SUFFICES ASSUME ~crossed
                 PROVE  AnswerIsClean(r)
      OBVIOUS
    <3>1. ~authed /\ me = "none"
      BY <1>1 DEF OneSignIn, GateKinds, SignedInOnly
    <3>2. ~out'
      BY <1>1 DEF OutIsClean, GateKinds
    <3>3. me' # "admin"
      BY <2>3, <3>1
    <3> QED BY <1>1, <2>1, <3>1, <3>2, <3>3 DEF AnswerIsClean, GateKinds, Agree
  <2> QED BY <2>3, <2>4, <2>5, AnsweredInv
<1>5. CASE r.reply # "ok"
  <2>1. KeepToken(r) /\ cookie' = cookie /\ Render(authed, checking, me, calls \ {r})
    BY <1>5 DEF LoginOver
  <2>2. token' \in {token, NoToken} /\ token' \in Creds /\ cookie' \in Creds
    BY <1>1, <2>1, KeptTokenFacts
  <2>3. AnswerOf(r) /\ authed' = authed /\ me' = me
    BY <1>1, <1>3, <2>1, <2>2, AnswerCalls
  <2> QED BY <1>1, <2>1, <2>2, <2>3, QuietAnswerInv DEF CallKinds, GateKinds
<1> QED BY <1>4, <1>5

LEMMA PasteOverInv ==
  ASSUME SessionInv, NEW r \in calls, PasteOver(r)
  PROVE  SessionInv'
<1>1. /\ onboarding = "over" /\ WellFormed(r) /\ Settled /\ SignedInOnly
      /\ token \in Creds /\ cookie \in Creds /\ NoToken \in Creds
      /\ authed \in BOOLEAN /\ out \in BOOLEAN /\ out' = out
      /\ me \in Roles
      /\ r.kind = "legacy" /\ Answered(r) /\ gateBusy' = FALSE
      /\ ~crossed => OneSignIn /\ BootIsAlone /\ ProbeIsOurs /\ AdminIsReal /\ OutIsClean
  BY CallFacts DEF PasteOver
<1>2. /\ token' = (IF r.reply = "ok" THEN token ELSE NoToken) /\ cookie' = cookie
      /\ Render(authed \/ r.reply = "ok", checking, me, calls \ {r})
  BY DEF PasteOver
<1>3. /\ gateBusy' \in BOOLEAN /\ out' \in BOOLEAN /\ (authed \/ r.reply = "ok") \in BOOLEAN
      /\ token' \in Creds /\ cookie' \in Creds
  BY <1>1, <1>2
<1>4. AnswerOf(r) /\ authed' = (authed \/ r.reply = "ok")
  BY <1>1, <1>2, <1>3, AnswerCalls
<1>5. me' = me
  BY <1>1, <1>2, <1>3, AnswerCalls
<1>6. AnswerIsSettled(r)
  BY <1>1, <1>2, <1>4, <1>5 DEF AnswerIsSettled, Settled, SignedInOnly
<1>7. ~crossed => AnswerIsClean(r)
  <2> SUFFICES ASSUME ~crossed
               PROVE  AnswerIsClean(r)
    OBVIOUS
  <2>1. ~authed /\ me = "none"
    BY <1>1 DEF OneSignIn, GateKinds, SignedInOnly
  <2>2. ~out'
    BY <1>1 DEF OutIsClean, GateKinds
  <2>3. me' # "admin"
    BY <1>5, <2>1
  <2>4. Agree(cookie', token')
    BY <1>1, <1>2 DEF ProbeIsOurs, Agree
  <2> QED BY <1>1, <2>1, <2>2, <2>3, <2>4 DEF AnswerIsClean, GateKinds
<1> QED BY <1>4, <1>6, <1>7, AnsweredInv

LEMMA SignedOutInv ==
  ASSUME SessionInv, NEW r \in calls, SignedOut(r)
  PROVE  SessionInv'
<1>1. /\ onboarding = "over" /\ WellFormed(r) /\ Settled /\ SignedInOnly
      /\ cookie \in Creds /\ NoToken \in Creds /\ authed \in BOOLEAN /\ gateBusy \in BOOLEAN
      /\ me \in Roles
      /\ r.kind = "logout" /\ Answered(r)
      /\ ~crossed => OneSignIn /\ BootIsAlone /\ ProbeIsOurs /\ AdminIsReal /\ OutIsClean
  BY CallFacts DEF SignedOut
<1>2. /\ token' = NoToken /\ cookie' = (IF r.reply = "ok" THEN NoToken ELSE cookie)
      /\ out' = (r.reply = "ok" /\ ~gateBusy)
      /\ Render(FALSE, checking, me, calls \ {r})
      /\ gateBusy' = (gateBusy /\ ~authed')
  BY DEF SignedOut, GateKept
<1>3. /\ gateBusy' \in BOOLEAN /\ out' \in BOOLEAN /\ FALSE \in BOOLEAN
      /\ token' \in Creds /\ cookie' \in Creds
  BY <1>1, <1>2
<1>4. AnswerOf(r) /\ authed' = FALSE /\ (~authed => me' = me) /\ (authed => me' = "none")
  BY <1>1, <1>2, <1>3, AnswerCalls
<1>5. AnswerIsSettled(r)
  BY <1>1, <1>2, <1>4 DEF AnswerIsSettled, Settled, SignedInOnly
<1>6. ~crossed => AnswerIsClean(r)
  <2> SUFFICES ASSUME ~crossed
               PROVE  AnswerIsClean(r)
    OBVIOUS
  <2>1. out' => \A q \in calls : q.kind \notin GateKinds
    BY <1>1, <1>2 DEF OneSignIn
  <2> QED BY <1>1, <1>2, <1>4, <2>1 DEF AnswerIsClean, Agree
<1> QED BY <1>4, <1>5, <1>6, AnsweredInv

(***************************************************************************)
(* Clicks in the gate and in the dashboard.                                *)
(***************************************************************************)
LEMMA GateInv ==
  ASSUME SessionInv, Gate, gateBusy' = TRUE, crossed' = (crossed \/ Booting), out' = FALSE,
         UNCHANGED <<server, cookie, onboarding, tab, storage, first, auth, asked, authed, checking,
                     me, fallen, people, signOuts>>,
         NEW q, WellFormed(q), q.kind \in GateKinds, q.reply = "none", calls' = calls \cup {q},
         token' \in Creds,
         \/ server.stamped /\ token' = token
         \/ ~server.stamped /\ q.kind = "legacy" /\ ~(token' # NoToken /\ token'.user \in Users)
  PROVE  SessionInv'
<1>1. /\ Types /\ WizardInv /\ Settled /\ SignedInOnly /\ Uncrossed
      /\ onboarding = "over" /\ ~authed /\ ~gateBusy
  BY DEF SessionInv, AppInv, Gate
<1>2. crossed' \in BOOLEAN /\ Required' = Required
  BY <1>1 DEF Types, Booting, Required, Access
<1>3. Types' /\ WizardInv'
  <2>1. WizardInv' /\ Arguments' /\ FormsType' /\ step' \in 1..5 /\ busy' \in BOOLEAN
        /\ overtaken' \in BOOLEAN
    BY <1>1, WizardGone DEF WizardAside
  <2>2. \A r \in calls' : WellFormed(r)
    BY <1>1 DEF Types
  <2> QED BY <1>1, <1>2, <2>1, <2>2, AppTypes DEF Types, TypeOK, Creds, Roles, people
<1>4. Settled'
  BY <1>1, <1>2 DEF Settled, GateKinds, Required, Access
<1>5. SignedInOnly'
  BY <1>1 DEF SignedInOnly, GateKinds
<1>6. Uncrossed'
  <2> SUFFICES ASSUME ~crossed, ~Booting
               PROVE  OneSignIn' /\ BootIsAlone' /\ ProbeIsOurs' /\ AdminIsReal' /\ OutIsClean'
    BY DEF Uncrossed
  <2>1. OneSignIn /\ ProbeIsOurs /\ AdminIsReal
    BY <1>1 DEF Uncrossed
  <2>2. \A r \in calls' : ~Probing(r)
    BY <1>1 DEF Probing, SignedInOnly, GateKinds, Booting
  <2>3. OneSignIn'
    BY <1>1, <2>1 DEF OneSignIn
  <2>4. BootIsAlone'
    BY DEF BootIsAlone, Booting, GateKinds
  <2>5. ProbeIsOurs'
    <3>1. Agree(cookie', token')
      BY <1>1, <2>1 DEF ProbeIsOurs, Agree, Settled
    <3> QED BY <2>2, <3>1 DEF ProbeIsOurs, Probing
  <2>6. AdminIsReal'
    BY <1>1, <2>2 DEF AdminIsReal, Probing
  <2>7. OutIsClean'
    BY DEF OutIsClean
  <2> QED BY <2>3, <2>4, <2>5, <2>6, <2>7
<1> QED BY <1>3, <1>4, <1>5, <1>6 DEF SessionInv, AppInv

LEMMA SignInInv ==
  ASSUME SessionInv, (\E u \in Users : SignIn("login", u)) \/ SignIn("start", NoUser)
  PROVE  SessionInv'
<1>1. token \in Creds /\ cookie \in Creds
  BY DEF SessionInv, Types, TypeOK, Creds
<1>2. PICK kind \in {"login", "start"}, u \in Users \cup {NoUser} :
        SignIn(kind, u) /\ (kind = "login" => u \in Users)
  OBVIOUS
<1>3. /\ Gate /\ server.stamped /\ gateBusy' = TRUE
      /\ crossed' = (crossed \/ Booting) /\ out' = FALSE
      /\ UNCHANGED <<server, token, cookie, onboarding, tab, storage, first, auth, asked, authed,
                     checking, me, fallen, people, signOuts>>
      /\ calls' = calls \cup {Call(kind, u, 0)}
  BY <1>2 DEF SignIn, wizardVars, browser
<1>4. /\ WellFormed(Call(kind, u, 0)) /\ Call(kind, u, 0).kind \in GateKinds
      /\ Call(kind, u, 0).reply = "none"
  <2>1. 0 \in Nat /\ 0 <= MaxTokens /\ kind \in CallKinds /\ u \in Users \cup {Legacy, NoUser}
        /\ kind \in GateKinds
    BY Constants DEF CallKinds, GateKinds
  <2>2. token' \in Creds /\ cookie' \in Creds
    BY <1>1, <1>3
  <2> QED BY <1>2, <2>1, <2>2, NewCall
<1> DEFINE q == Call(kind, u, 0)
<1> HIDE DEF q
<1>5. WellFormed(q) /\ q.kind \in GateKinds /\ q.reply = "none" /\ calls' = calls \cup {q}
  BY <1>3, <1>4 DEF q
<1> QED BY <1>1, <1>3, <1>5, GateInv

LEMMA PasteInv ==
  ASSUME SessionInv, NEW t \in {LegacyToken, WrongToken}, Paste(t)
  PROVE  SessionInv'
<1>1. cookie \in Creds /\ MaxTokens \in Nat
  BY WizardAssumption DEF SessionInv, Types, TypeOK, Creds
<1>2. t \in Tokens /\ t.user \notin Users
  <2>1. 0 \in 0..MaxTokens + 1 /\ MaxTokens + 1 \in 0..MaxTokens + 1
    BY <1>1
  <2>2. Legacy \notin Users /\ NoUser \notin Users
    BY Constants DEF Users
  <2> QED BY <2>1, <2>2 DEF LegacyToken, WrongToken, Tokens
<1>3. /\ Gate /\ ~server.stamped /\ gateBusy' = TRUE
      /\ crossed' = (crossed \/ Booting) /\ out' = FALSE /\ token' = t
      /\ UNCHANGED <<server, cookie, onboarding, tab, storage, first, auth, asked, authed,
                     checking, me, fallen, people, signOuts>>
      /\ calls' = calls \cup {Call("legacy", NoUser, 0)}
  BY DEF Paste
<1>4. /\ WellFormed(Call("legacy", NoUser, 0)) /\ Call("legacy", NoUser, 0).kind = "legacy"
      /\ Call("legacy", NoUser, 0).reply = "none" /\ token' \in Creds
  <2>1. token' \in Creds /\ cookie' \in Creds
    BY <1>1, <1>2, <1>3 DEF Creds
  <2>2. "legacy" \in CallKinds /\ "legacy" # "login" /\ NoUser \in Users \cup {Legacy, NoUser} /\ 0 \in Nat
    BY DEF CallKinds
  <2>3. WellFormed(Call("legacy", NoUser, 0)) /\ Call("legacy", NoUser, 0).kind = "legacy"
        /\ Call("legacy", NoUser, 0).reply = "none"
    BY <2>1, <2>2, NewCall, Zenon
  <2> QED BY <2>1, <2>3
<1> DEFINE q == Call("legacy", NoUser, 0)
<1> HIDE DEF q
<1>5. WellFormed(q) /\ q.kind = "legacy" /\ q.reply = "none" /\ calls' = calls \cup {q}
  BY <1>3, <1>4 DEF q
<1>6. q.kind \in GateKinds
  BY <1>5 DEF GateKinds
<1> QED BY <1>2, <1>3, <1>4, <1>5, <1>6, GateInv

LEMMA DashboardInv ==
  ASSUME SessionInv, OpenPage \/ SignOut
  PROVE  SessionInv'
<1>1. /\ Types /\ WizardInv /\ Settled /\ SignedInOnly /\ Uncrossed
      /\ onboarding = "over" /\ authed
  BY DEF SessionInv, AppInv, OpenPage, SignOut, Dashboard
<1>2. PICK kind \in {"page", "logout"}, n \in Nat :
        calls' = calls \cup {Call(kind, NoUser, n)}
  <2>1. signOuts + 1 \in Nat /\ 0 \in Nat
    BY <1>1 DEF Types
  <2> QED BY <2>1 DEF OpenPage, SignOut
<1>3. /\ UNCHANGED <<server, token, cookie, onboarding, tab, storage, first, auth, asked, authed,
                     checking, me, gateBusy, fallen, roles, crossed, out>>
      /\ signOuts' \in Nat
  <2>1. signOuts \in Nat
    BY <1>1 DEF Types
  <2> QED BY <2>1 DEF OpenPage, SignOut, wizardVars, browser, people, sessionVars
<1> DEFINE q == Call(kind, NoUser, n)
<1>4. WellFormed(q) /\ q.kind \in {"page", "logout"} /\ q.reply = "none"
  <2>1. token' \in Creds /\ cookie' \in Creds
    BY <1>1, <1>3 DEF Types, TypeOK, Creds
  <2>2. kind \in CallKinds /\ kind # "login" /\ kind \in {"page", "logout"}
    BY DEF CallKinds
  <2>3. WellFormed(q) /\ q.kind = kind /\ q.reply = "none"
    BY <2>1, <2>2, NewRequest
  <2> QED BY <2>2, <2>3
<1> HIDE DEF q
<1>5. calls' = calls \cup {q}
  BY <1>2 DEF q
<1>6. Required' = Required /\ ~Required
  BY <1>1, <1>3 DEF Required, Access, Settled
<1>7. Types' /\ WizardInv'
  <2>1. WizardInv' /\ Arguments' /\ FormsType' /\ step' \in 1..5 /\ busy' \in BOOLEAN
        /\ overtaken' \in BOOLEAN
    BY <1>1, <1>3, WizardGone DEF WizardAside
  <2>2. \A r \in calls' : WellFormed(r)
    BY <1>1, <1>4, <1>5 DEF Types
  <2> QED BY <1>1, <1>3, <2>1, <2>2, AppTypes DEF Types, TypeOK, Creds, Roles
<1>8. Settled'
  BY <1>1, <1>3, <1>4, <1>5, <1>6 DEF Settled
<1>9. SignedInOnly'
  BY <1>1, <1>3 DEF SignedInOnly
<1>10. Uncrossed'
  <2> SUFFICES ASSUME ~crossed
               PROVE  OneSignIn' /\ BootIsAlone' /\ ProbeIsOurs' /\ AdminIsReal' /\ OutIsClean'
    BY <1>3 DEF Uncrossed
  <2>1. OneSignIn /\ BootIsAlone /\ ProbeIsOurs /\ AdminIsReal /\ OutIsClean
    BY <1>1 DEF Uncrossed
  <2>2. OneSignIn'
    BY <1>1, <1>4, <1>5, <2>1 DEF OneSignIn, GateKinds
  <2>3. BootIsAlone'
    BY <1>1, <1>4, <1>5, <2>1 DEF BootIsAlone
  <2>4. ProbeIsOurs'
    BY <1>3, <1>4, <1>5, <2>1 DEF ProbeIsOurs, Probing
  <2>5. AdminIsReal'
    BY <1>3, <1>4, <1>5, <2>1 DEF AdminIsReal, Probing, AdminsOnly, Rightful
  <2>6. OutIsClean'
    BY <1>1, <1>3, <2>1 DEF OutIsClean
  <2> QED BY <2>2, <2>3, <2>4, <2>5, <2>6
<1> QED BY <1>7, <1>8, <1>9, <1>10 DEF SessionInv, AppInv

(***************************************************************************)
(* A page that starts anew, and how the page behind the wizard comes up.   *)
(***************************************************************************)
LEMMA NewPageInv ==
  ASSUME SessionInv, NewPage, UNCHANGED overtaken, token' = token,
         onboarding' = "unresolved",
         authed' = FALSE, checking' = FALSE, me' = "none", gateBusy' = FALSE, calls' = {},
         fallen' = {}, roles' = roles,
         out' = out, signOuts' \in Nat, crossed' \in BOOLEAN, crossed => crossed',
         server' \in Server, cookie' \in Creds, server.stamped => server'.stamped,
         Required' => Required, server'.valid # {} => ~Required',
         cookie' # NoToken => server'.stamped,
         token # NoToken => ~Required',
         ~crossed' => Agree(cookie', token') /\ (out => token = NoToken /\ cookie' = NoToken)
  PROVE  SessionInv'
<1>1. Types /\ WizardInv /\ Settled /\ out \in BOOLEAN
  BY DEF SessionInv, AppInv, Types
<1>2. Types' /\ WizardInv'
  <2>1. WizardInv' /\ Arguments' /\ FormsType' /\ step' \in 1..5 /\ busy' \in BOOLEAN
        /\ overtaken' \in BOOLEAN
    BY <1>1, WizardGone DEF WizardAside
  <2> QED BY <1>1, <2>1, AppTypes DEF Types, TypeOK, Creds, Roles
<1>3. Settled' /\ SignedInOnly'
  BY <1>1 DEF Settled, SignedInOnly
<1>4. Uncrossed'
  BY DEF Uncrossed, OneSignIn, BootIsAlone, ProbeIsOurs, AdminIsReal, OutIsClean
<1> QED BY <1>2, <1>3, <1>4 DEF SessionInv, AppInv

LEMMA ReloadInv ==
  ASSUME SessionInv, Reload
  PROVE  SessionInv'
<1>1. /\ Types /\ Settled /\ Uncrossed
  BY DEF SessionInv, AppInv
<1>2. /\ calls = {} /\ calls' = {} /\ NewPage /\ onboarding' = "unresolved"
      /\ authed' = FALSE /\ checking' = FALSE /\ me' = "none" /\ gateBusy' = FALSE
      /\ fallen' = {} /\ roles' = roles
      /\ UNCHANGED <<server, token, cookie, overtaken, signOuts, crossed, out>>
  BY DEF Reload, browser, people
<1>3. Required' = Required
  BY <1>2 DEF Required, Access
<1>4. token # NoToken => ~Required
  BY <1>1, <1>2 DEF Settled
<1>5. server.valid # {} => ~Required
  BY <1>1 DEF Settled
<1>6. ~crossed => Agree(cookie, token) /\ (out => token = NoToken /\ cookie = NoToken)
  BY <1>1 DEF Uncrossed, ProbeIsOurs, OutIsClean
<1>7. cookie # NoToken => server.stamped
  BY <1>1 DEF Settled
<1>8. ~crossed' => Agree(cookie', token')
  BY <1>2, <1>6 DEF Agree
<1>9. /\ server' \in Server /\ cookie' \in Creds /\ signOuts' \in Nat /\ crossed' \in BOOLEAN
  BY <1>1, <1>2 DEF Types, TypeOK, Creds
<1> QED BY <1>2, <1>3, <1>4, <1>5, <1>6, <1>7, <1>8, <1>9, NewPageInv

LEMMA RedirectedInv ==
  ASSUME SessionInv, NEW r \in calls, NEW u \in Users \cup {NoUser}, Redirected(r, u)
  PROVE  SessionInv'
<1>1. /\ Types /\ Settled /\ Uncrossed /\ onboarding = "over" /\ server \in Server
      /\ token \in Creds /\ cookie \in Creds
  BY DEF SessionInv, AppInv, Types, TypeOK, Creds
<1>2. /\ r.kind = "start" /\ NewPage /\ onboarding' = "unresolved" /\ calls' = {}
      /\ authed' = FALSE /\ checking' = FALSE /\ me' = "none" /\ gateBusy' = FALSE
      /\ fallen' = {} /\ roles' = roles
      /\ UNCHANGED <<token, overtaken, signOuts, out>>
      /\ crossed' = (crossed \/ (u # NoUser /\ token # NoToken))
      /\ \/ server' = server /\ cookie' = cookie
         \/ u # NoUser /\ server.issued < MaxTokens /\ server' = [Issued EXCEPT !.account = TRUE]
            /\ cookie' = [user |-> u, jti |-> server.issued + 1]
  BY DEF Redirected, people
<1>3. server.stamped /\ ~Required
  BY <1>1, <1>2 DEF Settled, Required
<1>4. server' \in Server /\ server'.stamped /\ cookie' \in Creds /\ ~Required'
  <2>1. CASE server' = server /\ cookie' = cookie
    BY <1>1, <1>3, <2>1 DEF Required, Access
  <2>2. CASE u # NoUser /\ server.issued < MaxTokens /\ server' = [Issued EXCEPT !.account = TRUE]
             /\ cookie' = [user |-> u, jti |-> server.issued + 1]
    <3>1. server.issued + 1 \in 0..MaxTokens /\ server.issued + 1 \in 0..MaxTokens + 1 /\ u \in Users
      BY <1>1, <2>2, Constants DEF Server
    <3>2. server' \in Server /\ server'.stamped
      BY <1>1, <1>3, <2>2, <3>1 DEF Server, Issued
    <3>3. cookie' \in Creds
      BY <2>2, <3>1 DEF Creds, Tokens
    <3> QED BY <3>2, <3>3 DEF Required
  <2> QED BY <1>2, <2>1, <2>2
<1>5. crossed' \in BOOLEAN /\ signOuts' \in Nat
  BY <1>1, <1>2 DEF Types
<1>6. ~crossed' => Agree(cookie', token') /\ ~out
  <2>1. ~crossed => Agree(cookie, token) /\ ~out
    BY <1>1, <1>2 DEF Uncrossed, ProbeIsOurs, OutIsClean, GateKinds
  <2> QED BY <1>2, <2>1 DEF Agree
<1> QED BY <1>1, <1>2, <1>3, <1>4, <1>5, <1>6, NewPageInv

LEMMA RevokeInv ==
  ASSUME SessionInv, NEW j, Revoke(j)
  PROVE  SessionInv'
<1>1. Types /\ WizardInv /\ Settled /\ server \in Server
  BY DEF SessionInv, AppInv, Types
<1>2. /\ onboarding = "over" /\ server' = [server EXCEPT !.valid = @ \ {j}]
      /\ UNCHANGED <<token, cookie, onboarding, tab, storage, first, auth, asked>> /\ AppStays
  BY DEF Revoke, browser, app, people, sessionVars, AppStays
<1>3. /\ server' \in Server /\ server'.stamped = server.stamped
      /\ server'.valid \subseteq server.valid /\ Required' = Required
  BY <1>1, <1>2 DEF Server, Required, Access
<1>4. AppInv'
  BY <1>1, <1>2, <1>3, AppKept DEF Settled
<1>5. Types' /\ WizardInv'
  <2>1. WizardInv' /\ Arguments' /\ FormsType' /\ step' \in 1..5 /\ busy' \in BOOLEAN
        /\ overtaken' \in BOOLEAN
    BY <1>1, <1>2, WizardGone DEF WizardAside
  <2> QED BY <1>1, <1>2, <1>3, <2>1, TypesKept DEF Types, TypeOK, Creds
<1> QED BY <1>4, <1>5 DEF SessionInv

\* Who loses the role of an administrator is remembered as one who had it.
LEMMA ChangeRoleInv ==
  ASSUME SessionInv, NEW u \in Users, NEW new \in {"admin", "member", "gone"}, ChangeRole(u, new)
  PROVE  SessionInv'
<1>1. Types /\ WizardInv /\ Settled /\ SignedInOnly /\ Uncrossed /\ onboarding = "over"
  BY DEF SessionInv, AppInv, ChangeRole
<1>2. /\ UNCHANGED <<server, token, cookie, onboarding, tab, storage, first, auth, asked, authed,
                     checking, me, gateBusy, calls, signOuts, crossed, out>>
      /\ roles' = [roles EXCEPT ![u] = new]
      /\ fallen' = IF roles[u] = "admin" THEN fallen \cup {u} ELSE fallen
  BY DEF ChangeRole, wizardVars, browser, sessionVars
<1>3. roles' \in [Users -> {"admin", "member", "gone"}] /\ fallen' \subseteq Users
  BY <1>1, <1>2 DEF Types, TypeOK
<1>4. Types' /\ WizardInv'
  <2>1. WizardInv' /\ Arguments' /\ FormsType' /\ step' \in 1..5 /\ busy' \in BOOLEAN
        /\ overtaken' \in BOOLEAN
    BY <1>1, <1>2, WizardGone DEF WizardAside
  <2>2. \A r \in calls' : WellFormed(r)
    BY <1>1, <1>2 DEF Types
  <2> QED BY <1>1, <1>2, <1>3, <2>1, <2>2, AppTypes DEF Types, TypeOK, Creds, Roles
<1>5. Settled' /\ SignedInOnly'
  BY <1>1, <1>2 DEF Settled, SignedInOnly, Required, Access
<1>6. AdminsOnly => AdminsOnly'
  <2>1. ASSUME NEW t, Rightful(t)
        PROVE  Rightful(t)'
    <3>1. \A v \in Users : roles'[v] = IF v = u THEN new ELSE roles[v]
      BY <1>1, <1>2 DEF Types, TypeOK
    <3> QED BY <1>2, <2>1, <3>1 DEF Rightful
  <2>2. cookie' = cookie /\ token' = token
    BY <1>2
  <2> QED BY <2>1, <2>2 DEF AdminsOnly, Rightful
<1>7. Uncrossed'
  <2>1. OneSignIn /\ BootIsAlone => OneSignIn' /\ BootIsAlone'
    BY <1>2 DEF OneSignIn, BootIsAlone
  <2>2. ProbeIsOurs /\ OutIsClean => ProbeIsOurs' /\ OutIsClean'
    BY <1>2 DEF ProbeIsOurs, OutIsClean, Probing, Agree
  <2>3. AdminIsReal => AdminIsReal'
    BY <1>2, <1>6 DEF AdminIsReal, Probing
  <2> QED BY <1>1, <1>2, <2>1, <2>2, <2>3 DEF Uncrossed
<1> QED BY <1>4, <1>5, <1>7 DEF SessionInv, AppInv

\* With a token the page is shown at once, and asks who has it.
LEMMA EnteredInv ==
  ASSUME SessionInv, onboarding # "over", onboarding' = "over",
         Render(token # NoToken, token # NoToken, me, calls),
         UNCHANGED <<token, cookie, gateBusy, people, signOuts, crossed, out>>,
         server' \in Server, server.stamped => server'.stamped, Required' => Required,
         server'.valid # {} => ~Required',
         WizardInv', Arguments', FormsType', step' \in 1..5, busy' \in BOOLEAN, overtaken' \in BOOLEAN
  PROVE  SessionInv'
<1>1. /\ Types /\ Settled /\ Uncrossed /\ calls = {} /\ authed = FALSE /\ gateBusy = FALSE
      /\ me = "none"
  BY DEF SessionInv, AppInv, Types, TypeOK, SignedInOnly
<1>2. (token # NoToken) \in BOOLEAN /\ token \in Creds /\ cookie \in Creds
  BY <1>1 DEF Types, TypeOK, Creds
<1>3. /\ authed' = (token # NoToken) /\ checking' \in BOOLEAN /\ me' = "none" /\ fallen' = fallen
      /\ \A q \in calls' : Opened(q) /\ authed'
      /\ token = NoToken => calls' = {}
  <2> DEFINE a == token # NoToken
  <2>0. /\ authed' = a /\ checking' = (a /\ (a \/ ~authed))
        /\ me' = (IF ~a /\ authed THEN "none" ELSE me)
        /\ fallen' = (IF ~a /\ authed THEN {} ELSE fallen)
        /\ calls' = CASE a = authed -> calls
                      [] a /\ ~authed -> Dead(calls) \cup {Call("me", NoUser, 0)}
                      [] ~a /\ authed -> Dead(calls)
    BY DEF Render
  <2>1. authed' = (token # NoToken) /\ checking' \in BOOLEAN /\ me' = "none" /\ fallen' = fallen
    BY <1>1, <2>0
  <2>2. token = NoToken => calls' = {}
    <3>1. token = NoToken => a = authed /\ ~(a /\ ~authed) /\ ~(~a /\ authed)
      BY <1>1
    <3> HIDE DEF a
    <3>2. token = NoToken => calls' = calls
      BY <2>0, <3>1, Zenon
    <3> QED BY <1>1, <3>2
  <2>3. token # NoToken => calls' = Dead(calls) \cup {Call("me", NoUser, 0)}
    <3>1. token # NoToken => a # authed /\ a /\ ~authed /\ ~(~a /\ authed)
      BY <1>1
    <3> HIDE DEF a
    <3> QED BY <2>0, <3>1, Zenon
  <2>4. Dead(calls) = {}
    BY <1>1 DEF Dead, Awaited
  <2>5. Opened(Call("me", NoUser, 0))
    BY <1>2, NewProbe
  <2> QED BY <2>1, <2>2, <2>3, <2>4, <2>5
<1>4. Types'
  <2>1. \A q \in calls' : WellFormed(q)
    BY <1>3 DEF Opened
  <2> QED BY <1>1, <1>2, <1>3, <2>1, AppTypes DEF Types, TypeOK, Roles, people
<1>5. Settled'
  <2>1. token # NoToken => ~Required
    BY <1>1 DEF Settled
  <2> QED BY <1>1, <1>3, <2>1 DEF Settled, Opened
<1>6. SignedInOnly'
  BY <1>1, <1>3 DEF SignedInOnly
<1>7. Uncrossed'
  <2> SUFFICES ASSUME ~crossed
               PROVE  OneSignIn' /\ BootIsAlone' /\ ProbeIsOurs' /\ AdminIsReal' /\ OutIsClean'
    BY DEF Uncrossed
  <2>1. Agree(cookie', token') /\ (out => token = NoToken /\ cookie = NoToken)
    BY <1>1 DEF Uncrossed, ProbeIsOurs, OutIsClean, Agree
  <2>2. OneSignIn' /\ BootIsAlone'
    BY <1>3 DEF OneSignIn, BootIsAlone, Opened, GateKinds
  <2>3. ProbeIsOurs'
    BY <1>3, <2>1 DEF ProbeIsOurs, Opened
  <2>4. AdminIsReal'
    <3>1. me' # "admin"
      BY <1>3
    <3> QED BY <1>3, <3>1 DEF AdminIsReal, Opened
  <2>5. OutIsClean'
    BY <1>3, <2>1 DEF OutIsClean
  <2> QED BY <2>2, <2>3, <2>4, <2>5
<1> QED BY <1>4, <1>5, <1>6, <1>7 DEF SessionInv, AppInv

LEMMA StatusOfAppInv ==
  ASSUME SessionInv, NEW arrived \in BOOLEAN, StatusOfApp(arrived)
  PROVE  SessionInv'
<1>1. /\ Types /\ WizardInv /\ AppInv /\ Settled /\ SignedInOnly /\ Uncrossed
      /\ onboarding = "unresolved" /\ calls = {}
      /\ ~authed /\ ~gateBusy /\ me = "none" /\ step = 1
      /\ Arguments /\ FormsType /\ busy \in BOOLEAN /\ overtaken \in BOOLEAN
      /\ token \in Creds /\ cookie \in Creds /\ server \in Server
      /\ \A o \in BusyOps : asked[o] = {}
  BY FormsFacts
     DEF SessionInv, AppInv, Types, TypeOK, Creds, SignedInOnly, WizardInv, Stages, StatusOfApp
<1>2. UNCHANGED <<server, token, cookie, step, busy, form, result, tested, edited, provider, overtaken,
                  asked, gateBusy, people, signOuts, crossed, out>>
  BY DEF StatusOfApp, browser, storage, auth, people, sessionVars
<1>3. Required' = Required /\ (server.valid # {} => ~Required)
  BY <1>1, <1>2 DEF Required, Access, Settled
<1>4. CASE arrived /\ Required
  <2>1. onboarding' = "required" /\ UNCHANGED <<authed, checking, me, calls, fallen>>
    BY <1>4 DEF StatusOfApp
  <2>2. Types'
    <3>1. Arguments' /\ FormsType'
      BY <1>1, <1>2 DEF Arguments, FormsType
    <3>2. 1 \in 1..5
      OBVIOUS
    <3> QED BY <1>1, <1>2, <2>1, <3>1, <3>2, AppTypes DEF Types, TypeOK, Roles, people
  <2>3. OneRequest' /\ Stages'
    BY <1>1, <1>2 DEF OneRequest, Waiting, Stages, BusyOps, Ops
  <2>4. StampIsSure' /\ StepFollowsServer'
    BY <1>1, <1>2, <1>4 DEF StampIsSure, StepFollowsServer, StepDone, Required, BusyOps, Ops
  <2>5. TestIsKnown'
    BY <1>1, <1>2 DEF WizardInv, TestIsKnown, Target
  <2>6. token = NoToken /\ ~out
    BY <1>1, <1>4 DEF Settled
  <2>7. TokenIsAccepted' /\ TokenLeadsOn'
    BY <1>2, <2>6 DEF TokenIsAccepted, TokenLeadsOn, Has
  <2>8. Settled' /\ SignedInOnly'
    BY <1>1, <1>2, <1>3, <2>1, <2>6 DEF Settled, SignedInOnly
  <2>9. Uncrossed'
    BY <1>1, <1>2, <2>1, <2>6
       DEF Uncrossed, OneSignIn, BootIsAlone, ProbeIsOurs, AdminIsReal, OutIsClean
  <2> QED BY <2>2, <2>3, <2>4, <2>5, <2>7, <2>8, <2>9 DEF SessionInv, WizardInv, AppInv
<1>5. CASE ~(arrived /\ Required)
  <2>1. onboarding' = "over"
    BY <1>5 DEF StatusOfApp
  <2>2. WizardInv' /\ Arguments' /\ FormsType' /\ step' \in 1..5 /\ busy' \in BOOLEAN
        /\ overtaken' \in BOOLEAN
    <3>1. Arguments' /\ FormsType'
      BY <1>1, <1>2 DEF Arguments, FormsType
    <3>2. OneRequest' /\ Stages' /\ StampIsSure'
      BY <1>1, <1>2, <2>1 DEF OneRequest, Waiting, Stages, StampIsSure, BusyOps, Ops, Access
    <3>3. TestIsKnown'
      BY <1>1, <1>2 DEF WizardInv, TestIsKnown, Target
    <3>4. StepFollowsServer' /\ TokenIsAccepted' /\ TokenLeadsOn'
      BY <2>1 DEF StepFollowsServer, TokenIsAccepted, TokenLeadsOn
    <3> QED BY <1>1, <1>2, <3>1, <3>2, <3>3, <3>4 DEF WizardInv
  <2>3. CASE token # NoToken \/ ~arrived
    <3>1. Render(token # NoToken, token # NoToken, me, calls)
      BY <1>5, <2>3 DEF StatusOfApp
    <3>2. server' \in Server /\ server' = server /\ onboarding # "over"
      BY <1>1, <1>2
    <3>3. server'.valid # {} => ~Required'
      BY <1>2, <1>3
    <3> QED BY <1>2, <1>3, <2>1, <2>2, <3>1, <3>2, <3>3, EnteredInv
  <2>4. CASE token = NoToken /\ arrived
    <3> DEFINE q == Call("boot", NoUser, 0)
    <3>1. Render(FALSE, FALSE, me, calls \cup {q})
      BY <1>5, <2>4 DEF StatusOfApp
    <3>2. /\ WellFormed(q) /\ q.kind = "boot" /\ q.reply = "none" /\ q.live = TRUE
          /\ q.bearer = token' /\ q.cookie = cookie'
      <4>1. token' \in Creds /\ cookie' \in Creds
        BY <1>1, <1>2
      <4>2. "boot" \in CallKinds /\ "boot" # "login" /\ 0 \in Nat
        BY DEF CallKinds
      <4> QED BY <4>1, <4>2, NewRequest
    <3> HIDE DEF q
    <3>3. authed' = FALSE /\ checking' \in BOOLEAN /\ me' = "none" /\ calls' = {q} /\ fallen' = fallen
      <4>1. authed \in BOOLEAN /\ FALSE = authed /\ FALSE \in BOOLEAN
        BY <1>1 DEF Types, TypeOK
      <4>2. calls' = calls \cup {q} /\ authed' = FALSE /\ checking' \in BOOLEAN /\ me' = me
            /\ fallen' = fallen
        <5> DEFINE cs == calls \cup {q}
        <5> HIDE DEF cs
        <5>1. /\ authed' = FALSE /\ checking' = (FALSE /\ (FALSE \/ ~authed))
              /\ me' = (IF ~FALSE /\ authed THEN "none" ELSE me)
              /\ fallen' = (IF ~FALSE /\ authed THEN {} ELSE fallen)
              /\ calls' = CASE FALSE = authed -> cs
                            [] FALSE /\ ~authed -> Dead(cs) \cup {Call("me", NoUser, 0)}
                            [] ~FALSE /\ authed -> Dead(cs)
          BY <3>1 DEF Render, cs
        <5>2. calls' = cs
          BY <1>1, <4>1, <5>1, Zenon
        <5> QED BY <1>1, <5>1, <5>2 DEF cs
      <4> QED BY <1>1, <4>2
    <3>4. Types'
      <4>1. \A p \in calls' : WellFormed(p)
        BY <3>2, <3>3
      <4> QED BY <1>1, <1>2, <2>1, <2>2, <3>3, <4>1, AppTypes DEF Types, TypeOK, Roles, people
    <3>5. Settled' /\ SignedInOnly'
      BY <1>1, <1>2, <1>3, <2>1, <2>4, <3>2, <3>3 DEF Settled, SignedInOnly
    <3>6. Uncrossed'
      <4> SUFFICES ASSUME ~crossed
                   PROVE  OneSignIn' /\ BootIsAlone' /\ ProbeIsOurs' /\ AdminIsReal' /\ OutIsClean'
        BY <1>2 DEF Uncrossed
      <4>1. out => token = NoToken /\ cookie = NoToken
        BY <1>1 DEF Uncrossed, OutIsClean
      <4>2. OneSignIn' /\ BootIsAlone'
        BY <1>1, <1>2, <2>4, <3>2, <3>3 DEF OneSignIn, BootIsAlone, GateKinds
      <4>3. ProbeIsOurs' /\ AdminIsReal'
        BY <1>2, <2>4, <3>2, <3>3 DEF ProbeIsOurs, AdminIsReal, Agree, Probing
      <4>4. OutIsClean'
        BY <1>2, <3>2, <3>3, <4>1 DEF OutIsClean, GateKinds
      <4> QED BY <4>2, <4>3, <4>4
    <3> QED BY <2>2, <3>4, <3>5, <3>6 DEF SessionInv, AppInv
  <2> QED BY <2>3, <2>4
<1> QED BY <1>4, <1>5

LEMMA FinishAnsweredInv ==
  ASSUME SessionInv, 0 \in asked["finish"], NEW reached \in BOOLEAN, NEW arrived \in BOOLEAN,
         FinishAnswered(reached, arrived), UNCHANGED <<gateBusy, people, sessionVars>>,
         onboarding' = onboarding => AppStays,
         onboarding' # onboarding => Render(token # NoToken, token # NoToken, me, calls)
  PROVE  SessionInv'
<1> DEFINE handled == reached /\ Access /\ server.stamped
<1>1. Types /\ WizardInv /\ Arguments /\ FormsType /\ server \in Server
  BY FormsFacts DEF SessionInv, Types
<1>2. /\ onboarding = "required"
      /\ \A q \in BusyOps : Waiting(q) = IF q = "finish" THEN {0} ELSE {}
  <2>1. "finish" \in BusyOps /\ 0 \in Waiting("finish")
    BY DEF BusyOps, Ops, Waiting
  <2> QED BY <1>1, <2>1, AloneFacts
<1>3. UNCHANGED <<token, cookie, overtaken, gateBusy, people, signOuts, crossed, out>>
  BY DEF FinishAnswered, browser, sessionVars
<1>4. /\ server' \in Server /\ server'.stamped = server.stamped /\ server'.valid = server.valid
      /\ Access' => Access
  BY <1>1 DEF FinishAnswered, Finished, Server, Access
<1>5. (Required' => Required) /\ (server'.valid # {} => ~Required')
  <2>1. server.valid # {} => ~Required
    BY DEF SessionInv, AppInv, Settled
  <2> QED BY <1>4, <2>1 DEF Required
<1>6. CASE handled /\ arrived
  <2>1. /\ onboarding' = "over" /\ Unmounted
        /\ asked' = [asked EXCEPT !["finish"] = {}, !["status"] = {}]
    BY <1>6 DEF FinishAnswered
  <2>2. /\ asked' = [q \in Ops |-> asked'[q]] /\ asked'["catalog"] = asked["catalog"]
        /\ \A q \in BusyOps : asked'[q] = {}
    <3>1. asked = [q \in Ops |-> asked[q]]
      BY <1>1 DEF Arguments
    <3>2. /\ asked' = [q \in Ops |-> asked'[q]]
          /\ \A q \in Ops : asked'[q] = IF q \in {"finish", "status"} THEN {} ELSE asked[q]
      BY <2>1, <3>1 DEF Ops
    <3>3. \A q \in BusyOps : q \notin {"finish", "status"} => asked[q] = {}
      BY <1>2 DEF Waiting
    <3> QED BY <3>2, <3>3 DEF BusyOps, Ops
  <2>3. Arguments'
    BY <1>1, <2>2 DEF Arguments, BusyOps, Ops
  <2>4. FormsType' /\ TestIsKnown'
    BY <1>1, <2>1, <2>2, LeftIsUntested DEF Unmounted, LeaveStorage, Providers, BusyOps, Ops
  <2>5. step' = 1 /\ step' \in 1..5 /\ busy' \in BOOLEAN /\ overtaken' \in BOOLEAN
    <3>1. 1 \in 1..5
      OBVIOUS
    <3> QED BY <1>1, <1>3, <2>1, <3>1 DEF Unmounted, Types, TypeOK
  <2>6. WizardInv'
    <3>1. OneRequest' /\ Stages' /\ StampIsSure'
      BY <2>1, <2>2, <2>5 DEF OneRequest, Waiting, Stages, StampIsSure, BusyOps, Ops
    <3>2. StepFollowsServer' /\ TokenIsAccepted' /\ TokenLeadsOn'
      BY <2>1 DEF StepFollowsServer, TokenIsAccepted, TokenLeadsOn
    <3> QED BY <2>4, <3>1, <3>2 DEF WizardInv
  <2>7. Render(token # NoToken, token # NoToken, me, calls)
    BY <1>2, <2>1
  <2> QED BY <1>2, <1>3, <1>4, <1>5, <2>1, <2>3, <2>4, <2>5, <2>6, <2>7, EnteredInv
<1>7. CASE ~(handled /\ arrived)
  <2>1. /\ onboarding' = onboarding /\ Got("finish", 0) /\ busy' = FALSE
        /\ UNCHANGED <<step, form, result, tested, edited, provider>>
    BY <1>7 DEF FinishAnswered, storage
  <2>2. /\ \A q \in Ops : asked'[q] = IF q = "finish" THEN asked[q] \ {0} ELSE asked[q]
        /\ asked' = [q \in Ops |-> asked'[q]]
    BY <1>1, <2>1, AskedFacts DEF Ops
  <2>3. AppStays
    BY <2>1
  <2>4. Types'
    <3>1. Arguments'
      BY <1>1, <2>2 DEF Arguments, Ops
    <3>2. FormsType'
      BY <1>1, <2>1 DEF FormsType
    <3> QED BY <1>1, <1>3, <1>4, <2>1, <2>3, <3>1, <3>2, TypesKept DEF Types, TypeOK, Creds
  <2>5. AppInv'
    BY <1>3, <1>4, <1>5, <2>1, <2>3, AppKept
  <2>6. OneRequest'
    <3>1. \A q \in BusyOps : Waiting(q)' = {}
      BY <1>2, <2>2 DEF Waiting, BusyOps
    <3> QED BY <3>1 DEF OneRequest
  <2>7. Stages' /\ StampIsSure' /\ StepFollowsServer'
    BY <1>1, <1>2, <1>4, <2>1, <2>2
       DEF WizardInv, Stages, StampIsSure, StepFollowsServer, StepDone, BusyOps, Ops
  <2>8. TestIsKnown'
    <3>1. Target' = Target
      BY <2>1 DEF Target
    <3> QED BY <1>1, <2>1, <2>2, <3>1 DEF WizardInv, TestIsKnown, Ops
  <2>9. TokenIsAccepted' /\ TokenLeadsOn'
    BY <1>1, <1>3, <1>4, <2>1, <2>2 DEF WizardInv, TokenIsAccepted, Accepts, TokenLeadsOn, Has, Ops
  <2> QED BY <2>4, <2>5, <2>6, <2>7, <2>8, <2>9 DEF SessionInv, WizardInv
<1> QED BY <1>6, <1>7

\* Nothing but the last answer of the wizard ends it.
LEMMA WizardStepInv ==
  ASSUME SessionInv, WizardStep
  PROVE  SessionInv'
<1>1. /\ WizardNext /\ UNCHANGED <<gateBusy, people, sessionVars>>
      /\ onboarding' = onboarding => AppStays
      /\ onboarding' # onboarding => Render(token # NoToken, token # NoToken, me, calls)
  BY DEF WizardStep, AppStays, people, sessionVars
<1>2. CASE Clicks
  <2>1. AppStays
    <3>1. onboarding' = onboarding
      BY <1>2 DEF Clicks, Welcome, PickDialect, EditFields, EditRawUrl, Acknowledge, Untested,
                  RunTest, SkipStorage, SaveAndContinue, ChooseProvider, Submit, Select, SkipFirst,
                  Install, Finish
    <3> QED BY <1>1, <3>1
  <2> QED BY <1>2, <2>1, WelcomeInv, FormEditedInv, RunTestInv, SkipStorageInv, SaveAndContinueInv,
             OtherClicksInv, SubmitInv, InstallInv, FinishInv DEF Clicks
<1>3. CASE Expire
  <2>1. AppStays
    BY <1>1, <1>3 DEF Expire
  <2> QED BY <1>3, <2>1, ExpireInv
<1>4. ASSUME NEW target \in asked["test"], NEW ok \in BOOLEAN, TestAnswered(target, ok)
      PROVE  SessionInv'
  <2>1. AppStays
    BY <1>1, <1>4 DEF TestAnswered
  <2> QED BY <1>4, <2>1, TestAnsweredInv
<1>5. ASSUME NEW target \in asked["save"], NEW reached \in BOOLEAN, NEW arrived \in BOOLEAN,
             NEW used \in BOOLEAN, NEW mode \in {"refused", "hot_swap", "restart_required"},
             SaveAnswered(target, reached, arrived, mode, used)
      PROVE  SessionInv'
  <2>1. AppStays
    BY <1>1, <1>5 DEF SaveAnswered
  <2> QED BY <1>5, <2>1, SaveAnsweredInv
<1>6. ASSUME NEW next \in asked["status"], NEW ok \in BOOLEAN, StatusAnswered(next, ok)
      PROVE  SessionInv'
  <2>1. AppStays
    BY <1>1, <1>6 DEF StatusAnswered
  <2> QED BY <1>6, <2>1, StatusAnsweredInv
<1>7. ASSUME NEW arg \in asked["configure"], NEW reached \in BOOLEAN, NEW arrived \in BOOLEAN,
             ConfigureAnswered(arg, reached, arrived)
      PROVE  SessionInv'
  <2>1. AppStays
    BY <1>1, <1>7 DEF ConfigureAnswered
  <2> QED BY <1>7, <2>1, ConfigureAnsweredInv
<1>8. ASSUME NEW n \in asked["login"], NEW reached \in BOOLEAN, NEW arrived \in BOOLEAN,
             LoginAnswered(reached, arrived)
      PROVE  SessionInv'
  <2>1. AppStays
    BY <1>1, <1>8 DEF LoginAnswered
  <2>2. 0 \in asked["login"]
    BY DEF SessionInv, Types, Arguments
  <2> QED BY <1>8, <2>1, <2>2, LoginAnsweredInv
<1>9. ASSUME NEW creds \in asked["catalog"], NEW ok \in BOOLEAN, CatalogAnswered(creds, ok)
      PROVE  SessionInv'
  <2>1. AppStays
    BY <1>1, <1>9 DEF CatalogAnswered
  <2> QED BY <1>9, <2>1, CatalogAnsweredInv
<1>10. ASSUME NEW creds \in asked["install"], NEW ok \in BOOLEAN, InstallAnswered(creds, ok)
       PROVE  SessionInv'
  <2>1. AppStays
    BY <1>1, <1>10 DEF InstallAnswered
  <2> QED BY <1>10, <2>1, InstallAnsweredInv
<1>11. ASSUME NEW n \in asked["finish"], NEW reached \in BOOLEAN, NEW arrived \in BOOLEAN,
              FinishAnswered(reached, arrived)
       PROVE  SessionInv'
  <2>1. 0 \in asked["finish"]
    BY DEF SessionInv, Types, Arguments
  <2> QED BY <1>1, <1>11, <2>1, FinishAnsweredInv
<1> QED BY <1>1, <1>2, <1>3, <1>4, <1>5, <1>6, <1>7, <1>8, <1>9, <1>10, <1>11
           DEF WizardNext, Answers

(***************************************************************************)
(* The server's answers.                                                   *)
(***************************************************************************)
\* Who is let in holds a token that is accepted, and is still there.
LEMMA WhoFacts ==
  ASSUME TypeOK, NEW r, r.cookie \in Creds, r.bearer \in Creds
  PROVE  /\ Who(r) \in Users \cup {Legacy, NoUser}
         /\ Who(r) # NoUser =>
              /\ server.valid # {} /\ RoleOf(Who(r)) \in {"admin", "member"}
              /\ \/ r.cookie # NoToken /\ Who(r) = r.cookie.user
                 \/ r.bearer # NoToken /\ Who(r) = r.bearer.user
<1>1. ASSUME NEW t \in Creds, Accepts(t)
      PROVE  /\ UserOf(t) \in Users \cup {Legacy, NoUser}
             /\ UserOf(t) # NoUser =>
                  /\ server.valid # {} /\ RoleOf(UserOf(t)) \in {"admin", "member"}
                  /\ t # NoToken /\ UserOf(t) = t.user
  <2>1. t # NoToken /\ server.valid # {} /\ t.user \in Users \cup {Legacy, NoUser}
    BY <1>1, Constants DEF Accepts, Creds, Tokens
  <2>2. RoleOf(t.user) \in {"admin", "member", "gone"}
    BY DEF RoleOf, TypeOK
  <2> QED BY <2>1, <2>2 DEF UserOf
<1>2. CASE Accepts(r.cookie)
  BY <1>1, <1>2 DEF Who
<1>3. CASE ~Accepts(r.cookie) /\ Accepts(r.bearer)
  BY <1>1, <1>3 DEF Who
<1>4. CASE ~Accepts(r.cookie) /\ ~Accepts(r.bearer)
  BY <1>4 DEF Who
<1> QED BY <1>2, <1>3, <1>4

LEMMA ReplyFacts ==
  ASSUME NEW r, WellFormed(r)
  PROVE  /\ Reply(r) \in {"ok", "refused", "failed"}
         /\ Reply(r) = "ok" =>
              /\ r.kind \in {"boot", "me"} => Who(r) # NoUser
              /\ r.kind \in {"config", "legacy"} => Who(r) \in Administrators
              /\ r.kind = "login" => server.issued < MaxTokens
<1>1. CASE r.kind \in {"boot", "me"}
  <2>1. Reply(r) = IF Who(r) # NoUser THEN "ok" ELSE "refused"
    BY <1>1 DEF Reply
  <2> QED BY <1>1, <2>1
<1>2. CASE r.kind \in {"config", "legacy", "page"}
  <2>1. Reply(r) = AdminReply(r)
    BY <1>2 DEF Reply
  <2> QED BY <1>2, <2>1 DEF AdminReply
<1>3. CASE r.kind = "login"
  <2>1. Reply(r) = IF server.account /\ server.issued < MaxTokens /\ RoleOf(r.user) # "gone"
                   THEN "ok" ELSE "refused"
    BY <1>3 DEF Reply
  <2> QED BY <1>3, <2>1
<1>4. CASE r.kind = "start"
  <2>1. Reply(r) = IF server.stamped THEN "ok" ELSE "failed"
    BY <1>4 DEF Reply
  <2> QED BY <1>4, <2>1
<1>5. CASE r.kind = "logout"
  <2>1. Reply(r) = "ok"
    BY <1>5 DEF Reply
  <2> QED BY <1>5, <2>1
<1>6. r.kind \in CallKinds
  BY DEF WellFormed
<1> QED BY <1>1, <1>2, <1>3, <1>4, <1>5, <1>6 DEF CallKinds

\* A login issues a token where there is an administrator; else tokens are lost only.
LEMMA EffectFacts ==
  ASSUME Types, Settled, NEW r \in calls, NEW reply,
         (reply = "ok" /\ r.kind = "login") => server.issued < MaxTokens,
         server' = Effect(r, reply)
  PROVE  /\ server' \in Server /\ server'.stamped = server.stamped /\ Required' = Required
         /\ server'.valid # {} => ~Required
<1>1. server \in Server /\ (server.valid # {} => ~Required)
  BY DEF Types, Settled
<1>2. \/ r.kind = "login" /\ reply = "ok" /\ server' = Issued
      \/ server' = [server EXCEPT !.valid = @ \ {Jti(r)}]
      \/ server' = server
  <2>1. server' = (CASE r.kind = "login" /\ reply = "ok" -> Issued
                    [] r.kind = "logout" /\ Who(r) # NoUser /\ Jti(r) # 0 ->
                         [server EXCEPT !.valid = @ \ {Jti(r)}]
                    [] OTHER -> server)
    BY DEF Effect
  <2> QED BY <2>1, Zenon
<1>3. CASE r.kind = "login" /\ reply = "ok" /\ server' = Issued
  <2>1. server.stamped /\ ~Required
    BY <1>3 DEF Settled, Required
  <2>2. server.issued + 1 \in 0..MaxTokens
    BY <1>1, <1>3, Constants DEF Server
  <2>3. server' = [server EXCEPT !.issued = @ + 1, !.valid = @ \cup {server.issued + 1}]
    BY <1>3 DEF Issued
  <2>4. server' \in Server
    <3>1. server.valid \cup {server.issued + 1} \in SUBSET (0..MaxTokens)
      BY <1>1, <2>2 DEF Server
    <3> QED BY <1>1, <2>2, <2>3, <3>1 DEF Server
  <2>5. /\ server'.stamped = server.stamped /\ server'.done = server.done
        /\ server'.expired = server.expired
    BY <1>1, <2>3 DEF Server
  <2> QED BY <2>1, <2>4, <2>5 DEF Required, Access
<1>4. CASE server' = [server EXCEPT !.valid = @ \ {Jti(r)}]
  BY <1>1, <1>4 DEF Server, Required, Access
<1>5. CASE server' = server
  BY <1>1, <1>5 DEF Required, Access
<1> QED BY <1>2, <1>3, <1>4, <1>5

LEMMA RecordUpdated ==
  ASSUME NEW K, NEW U, NEW N, NEW C, NEW L, NEW A, NEW G,
         NEW r \in [kind : K, user : U, n : N, bearer : C, cookie : C, live : L, reply : A, role : G],
         NEW a \in A, NEW g \in G, NEW n \in N, NEW c \in C
  PROVE  [r EXCEPT !.reply = a, !.bearer = c, !.cookie = c, !.role = g, !.n = n]
           \in [kind : K, user : U, n : N, bearer : C, cookie : C, live : L, reply : A, role : G]
OBVIOUS

LEMMA ServeInv ==
  ASSUME SessionInv, NEW r \in calls, NEW reached \in BOOLEAN, NEW arrives \in BOOLEAN,
         Serve(r, reached, arrives)
  PROVE  SessionInv'
<1>1. /\ Types /\ WizardInv /\ Settled /\ SignedInOnly /\ Uncrossed /\ onboarding = "over"
      /\ WellFormed(r) /\ server \in Server
  BY DEF SessionInv, AppInv, Types
<1>2. /\ r.reply = "none"
      /\ server' = (IF reached THEN Effect(r, Reply(r)) ELSE server)
      /\ UNCHANGED <<token, cookie, onboarding, tab, storage, first, auth, asked,
                     authed, checking, me, gateBusy, fallen, roles, signOuts, crossed, out>>
  BY DEF Serve, browser, people, sessionVars
<1>3. /\ server' \in Server /\ server'.stamped = server.stamped /\ Required' = Required
      /\ server'.valid # {} => ~Required
  <2>1. CASE reached
    <3>1. (Reply(r) = "ok" /\ r.kind = "login") => server.issued < MaxTokens
      BY <1>1, ReplyFacts
    <3> QED BY <1>1, <1>2, <2>1, <3>1, EffectFacts
  <2>2. CASE ~reached
    BY <1>1, <1>2, <2>2 DEF Settled, Required, Access
  <2> QED BY <2>1, <2>2
<1> DEFINE q == [r EXCEPT !.reply = IF reached /\ arrives THEN Reply(r) ELSE "failed",
                          !.bearer = NoToken, !.cookie = NoToken,
                          !.role = IF r.kind \in {"boot", "me"} /\ reached /\ arrives
                                      /\ Reply(r) = "ok"
                                   THEN RoleOf(Who(r)) ELSE @,
                          !.n = IF r.kind = "login" THEN server'.issued ELSE @]
<1>4. calls' = (calls \ {r}) \cup Awaited({q})
  BY DEF Serve
<1>5. /\ WellFormed(q) /\ q.kind = r.kind /\ q.live = r.live /\ q.bearer = NoToken
      /\ q.reply \in {"ok", "refused", "failed"}
      /\ q.reply = "ok" =>
           /\ r.kind \in {"boot", "me"} => Who(r) # NoUser /\ q.role = RoleOf(Who(r))
           /\ r.kind \in {"config", "legacy"} => Who(r) \in Administrators
  <2>1. /\ r.cookie \in Creds /\ r.bearer \in Creds /\ NoToken \in Creds /\ r.n \in Nat
        /\ r.role \in Roles
    BY <1>1, Constants DEF WellFormed
  <2>2. Who(r) # NoUser => RoleOf(Who(r)) \in Roles
    BY <1>1, <2>1, WhoFacts DEF Types, Roles
  <2>3. server'.issued \in Nat /\ server'.issued <= MaxTokens
    BY <1>3, Constants DEF Server
  <2>4. /\ q.kind = r.kind /\ q.live = r.live /\ q.bearer = NoToken /\ q.cookie = NoToken
        /\ q.reply = (IF reached /\ arrives THEN Reply(r) ELSE "failed")
        /\ q.user = r.user
        /\ q.role = (IF r.kind \in {"boot", "me"} /\ reached /\ arrives /\ Reply(r) = "ok"
                     THEN RoleOf(Who(r)) ELSE r.role)
        /\ q.n = (IF r.kind = "login" THEN server'.issued ELSE r.n)
    BY <1>1 DEF WellFormed
  <2>5. /\ Reply(r) \in {"ok", "refused", "failed"}
        /\ Reply(r) = "ok" =>
             /\ r.kind \in {"boot", "me"} => Who(r) # NoUser
             /\ r.kind \in {"config", "legacy"} => Who(r) \in Administrators
    BY <1>1, ReplyFacts
  <2>6. q.reply \in {"none", "ok", "refused", "failed"} /\ q.role \in Roles /\ q.n \in Nat
    BY <2>1, <2>2, <2>3, <2>4, <2>5
  <2>7. q \in [kind : CallKinds, user : Users \cup {Legacy, NoUser}, n : Nat, bearer : Creds,
               cookie : Creds, live : BOOLEAN, reply : {"none", "ok", "refused", "failed"},
               role : Roles]
    <3>1. r \in [kind : CallKinds, user : Users \cup {Legacy, NoUser}, n : Nat, bearer : Creds,
                 cookie : Creds, live : BOOLEAN, reply : {"none", "ok", "refused", "failed"},
                 role : Roles]
      BY <1>1 DEF WellFormed
    <3> QED BY <2>1, <2>4, <2>6, <3>1, RecordUpdated
  <2>8. WellFormed(q)
    BY <1>1, <2>3, <2>4, <2>7 DEF WellFormed
  <2> QED BY <2>4, <2>5, <2>8
<1> HIDE DEF q
<1>6. /\ \A p \in calls' : (p \in calls /\ p # r) \/ p = q
      /\ \A p \in calls : p.kind = "legacy" => \E x \in calls' : x.kind = "legacy"
  <2>1. r.kind = "legacy" => q \in calls'
    BY <1>1, <1>4, <1>5 DEF Awaited, WellFormed
  <2> QED BY <1>4, <1>5, <2>1 DEF Awaited
<1>7. Types' /\ WizardInv'
  <2>1. WizardInv' /\ Arguments' /\ FormsType' /\ step' \in 1..5 /\ busy' \in BOOLEAN
        /\ overtaken' \in BOOLEAN
    BY <1>1, <1>2, WizardGone DEF WizardAside
  <2>2. \A p \in calls' : WellFormed(p)
    BY <1>1, <1>5, <1>6 DEF Types
  <2> QED BY <1>1, <1>2, <1>3, <2>1, <2>2, AppTypes DEF Types, TypeOK, Creds, Roles
<1>8. r.cookie \in Creds /\ r.bearer \in Creds
  BY <1>1 DEF WellFormed
<1>9. Settled'
  <2>1. \A p \in calls' :
          p.kind = "logout" \/ (p.reply = "ok" /\ p.kind \in {"boot", "me", "config", "legacy"})
            => ~Required
    <3>1. Who(r) # NoUser => ~Required
      BY <1>1, <1>8, WhoFacts DEF Settled, Types
    <3>2. NoUser \notin Administrators
      BY Constants DEF Administrators, Users
    <3> QED BY <1>1, <1>5, <1>6, <3>1, <3>2 DEF Settled
  <2>2. token # NoToken => ~Required \/ \E p \in calls' : p.kind = "legacy"
    BY <1>1, <1>6 DEF Settled
  <2>3. \A p \in calls' : p.kind \in {"login", "start"} => server.stamped
    BY <1>1, <1>5, <1>6 DEF Settled
  <2> QED BY <1>1, <1>2, <1>3, <2>1, <2>2, <2>3 DEF Settled
<1>10. SignedInOnly'
  BY <1>1, <1>2, <1>5, <1>6 DEF SignedInOnly
<1>11. Uncrossed'
  <2> SUFFICES ASSUME ~crossed
               PROVE  OneSignIn' /\ BootIsAlone' /\ ProbeIsOurs' /\ AdminIsReal' /\ OutIsClean'
    BY <1>2 DEF Uncrossed
  <2>1. OneSignIn /\ BootIsAlone /\ ProbeIsOurs /\ AdminIsReal /\ OutIsClean
    BY <1>1 DEF Uncrossed
  <2>2. OneSignIn'
    BY <1>2, <1>5, <1>6, <2>1 DEF OneSignIn
  <2>3. Probing(r) => /\ r.cookie = cookie /\ (r.bearer = token \/ token = NoToken)
                      /\ Agree(r.cookie, r.bearer)
    BY <1>2, <2>1 DEF ProbeIsOurs
  <2>4. BootIsAlone'
    <3>1. ASSUME NEW p \in calls', p.kind = "boot"
          PROVE  /\ calls' = {p} /\ ~authed' /\ ~gateBusy' /\ p.bearer = NoToken
                 /\ p.reply = "ok" => cookie' # NoToken
      <4>1. r.kind = "boot" /\ calls = {r} /\ ~authed /\ ~gateBusy /\ r.bearer = NoToken
        BY <1>5, <1>6, <2>1, <3>1 DEF BootIsAlone
      <4>2. p = q /\ calls' = {p}
        BY <1>6, <3>1, <4>1
      <4>3. p.reply = "ok" => r.cookie # NoToken
        BY <1>1, <1>5, <1>8, <4>1, <4>2, WhoFacts DEF Types, Creds
      <4>4. Probing(r)
        BY <1>1, <4>1 DEF Probing, WellFormed
      <4> QED BY <1>2, <1>5, <2>3, <4>1, <4>2, <4>3, <4>4
    <3> QED BY <3>1 DEF BootIsAlone
  <2>5. ProbeIsOurs'
    BY <1>2, <1>5, <1>6, <2>1 DEF ProbeIsOurs, Probing
  <2>6. AdminIsReal'
    <3>1. ASSUME Probing(r), Who(r) \in Administrators
          PROVE  AdminsOnly
      <4>1. Who(r) # NoUser /\ (Who(r) \in Users => roles[Who(r)] = "admin")
        BY <3>1, Constants DEF Administrators, RoleOf, Users
      <4>2. \/ r.cookie # NoToken /\ Who(r) = r.cookie.user
            \/ r.bearer # NoToken /\ Who(r) = r.bearer.user
        BY <1>1, <1>8, <4>1, WhoFacts DEF Types
      <4> QED BY <2>3, <3>1, <4>1, <4>2 DEF AdminsOnly, Rightful, Agree
    <3>2. Probing(q) /\ q.reply = "ok" /\ (q.kind = "config" \/ q.role = "admin")
            => AdminsOnly
      <4>1. ASSUME Who(r) # NoUser, RoleOf(Who(r)) = "admin"
            PROVE  Who(r) \in Administrators
        BY <1>1, <1>8, <4>1, WhoFacts DEF Types, Administrators
      <4> QED BY <1>5, <3>1, <4>1 DEF Probing
    <3> QED BY <1>2, <1>6, <2>1, <3>2 DEF AdminIsReal, Probing, AdminsOnly, Rightful
  <2>7. OutIsClean'
    BY <1>2, <1>5, <1>6, <2>1 DEF OutIsClean
  <2> QED BY <2>2, <2>4, <2>5, <2>6, <2>7
<1> QED BY <1>7, <1>9, <1>10, <1>11 DEF SessionInv, AppInv

(***************************************************************************)
(* The invariant.                                                          *)
(***************************************************************************)
LEMMA InitInv ==
  ASSUME Init
  PROVE  SessionInv
<1>1. /\ token = NoToken /\ cookie = NoToken /\ onboarding = "unresolved" /\ step = 1 /\ busy = FALSE
      /\ form = form0 /\ result = "none" /\ tested = NoTarget /\ edited = FALSE /\ provider = "none"
      /\ asked = NothingAsked /\ overtaken = FALSE
      /\ authed = FALSE /\ checking = FALSE /\ me = "none" /\ gateBusy = FALSE /\ calls = {}
      /\ fallen = {} /\ roles \in [Users -> {"admin", "member", "gone"}]
      /\ signOuts = 0 /\ crossed = FALSE /\ out = FALSE
  BY DEF Init, WizardInit
<1>2. server \in Server /\ (server.valid # {} => ~Required)
  <2>1. /\ Fresh \in Server /\ Fresh.valid = {} /\ {0} \in SUBSET (0..MaxTokens)
    BY Constants DEF Fresh, Server
  <2>2. CASE server = Fresh
    BY <2>1, <2>2
  <2>3. CASE server = [Fresh EXCEPT !.stamped = TRUE, !.done = TRUE, !.account = TRUE]
    BY <2>1, <2>3 DEF Server
  <2>4. CASE server = [Fresh EXCEPT !.done = TRUE, !.valid = {0}]
    BY <2>1, <2>4 DEF Server, Required, Access
  <2> QED BY <2>2, <2>3, <2>4 DEF Init
<1>3. /\ asked = [o \in Ops |-> asked[o]] /\ \A o \in Ops : asked[o] = {}
  BY <1>1 DEF NothingAsked
<1>4. Types
  <2>1. Arguments
    BY <1>3 DEF Arguments, Ops
  <2>2. 1 \in 1..5 /\ 0 \in Nat
    OBVIOUS
  <2>3. form0 \in FormType
    <3>1. (CHOOSE t \in Texts : TRUE) \in Texts
      BY WizardAssumption
    <3> QED BY <3>1 DEF form0, FormType, Dialects
  <2>4. TypeOK
    BY <1>1, <2>1, <2>2, <2>3, Constants DEF TypeOK, FormType, Arguments
  <2> QED BY <1>1, <1>2, <2>1, <2>2, <2>4 DEF Types, Providers
<1>5. WizardInv
  <2>1. OneRequest /\ Stages /\ StampIsSure /\ TestIsKnown
    BY <1>1, <1>3 DEF OneRequest, Waiting, Stages, StampIsSure, TestIsKnown, BusyOps, Ops
  <2>2. StepFollowsServer /\ TokenIsAccepted /\ TokenLeadsOn
    BY <1>1 DEF StepFollowsServer, TokenIsAccepted, TokenLeadsOn
  <2> QED BY <2>1, <2>2 DEF WizardInv
<1>6. AppInv
  <2>1. Settled /\ SignedInOnly
    BY <1>1, <1>2 DEF Settled, SignedInOnly
  <2>2. Uncrossed
    BY <1>1 DEF Uncrossed, OneSignIn, BootIsAlone, ProbeIsOurs, AdminIsReal, OutIsClean, Agree
  <2> QED BY <2>1, <2>2 DEF AppInv
<1> QED BY <1>4, <1>5, <1>6 DEF SessionInv

LEMMA NextInv ==
  ASSUME SessionInv, Next
  PROVE  SessionInv'
<1>1. CASE WizardStep
  BY <1>1, WizardStepInv
<1>2. ASSUME NEW arrived \in BOOLEAN, StatusOfApp(arrived)
      PROVE  SessionInv'
  BY <1>2, StatusOfAppInv
<1>3. ASSUME NEW r \in calls, NEW reached \in BOOLEAN, NEW arrives \in BOOLEAN,
             Serve(r, reached, arrives)
      PROVE  SessionInv'
  BY <1>3, ServeInv
<1>4. ASSUME NEW r \in calls, Deliver(r)
      PROVE  SessionInv'
  BY <1>4, BootAnsweredInv, MeAnsweredInv, ConfigAnsweredInv, LoginOverInv, PasteOverInv,
     OtherAnswersInv, SignedOutInv, RedirectedInv DEF Deliver
<1>5. CASE (\E u \in Users : SignIn("login", u)) \/ SignIn("start", NoUser)
  BY <1>5, SignInInv
<1>6. ASSUME NEW t \in {LegacyToken, WrongToken}, Paste(t)
      PROVE  SessionInv'
  BY <1>6, PasteInv
<1>7. CASE OpenPage \/ SignOut
  BY <1>7, DashboardInv
<1>8. CASE Reload
  BY <1>8, ReloadInv
<1>9. ASSUME NEW j, Revoke(j)
      PROVE  SessionInv'
  BY <1>9, RevokeInv
<1>10. ASSUME NEW u \in Users, NEW new \in {"admin", "member", "gone"}, ChangeRole(u, new)
       PROVE  SessionInv'
  BY <1>10, ChangeRoleInv
<1> QED BY <1>1, <1>2, <1>3, <1>4, <1>5, <1>6, <1>7, <1>8, <1>9, <1>10 DEF Next, Network

LEMMA StutterInv ==
  ASSUME SessionInv, UNCHANGED vars
  PROVE  SessionInv'
<1>1. /\ AppStays /\ UNCHANGED <<server, token, cookie, onboarding, step, busy, form, result, tested,
                                 edited, provider, asked, overtaken>>
  BY DEF vars, wizardVars, app, people, sessionVars, AppStays, browser, tab, storage, auth
<1>2. Types /\ WizardInv /\ Arguments /\ FormsType
  BY FormsFacts DEF SessionInv, Types
<1>3. Types'
  <2>1. Arguments' /\ FormsType'
    BY <1>1, <1>2 DEF Arguments, FormsType
  <2> QED BY <1>1, <1>2, <2>1, TypesKept DEF Types, TypeOK, Creds
<1>4. AppInv'
  BY <1>1, AppUntouched
<1>5. OneRequest' /\ Stages'
  BY <1>1, <1>2 DEF WizardInv, OneRequest, Waiting, Stages
<1>6. StampIsSure' /\ StepFollowsServer'
  BY <1>1, <1>2 DEF WizardInv, StampIsSure, StepFollowsServer, StepDone, Access
<1>7. TestIsKnown'
  BY <1>1, <1>2 DEF WizardInv, TestIsKnown, Target
<1>8. TokenIsAccepted' /\ TokenLeadsOn'
  BY <1>1, <1>2 DEF WizardInv, TokenIsAccepted, TokenLeadsOn, Accepts, Has
<1> QED BY <1>3, <1>4, <1>5, <1>6, <1>7, <1>8 DEF SessionInv, WizardInv

\* Every state of every browser and every server satisfies the invariant.
THEOREM Invariance == Spec => []SessionInv
<1>1. Init => SessionInv
  BY InitInv
<1>2. SessionInv /\ [Next]_vars => SessionInv'
  BY NextInv, StutterInv
<1> QED BY <1>1, <1>2, PTL DEF Spec

\* The variables keep their types, and the wizard asks for nothing but databases
\* that its form can describe.
THEOREM TypeCorrect == Spec => []TypeOK
<1>1. SessionInv => TypeOK
  BY DEF SessionInv, Types
<1> QED BY <1>1, Invariance, PTL

\* The steps that the wizard shows as done are done: past step 3 the server has
\* its administrator, whatever answers were lost on the way.
THEOREM DoneIsDone == Spec => []StepFollowsServer
<1>1. SessionInv => StepFollowsServer
  BY DEF SessionInv, WizardInv
<1> QED BY <1>1, Invariance, PTL

\* The token of the wizard is accepted as long as AuthStep was not submitted again
\* while it waited for the status.
THEOREM TokenWorks == Spec => []TokenIsAccepted
<1>1. SessionInv => TokenIsAccepted
  BY DEF SessionInv, WizardInv
<1> QED BY <1>1, Invariance, PTL

\* The dashboard of an administrator is shown only to one, or to one who was an
\* administrator in this session and no more is, but for a sign-in across an earlier
\* session; whoever changes the roles of the users meanwhile.
THEOREM RoleHolds == Spec => []RoleIsTheirs
<1>1. SessionInv => RoleIsTheirs
  <2> DEFINE w == Who([cookie |-> cookie, bearer |-> token])
  <2> SUFFICES ASSUME SessionInv, authed, me = "admin", ~crossed, w # NoUser
               PROVE  w \in Administrators \cup fallen
    BY DEF RoleIsTheirs
  <2>1. AdminsOnly /\ TypeOK /\ token \in Creds /\ cookie \in Creds
    BY DEF SessionInv, AppInv, Uncrossed, AdminIsReal, Types, TypeOK, Creds
  <2>2. /\ w \in Users \cup {Legacy}
        /\ (cookie # NoToken /\ w = cookie.user) \/ (token # NoToken /\ w = token.user)
    BY <2>1, WhoFacts
  <2> HIDE DEF w
  <2>3. w \in Users => roles[w] = "admin" \/ w \in fallen
    BY <2>1, <2>2 DEF AdminsOnly, Rightful
  <2> QED BY <2>2, <2>3 DEF Administrators, RoleOf
<1> QED BY <1>1, Invariance, PTL

\* Nothing that was in flight at a sign-out that the server confirmed signs in again.
THEOREM SignOutHolds == Spec => []SignOutSticks
<1>1. SessionInv => SignOutSticks
  BY DEF SessionInv, AppInv, Uncrossed, OutIsClean, SignOutSticks
<1> QED BY <1>1, Invariance, PTL

(***************************************************************************)
(* Two steps that the wizard never takes.                                  *)
(***************************************************************************)
LEMMA StoreStays ==
  ASSUME SessionInv, Next, server.stamped
  PROVE  server'.store = server.store
<1>1. server \in Server /\ \A r \in calls : WellFormed(r)
  BY DEF SessionInv, Types
<1>2. CASE WizardStep
  <2>1. CASE Clicks
    BY <2>1 DEF Clicks, Welcome, PickDialect, EditFields, EditRawUrl, Acknowledge, Untested,
                RunTest, SkipStorage, SaveAndContinue, ChooseProvider, Submit, Select, SkipFirst,
                Install, Finish
  <2>2. CASE Expire
    BY <1>1, <2>2 DEF Expire, Server
  <2>3. ASSUME NEW target \in asked["save"], NEW reached \in BOOLEAN, NEW arrived \in BOOLEAN,
               NEW used \in BOOLEAN, NEW mode \in {"refused", "hot_swap", "restart_required"},
               SaveAnswered(target, reached, arrived, mode, used)
        PROVE  server' = server
    BY <2>3, SwapFacts DEF SaveAnswered
  <2>4. ASSUME NEW arg, NEW reached, NEW arrived, ConfigureAnswered(arg, reached, arrived)
        PROVE  server'.store = server.store
    BY <1>1, <2>4 DEF ConfigureAnswered, Configured, Server
  <2>5. ASSUME NEW reached, NEW arrived,
               LoginAnswered(reached, arrived) \/ FinishAnswered(reached, arrived)
        PROVE  server'.store = server.store
    BY <1>1, <2>5 DEF LoginAnswered, FinishAnswered, Issued, Finished, Server
  <2>6. ASSUME NEW a, NEW ok, \/ TestAnswered(a, ok) \/ StatusAnswered(a, ok)
                              \/ CatalogAnswered(a, ok) \/ InstallAnswered(a, ok)
        PROVE  server' = server
    BY <2>6 DEF TestAnswered, StatusAnswered, CatalogAnswered, InstallAnswered
  <2> QED BY <1>2, <2>1, <2>2, <2>3, <2>4, <2>5, <2>6 DEF WizardStep, WizardNext, Answers
<1>3. ASSUME NEW arrived, StatusOfApp(arrived)
      PROVE  server' = server
  BY <1>3 DEF StatusOfApp
<1>4. ASSUME NEW r \in calls, NEW reached \in BOOLEAN, NEW arrives \in BOOLEAN,
             Serve(r, reached, arrives)
      PROVE  server'.store = server.store
  <2>1. server' = Effect(r, Reply(r)) \/ server' = server
    BY <1>4 DEF Serve
  <2>2. \A x : Effect(r, x) \in {Issued, [server EXCEPT !.valid = @ \ {Jti(r)}], server}
    <3>1. ASSUME NEW x
          PROVE  Effect(r, x) = Issued \/ Effect(r, x) = [server EXCEPT !.valid = @ \ {Jti(r)}]
                 \/ Effect(r, x) = server
      BY Zenon DEF Effect
    <3> QED BY <3>1
  <2>3. Issued.store = server.store /\ [server EXCEPT !.valid = @ \ {Jti(r)}].store = server.store
    BY <1>1 DEF Issued, Server
  <2> QED BY <2>1, <2>2, <2>3
<1>5. ASSUME NEW r \in calls, Deliver(r)
      PROVE  server'.store = server.store
  <2>1. CASE \E u \in Users \cup {NoUser} : Redirected(r, u)
    BY <1>1, <2>1 DEF Redirected, Issued, Server
  <2> QED BY <1>5, <2>1 DEF Deliver, BootAnswered, MeAnswered, ConfigAnswered, LoginOver,
             PasteOver, StartFailed, PageAnswered, SignedOut, Answered
<1>6. ASSUME NEW kind, NEW u, SignIn(kind, u)
      PROVE  server' = server
  BY <1>6 DEF SignIn, wizardVars
<1>7. ASSUME NEW t, Paste(t)
      PROVE  server' = server
  BY <1>7 DEF Paste
<1>8. CASE OpenPage \/ SignOut \/ Reload
  BY <1>8 DEF OpenPage, SignOut, Reload, wizardVars
<1>9. ASSUME NEW j, Revoke(j)
      PROVE  server'.store = server.store
  BY <1>1, <1>9 DEF Revoke, Server
<1>10. ASSUME NEW u, NEW new, ChangeRole(u, new)
       PROVE  server' = server
  BY <1>10 DEF ChangeRole, wizardVars
<1> QED BY <1>2, <1>3, <1>4, <1>5, <1>6, <1>7, <1>8, <1>9, <1>10 DEF Next, Network

\* No request of the wizard moves a server with an administrator to another store.
THEOREM NoSwapBehind == Spec => NoSwapAfterStamp
<1>1. SessionInv /\ [Next]_vars => [server.stamped => server'.store = server.store]_wizardVars
  BY StoreStays DEF vars
<1> QED BY <1>1, Invariance, PTL DEF Spec, NoSwapAfterStamp

\* Requests other than a save.
LEMMA NotASave ==
  ASSUME Arguments, NEW o, NEW a, NEW p, NEW b,
         Got(o, a) \/ (o # "save" /\ Ask(o, a)) \/ (p # "save" /\ Then(o, a, p, b))
  PROVE  asked'["save"] \subseteq asked["save"]
<1>1. asked = [q \in Ops |-> asked[q]] /\ "save" \in Ops
  BY DEF Arguments, Ops
<1>2. CASE Got(o, a)
  BY <1>1, <1>2 DEF Got
<1>3. CASE o # "save" /\ Ask(o, a)
  BY <1>1, <1>3 DEF Ask
<1>4. CASE p # "save" /\ Then(o, a, p, b)
  <2> DEFINE one == [asked EXCEPT ![o] = @ \ {a}]
  <2>1. one = [q \in Ops |-> one[q]] /\ one["save"] \subseteq asked["save"]
    BY <1>1
  <2>2. asked' = [one EXCEPT ![p] = @ \cup {b}]
    BY <1>4 DEF Then
  <2> HIDE DEF one
  <2> QED BY <1>1, <1>4, <2>1, <2>2
<1> QED BY <1>2, <1>3, <1>4

LEMMA SaveAsked ==
  ASSUME SessionInv, Next, NEW t \in asked'["save"] \ asked["save"], t[1] # "sqlite"
  PROVE  tested = t \/ edited
<1>1. Types /\ Arguments /\ TestIsKnown
  BY DEF SessionInv, WizardInv, Types
<1>2. CASE SaveAndContinue
  <2>1. t = Target
    <3>1. \A q \in Ops : asked'[q] = IF q = "save" THEN asked[q] \cup {Target} ELSE asked[q]
      BY <1>1, <1>2, AskedFacts DEF SaveAndContinue, Ops
    <3> QED BY <3>1 DEF Ops
  <2>2. IsRemote
    BY <2>1 DEF Target, IsRemote
  <2>3. result = "ok"
    BY <1>2, <2>2 DEF SaveAndContinue, SaveDisabled
  <2> QED BY <1>1, <2>1, <2>3 DEF TestIsKnown
<1>3. ASSUME ~SaveAndContinue
      PROVE  asked'["save"] \subseteq asked["save"]
  <2>1. CASE WizardStep
    <3>1. CASE Clicks
      <4>1. CASE RunTest \/ Submit \/ Install \/ Finish
        <5>1. \E o \in Ops \ {"save"} : \E a : Ask(o, a)
          BY <4>1 DEF RunTest, Submit, Install, Finish, Ops
        <5> QED BY <1>1, <5>1, NotASave
      <4>2. CASE ~(RunTest \/ Submit \/ Install \/ Finish)
        BY <1>3, <3>1, <4>2
           DEF Clicks, Welcome, PickDialect, EditFields, EditRawUrl, Acknowledge, Untested,
               SkipStorage, ChooseProvider, Select, SkipFirst
      <4> QED BY <4>1, <4>2
    <3>2. CASE Expire
      BY <3>2 DEF Expire
    <3>3. CASE Answers
      <4>1. ASSUME NEW next, NEW ok, StatusAnswered(next, ok)
            PROVE  asked'["save"] \subseteq asked["save"]
        <5>1. asked = [q \in Ops |-> asked[q]] /\ "save" \in Ops
          BY <1>1 DEF Arguments, Ops
        <5> QED BY <4>1, <5>1 DEF StatusAnswered, Show
      <4>2. ASSUME NEW reached, NEW arrived, FinishAnswered(reached, arrived)
            PROVE  asked'["save"] \subseteq asked["save"]
        <5>1. asked = [q \in Ops |-> asked[q]] /\ "save" \in Ops
          BY <1>1 DEF Arguments, Ops
        <5> QED BY <4>2, <5>1 DEF FinishAnswered, Got
      <4>3. ASSUME NEW arg, NEW reached, NEW arrived, ConfigureAnswered(arg, reached, arrived)
            PROVE  asked'["save"] \subseteq asked["save"]
        <5>1. \/ Then("configure", arg, "login", 0)
              \/ Then("configure", arg, "status", 4)
              \/ Got("configure", arg)
          <6> DEFINE ok == reached /\ Access /\ arrived /\ ~(arg = "local" /\ server.account)
          <6>1. (CASE busy' -> Then("configure", arg, "login", 0)
                   [] ~busy' /\ ok -> Then("configure", arg, "status", 4)
                   [] OTHER -> Got("configure", arg))
            BY <4>3 DEF ConfigureAnswered
          <6> HIDE DEF ok
          <6> QED BY <6>1, Zenon
        <5>2. "login" # "save" /\ "status" # "save"
          OBVIOUS
        <5> QED BY <1>1, <5>1, <5>2, NotASave, Zenon
      <4>4. ASSUME NEW target, NEW reached, NEW arrived, NEW mode, NEW used,
                   SaveAnswered(target, reached, arrived, mode, used)
            PROVE  asked'["save"] \subseteq asked["save"]
        <5>1. Then("save", target, "status", 3) \/ Got("save", target)
          BY <4>4 DEF SaveAnswered
        <5>2. "status" # "save"
          OBVIOUS
        <5> QED BY <1>1, <5>1, <5>2, NotASave, Zenon
      <4>5. ASSUME NEW reached, NEW arrived, LoginAnswered(reached, arrived)
            PROVE  asked'["save"] \subseteq asked["save"]
        <5>1. Then("login", 0, "status", 4) /\ "status" # "save"
          BY <4>5 DEF LoginAnswered
        <5> QED BY <1>1, <5>1, NotASave, Zenon
      <4>6. ASSUME NEW a, NEW ok,
                   TestAnswered(a, ok) \/ CatalogAnswered(a, ok) \/ InstallAnswered(a, ok)
            PROVE  asked'["save"] \subseteq asked["save"]
        <5>1. Got("test", a) \/ Got("catalog", a) \/ Got("install", a)
          BY <4>6 DEF TestAnswered, CatalogAnswered, InstallAnswered
        <5> QED BY <1>1, <5>1, NotASave, Zenon
      <4> QED BY <3>3, <4>1, <4>2, <4>3, <4>4, <4>5, <4>6 DEF Answers
    <3> QED BY <2>1, <3>1, <3>2, <3>3 DEF WizardStep, WizardNext
  <2>2. CASE ~WizardStep
    <3>1. asked' = asked \/ asked' = NothingAsked
      <4>1. ASSUME NEW r, Deliver(r)
            PROVE  asked' = asked \/ asked' = NothingAsked
        BY <4>1 DEF Deliver, BootAnswered, MeAnswered, ConfigAnswered, LoginOver, PasteOver,
                    StartFailed, PageAnswered, SignedOut, Answered, Redirected, NewPage
      <4>2. ASSUME NEW r, NEW reached, NEW arrives, Serve(r, reached, arrives)
            PROVE  asked' = asked
        BY <4>2 DEF Serve
      <4>3. CASE \/ \E arrived \in BOOLEAN : StatusOfApp(arrived)
                 \/ \E u \in Users : SignIn("login", u)
                 \/ SignIn("start", NoUser)
                 \/ \E u \in {LegacyToken, WrongToken} : Paste(u)
                 \/ OpenPage \/ SignOut \/ Reload
                 \/ \E j \in server.valid \cap Short : Revoke(j)
                 \/ \E u \in Users, new \in {"admin", "member", "gone"} : ChangeRole(u, new)
        BY <4>3 DEF StatusOfApp, SignIn, Paste, OpenPage, SignOut, Reload, Revoke, ChangeRole,
                    NewPage, wizardVars
      <4> QED BY <2>2, <4>1, <4>2, <4>3 DEF Next, Network
    <3> QED BY <3>1 DEF NothingAsked, Ops
  <2> QED BY <2>1, <2>2
<1> QED BY <1>2, <1>3

\* The server is asked to move only to a database whose test was OK, or whose test
\* the form was edited under.
THEOREM OnlyTestedIsSaved == Spec => SaveIsTested
<1>1. SessionInv /\ [Next]_vars
        => [\A t \in asked'["save"] \ asked["save"] : t[1] # "sqlite" => tested = t \/ edited]_wizardVars
  BY SaveAsked DEF vars
<1> QED BY <1>1, Invariance, PTL DEF Spec, SaveIsTested

\* The server moves to another database only through a save that was tested, and
\* never under an administrator.
THEOREM SwapsAreSound == Spec => SwapIsSound
BY NoSwapBehind, OnlyTestedIsSaved, PTL DEF SwapIsSound
===============================================================================
