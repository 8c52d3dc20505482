------------------------------- MODULE Session -------------------------------
(***************************************************************************)
(* Who is signed in to the dashboard: App.tsx with its two effects, the    *)
(* LoginGate, "Sign out" of the Sidebar, the calls that its pages make     *)
(* through api/client.ts, and the wizard that may come first.              *)
(*                                                                         *)
(* A call carries the token and the cookie there are as it is sent.  The   *)
(* server answers it at one moment and the page gets the answer, or an     *)
(* error instead of it, at a later one.  One tab of the browser; a page is *)
(* a call of an endpoint for administrators.  Meanwhile another            *)
(* administrator may change the role of a user or delete the user.         *)
(***************************************************************************)
EXTENDS Wizard, FiniteSets

CONSTANTS
  Member,       \* a user who is not an administrator at first
  Legacy,       \* whoever has the token of a server without authy
  NoUser,
  MaxCalls,     \* no one signs in or out while that many calls are in flight
  Short,        \* the jtis of tokens that may run out
  MaxSignOuts,
  MaxUpsets     \* reloads of the page and changes of roles, together

ASSUME SessionAssumption ==
  /\ Admin \notin {Member, Legacy, NoUser} /\ Member \notin {Legacy, NoUser} /\ Legacy # NoUser
  /\ NoToken \notin [user : {Admin, Member, Legacy, NoUser}, jti : Nat]

Users == {Admin, Member}

\* The token of a server without authy, and what a user may paste instead.
LegacyToken == [user |-> Legacy, jti |-> 0]
WrongToken == [user |-> NoUser, jti |-> MaxTokens + 1]

VARIABLES
  authed, checking,
  me,         \* the role of /me or of the substitute of the fallback, "none" before
  gateBusy,   \* LoginGate is busy
  calls,      \* calls in flight, as in Call below
  fallen,     \* users who lost the role of an administrator during this session
  roles,      \* what each user is for the server, "gone" once deleted
  changes,
  signOuts, reloads,
  crossed,    \* the user signed in across an earlier session: while its cookie
              \* was being probed, or beside the token it had left
  out         \* the server confirmed a sign-out, and no one signed in since

app == <<authed, checking, me, gateBusy, calls, fallen>>
people == <<roles, changes>>
sessionVars == <<signOuts, reloads, crossed, out>>
vars == <<wizardVars, app, people, sessionVars>>

\* A call for user u; n tells sign-outs apart, and is the jti of a login.  The
\* role is that of /me as the server answers it.
Call(kind, u, n) ==
  [kind |-> kind, user |-> u, n |-> n, bearer |-> token', cookie |-> cookie',
   live |-> TRUE, reply |-> "none", role |-> "none"]

Init ==
  /\ server \in {Fresh,
                 [Fresh EXCEPT !.stamped = TRUE, !.done = TRUE, !.account = TRUE],
                 [Fresh EXCEPT !.done = TRUE, !.valid = {0}]}
  /\ WizardInit
  /\ authed = FALSE /\ checking = FALSE /\ me = "none" /\ gateBusy = FALSE
  /\ calls = {} /\ fallen = {}
  /\ roles = [u \in Users |-> IF u = Admin THEN "admin" ELSE "member"] /\ changes = 0
  /\ signOuts = 0 /\ reloads = 0 /\ crossed = FALSE /\ out = FALSE

(***************************************************************************)
(* The server.                                                             *)
(***************************************************************************)
RoleOf(u) == IF u \in Users THEN roles[u] ELSE "admin"
Administrators == {u \in Users \cup {Legacy} : RoleOf(u) = "admin"}

\* A token that is accepted may be that of a user who is gone.
UserOf(t) == IF RoleOf(t.user) = "gone" THEN NoUser ELSE t.user

\* extract_principal: the cookie, and only without one that verifies the token.
Who(r) ==
  IF Accepts(r.cookie) THEN UserOf(r.cookie)
  ELSE IF Accepts(r.bearer) THEN UserOf(r.bearer) ELSE NoUser

\* The gate of an admin API that no one could use, and require_admin_auth.
AdminReply(r) ==
  IF ~server.account /\ 0 \notin server.valid THEN "failed"
  ELSE IF Who(r) \in Administrators THEN "ok" ELSE "refused"

Jti(r) == IF Accepts(r.cookie) THEN r.cookie.jti ELSE r.bearer.jti

Reply(r) ==
  CASE r.kind \in {"boot", "me"} -> IF Who(r) # NoUser THEN "ok" ELSE "refused"
    [] r.kind \in {"config", "legacy", "page"} -> AdminReply(r)
    [] r.kind = "login" ->
         IF server.account /\ server.issued < MaxTokens /\ RoleOf(r.user) # "gone"
         THEN "ok" ELSE "refused"
    [] r.kind = "start" -> IF server.stamped THEN "ok" ELSE "failed"
    [] r.kind = "logout" -> "ok"

\* What the call does there: a login issues a token, a logout revokes one.
Effect(r, reply) ==
  CASE r.kind = "login" /\ reply = "ok" -> Issued
    [] r.kind = "logout" /\ Who(r) # NoUser /\ Jti(r) # 0 ->
         [server EXCEPT !.valid = @ \ {Jti(r)}]
    [] OTHER -> server

\* Calls that may still change something: of a page that awaits it, or that
\* ignores it, only an answer of 401 does.
Awaited(cs) == {r \in cs : r.reply \in {"none", "refused"} \/ (r.live /\ r.kind # "page")}

\* It is answered, or lost on its way there or back.
Serve(r, reached, arrives) ==
  LET reply == Reply(r) IN
  /\ r.reply = "none"
  /\ server' = IF reached THEN Effect(r, reply) ELSE server
  /\ calls' = (calls \ {r}) \cup Awaited(
       {[r EXCEPT !.reply = IF reached /\ arrives THEN reply ELSE "failed",
                  !.bearer = NoToken, !.cookie = NoToken,
                  !.role = IF r.kind \in {"boot", "me"} /\ reached /\ arrives /\ reply = "ok"
                           THEN RoleOf(Who(r)) ELSE @,
                  !.n = IF r.kind = "login" THEN server'.issued ELSE @]})
  /\ UNCHANGED <<browser, onboarding, tab, storage, first, auth, asked,
                 authed, checking, me, gateBusy, fallen, people, sessionVars>>

\* A token runs out; it lives longer than the window of the wizard.
Revoke(j) ==
  /\ onboarding = "over"
  /\ j \in server.valid
  /\ server' = [server EXCEPT !.valid = @ \ {j}]
  /\ UNCHANGED <<browser, onboarding, tab, storage, first, auth, asked, app,
                 people, sessionVars>>

\* admin_api_users_role and admin_api_users_delete, called by an administrator
\* other than these, who remains; while the wizard waits for nothing.
ChangeRole(u, new) ==
  /\ onboarding = "over" /\ server.stamped /\ asked = NothingAsked
  /\ reloads + changes < MaxUpsets /\ changes' = changes + 1
  /\ roles[u] \notin {"gone", new}
  /\ roles' = [roles EXCEPT ![u] = new]
  /\ fallen' = IF roles[u] = "admin" THEN fallen \cup {u} ELSE fallen
  /\ UNCHANGED <<wizardVars, authed, checking, me, gateBusy, calls, sessionVars>>

(***************************************************************************)
(* App.                                                                    *)
(***************************************************************************)
\* Its cleanup: answers to the calls of the second effect are ignored.
Dead(cs) ==
  Awaited({IF r.kind \in {"me", "config"} THEN [r EXCEPT !.live = FALSE] ELSE r : r \in cs})

\* Seeded fault: a change of `authed` to false leaves `me` as it is.
RenderKeepingMe(a, c, u, cs) ==
  /\ authed' = a
  /\ checking' = (c /\ (a \/ ~authed))
  /\ me' = u
  /\ fallen' = IF ~a /\ authed THEN {} ELSE fallen
  /\ calls' = CASE a = authed -> cs
                [] a /\ ~authed -> Dead(cs) \cup {Call("me", NoUser, 0)}
                [] ~a /\ authed -> Dead(cs)

\* State as the handler sets it, and the effect on [authed] where it changed;
\* cs are the calls that the handler leaves in flight.
Render(a, c, u, cs) ==
  /\ authed' = a
  /\ checking' = (c /\ (a \/ ~authed))
  /\ me' = IF ~a /\ authed THEN "none" ELSE u
  /\ fallen' = IF ~a /\ authed THEN {} ELSE fallen
  /\ calls' = CASE a = authed -> cs
                [] a /\ ~authed -> Dead(cs) \cup {Call("me", NoUser, 0)}
                [] ~a /\ authed -> Dead(cs)

\* The gate is there while no one is signed in, and keeps nothing.
GateKept == gateBusy' = (gateBusy /\ ~authed')

\* The first effect: without a token it goes on to probe the cookie.
StatusOfApp(arrived) ==
  /\ onboarding = "unresolved"
  /\ UNCHANGED <<server, browser, step, busy, card, storage, first, auth, asked,
                 gateBusy, people, sessionVars>>
  /\ IF arrived /\ Required
     THEN /\ onboarding' = "required"
          /\ stamped' = server.stamped /\ isDefault' = (server.store = "default")
          /\ UNCHANGED <<authed, checking, me, calls, fallen>>
     ELSE /\ onboarding' = "over"
          /\ UNCHANGED <<stamped, isDefault>>
          /\ IF token # NoToken \/ ~arrived
             THEN Render(token # NoToken, token # NoToken, me, calls)
             ELSE Render(FALSE, FALSE, me, calls \cup {Call("boot", NoUser, 0)})

Reload ==
  /\ reloads + changes < MaxUpsets /\ calls = {}
  /\ reloads' = reloads + 1
  /\ onboarding' = "unresolved"
  /\ NewPage
  /\ authed' = FALSE /\ checking' = FALSE /\ me' = "none" /\ gateBusy' = FALSE
  /\ calls' = {} /\ fallen' = {}
  /\ UNCHANGED <<server, browser, overtaken, people, signOuts, crossed, out>>

\* The answer is dealt with: what it sets, with a 401 removing the token.
Answered(r) ==
  /\ r \in calls /\ r.reply # "none"
  /\ UNCHANGED <<server, onboarding, tab, storage, first, auth, asked, people,
                 signOuts, reloads, crossed>>

KeepToken(r) == IF r.reply = "refused" THEN token' = NoToken ELSE UNCHANGED token

BootAnswered(r) ==
  /\ r.kind = "boot" /\ Answered(r)
  /\ KeepToken(r)
  /\ UNCHANGED <<cookie, out>>
  /\ IF r.reply = "ok" THEN Render(TRUE, FALSE, r.role, calls \ {r})
                       ELSE Render(FALSE, FALSE, me, calls \ {r})
  /\ GateKept

MeAnswered(r) ==
  /\ r.kind = "me" /\ Answered(r)
  /\ KeepToken(r)
  /\ UNCHANGED <<gateBusy, cookie, out>>
  /\ CASE ~r.live -> Render(authed, checking, me, calls \ {r})
       [] r.live /\ r.reply = "ok" -> Render(authed, FALSE, r.role, calls \ {r})
       [] OTHER -> Render(authed, checking, me,
                          (calls \ {r}) \cup {Call("config", NoUser, 0)})

\* Seeded fault: a failure leaves the page connecting.
FallbackForgets(r) ==
  /\ r.kind = "config" /\ Answered(r)
  /\ KeepToken(r)
  /\ UNCHANGED <<cookie, out>>
  /\ IF r.live /\ r.reply = "ok" THEN Render(authed, FALSE, "admin", calls \ {r})
     ELSE Render(authed, checking, me, calls \ {r})
  /\ GateKept

\* The fallback: who may read the configuration is an administrator.
ConfigAnswered(r) ==
  /\ r.kind = "config" /\ Answered(r)
  /\ KeepToken(r)
  /\ UNCHANGED <<cookie, out>>
  /\ CASE ~r.live -> Render(authed, checking, me, calls \ {r})
       [] r.live /\ r.reply = "ok" -> Render(authed, FALSE, "admin", calls \ {r})
       [] OTHER -> Render(FALSE, FALSE, me, calls \ {r})
  /\ GateKept

(***************************************************************************)
(* LoginGate.                                                              *)
(***************************************************************************)
Gate == onboarding = "over" /\ ~authed /\ ~gateBusy /\ Cardinality(calls) < MaxCalls
Booting == \E r \in calls : r.kind = "boot"

\* submitLocal and startFederated, of a server that has authy; that the gate
\* knows which it is is taken for granted.
SignIn(kind, u) ==
  /\ Gate /\ server.stamped
  /\ gateBusy' = TRUE
  /\ crossed' = (crossed \/ Booting) /\ out' = FALSE
  /\ UNCHANGED <<wizardVars, authed, checking, me, fallen, people, signOuts, reloads>>
  /\ calls' = calls \cup {Call(kind, u, 0)}

\* submitLegacy, of a server without: what was pasted is the token already.
Paste(t) ==
  /\ Gate /\ ~server.stamped
  /\ gateBusy' = TRUE
  /\ crossed' = (crossed \/ Booting) /\ out' = FALSE
  /\ token' = t
  /\ UNCHANGED <<server, cookie, onboarding, tab, storage, first, auth, asked,
                 authed, checking, me, fallen, people, signOuts, reloads>>
  /\ calls' = calls \cup {Call("legacy", NoUser, 0)}

LoginOver(r) ==
  /\ r.kind = "login" /\ Answered(r)
  /\ IF r.reply = "ok"
     THEN /\ token' = [user |-> r.user, jti |-> r.n] /\ cookie' = token'
          /\ Render(TRUE, checking, me, calls \ {r})
     ELSE /\ KeepToken(r) /\ UNCHANGED cookie
          /\ Render(authed, checking, me, calls \ {r})
  /\ gateBusy' = FALSE
  /\ UNCHANGED out

PasteOver(r) ==
  /\ r.kind = "legacy" /\ Answered(r)
  /\ token' = IF r.reply = "ok" THEN token ELSE NoToken
  /\ UNCHANGED <<cookie, out>>
  /\ Render(authed \/ r.reply = "ok", checking, me, calls \ {r})
  /\ gateBusy' = FALSE

\* The browser goes to the identity provider; a callback may bring it back,
\* with a cookie and to a page that starts anew.
StartFailed(r) ==
  /\ r.kind = "start" /\ r.reply # "ok" /\ Answered(r)
  /\ KeepToken(r)
  /\ UNCHANGED <<cookie, out>>
  /\ Render(authed, checking, me, calls \ {r})
  /\ gateBusy' = FALSE

Redirected(r, u) ==
  /\ r \in calls /\ r.kind = "start" /\ r.reply = "ok"
  /\ u # NoUser => server.issued < MaxTokens /\ RoleOf(u) # "gone"
  /\ server' = IF u # NoUser THEN [Issued EXCEPT !.account = TRUE] ELSE server
  /\ cookie' = IF u # NoUser THEN [user |-> u, jti |-> server.issued + 1] ELSE cookie
  /\ onboarding' = "unresolved"
  /\ NewPage
  /\ authed' = FALSE /\ checking' = FALSE /\ me' = "none" /\ gateBusy' = FALSE
  /\ calls' = {} /\ fallen' = {}
  /\ crossed' = (crossed \/ (u # NoUser /\ token # NoToken))
  /\ UNCHANGED <<token, overtaken, people, signOuts, reloads, out>>

(***************************************************************************)
(* The dashboard.                                                          *)
(***************************************************************************)
Dashboard == onboarding = "over" /\ authed /\ ~checking

OpenPage ==
  /\ Dashboard /\ calls = {}
  /\ UNCHANGED <<wizardVars, authed, checking, me, gateBusy, fallen, people, sessionVars>>
  /\ calls' = calls \cup {Call("page", NoUser, 0)}

PageAnswered(r) ==
  /\ r.kind = "page" /\ Answered(r)
  /\ KeepToken(r)
  /\ UNCHANGED <<gateBusy, cookie, out>>
  /\ Render(authed, checking, me, calls \ {r})

SignOut ==
  /\ Dashboard /\ signOuts < MaxSignOuts /\ Cardinality(calls) < MaxCalls
  /\ signOuts' = signOuts + 1
  /\ UNCHANGED <<wizardVars, authed, checking, me, gateBusy, fallen, people, reloads,
                 crossed, out>>
  /\ calls' = calls \cup {Call("logout", NoUser, signOuts + 1)}

\* Seeded fault: the token stays in the browser.
SignedOutOfServer(r) ==
  /\ r.kind = "logout" /\ Answered(r)
  /\ UNCHANGED token
  /\ cookie' = IF r.reply = "ok" THEN NoToken ELSE cookie
  /\ out' = (r.reply = "ok" /\ ~gateBusy)
  /\ Render(FALSE, checking, me, calls \ {r})
  /\ GateKept

\* logout() removes the token however the server answered; then onSignOut.
\* Only an answer removes the cookie.
SignedOut(r) ==
  /\ r.kind = "logout" /\ Answered(r)
  /\ token' = NoToken
  /\ cookie' = IF r.reply = "ok" THEN NoToken ELSE cookie
  /\ out' = (r.reply = "ok" /\ ~gateBusy)
  /\ Render(FALSE, checking, me, calls \ {r})
  /\ GateKept

(***************************************************************************)
(* The specification.                                                      *)
(***************************************************************************)
\* A step of the wizard, and onComplete where it ends it.
WizardStep ==
  /\ WizardNext
  /\ IF onboarding' # onboarding
     THEN Render(token # NoToken, token # NoToken, me, calls)
     ELSE UNCHANGED <<authed, checking, me, calls, fallen>>
  /\ UNCHANGED <<gateBusy, people, sessionVars>>

Deliver(r) ==
  \/ BootAnswered(r) \/ MeAnswered(r) \/ ConfigAnswered(r)
  \/ LoginOver(r) \/ PasteOver(r) \/ StartFailed(r) \/ PageAnswered(r) \/ SignedOut(r)
  \/ \E u \in Users \cup {NoUser} : Redirected(r, u)

Network ==
  \/ \E r \in calls, reached, arrives \in BOOLEAN : Serve(r, reached, arrives)
  \/ \E r \in calls : Deliver(r)

Next ==
  \/ WizardStep
  \/ \E arrived \in BOOLEAN : StatusOfApp(arrived)
  \/ Network
  \/ \E u \in Users : SignIn("login", u)
  \/ SignIn("start", NoUser)
  \/ \E t \in {LegacyToken, WrongToken} : Paste(t)
  \/ OpenPage \/ SignOut \/ Reload
  \/ \E j \in server.valid \cap Short : Revoke(j)
  \/ \E u \in Users, new \in {"admin", "member", "gone"} : ChangeRole(u, new)

Spec == Init /\ [][Next]_vars

\* Every request of the page is answered or fails.
Fairness ==
  /\ WF_vars(Answers /\ WizardStep)
  /\ WF_vars(\E arrived \in BOOLEAN : StatusOfApp(arrived))
  /\ WF_vars(Network)

FairSpec == Spec /\ Fairness

(***************************************************************************)
(* Properties.                                                             *)
(***************************************************************************)
Tokens ==
  [user : Users \cup {Legacy, NoUser}, jti : 0..MaxTokens + 1]

TypeOK ==
  /\ token \in Tokens \cup {NoToken} /\ cookie \in Tokens \cup {NoToken}
  /\ onboarding \in {"unresolved", "required", "over"}
  /\ step \in 1..5
  /\ form \in [dialect : Dialects, fields : Texts, raw : Texts \cup {NoText}, ack : BOOLEAN]
  /\ result \in {"none", "ok", "failed"} /\ tested \in Targets \cup {NoTarget}
  /\ asked["save"] \subseteq Targets /\ asked["test"] \subseteq Targets
  /\ me \in {"none", "member", "admin"}
  /\ roles \in [Users -> {"admin", "member", "gone"}] /\ fallen \subseteq Users
  /\ {authed, checking, gateBusy, busy} \subseteq BOOLEAN

\* The dashboard of an administrator is shown only with credentials of an
\* administrator, or of one who lost that role or was deleted during the session
\* (App asks for the role once, so it goes on showing what the server refuses by
\* then), or with ones that are accepted no more; unless the user signed in
\* across an earlier session.
RoleIsTheirs ==
  authed /\ me = "admin" =>
    \/ Who([cookie |-> cookie, bearer |-> token]) \in Administrators \cup fallen \cup {NoUser}
    \/ crossed

\* After a sign-out that the server confirmed the browser holds nothing that
\* would show the dashboard again, whatever was in flight, with the same
\* exception.
SignOutSticks ==
  out => crossed \/ (~authed /\ token = NoToken /\ cookie = NoToken)

\* Neither the wizard nor the page behind it waits for ever: the buttons of the
\* wizard come back after every request, and the page does not stay at
\* "Connecting", however the requests and the probes end.
Connecting == onboarding = "unresolved" \/ (authed /\ checking)
PageWaits == IF onboarding = "required" THEN busy ELSE Connecting
WaitsEnd == PageWaits ~> ~PageWaits
==============================================================================
