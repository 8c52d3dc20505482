-------------------------------- MODULE Wizard -------------------------------
(***************************************************************************)
(* The first-run wizard of the dashboard (pages/Onboarding.tsx) in one tab *)
(* of a browser, and what the endpoints it calls do to the server, seen    *)
(* from the tab: Onboarding is their own model.                            *)
(*                                                                         *)
(* An action is one event of the tab: a click or an edit, whose handler    *)
(* runs up to its first await, or an answer, with the code that awaited    *)
(* it and the renders and effects that follow.  A request may not reach    *)
(* the server, and its answer may not reach the tab: either is an error to *)
(* the code.  One `busy` serves all the steps, as in the code.  What a     *)
(* page asked for before it was reloaded is done by then, or never.        *)
(*                                                                         *)
(* The texts of the forms, the error that is shown and the entries of the  *)
(* catalog are abstracted.                                                 *)
(***************************************************************************)
EXTENDS Naturals

CONSTANTS
  Remote,      \* dialects other than "sqlite" whose driver is installed
  Texts,       \* what the fields of a database, or its URL, may say
  Admin,       \* the user that the wizard creates
  MaxTokens,   \* how many session tokens the server issues
  NoText, NoTarget, NoToken

ASSUME WizardAssumption ==
  /\ "sqlite" \notin Remote /\ Texts # {} /\ NoText \notin Texts
  /\ MaxTokens \in Nat

Dialects == Remote \cup {"sqlite"}
Targets == (Dialects \X Texts) \cup ({"url"} \X Texts)
Ops == {"test", "save", "status", "configure", "login", "catalog", "install", "finish"}

VARIABLES
  server,     \* what the server holds, as in Server below
  token,      \* localStorage["mcpxy.admin.token"]
  cookie,     \* the session cookie
  onboarding, \* what App knows of it: "unresolved", "required" or "over"
  step, busy,
  stamped,    \* status.admin_token_set_at is set
  isDefault,  \* status.database.is_default
  card,       \* restartRequired
  form,       \* the form of StorageStep
  result,     \* its testResult
  provider,   \* the provider of AuthStep, "none" before one is chosen
  catalog,    \* FirstServerStep has its catalog
  selected,   \* and shows an entry
  asked,      \* asked[o]: the arguments of the requests of o in flight
  tested,     \* the target of the last test that was OK
  edited,     \* the form was edited while that test was in flight
  overtaken   \* authentication was configured again behind a token

form0 == [dialect |-> "sqlite", fields |-> CHOOSE t \in Texts : TRUE,
          raw |-> NoText, ack |-> FALSE]

browser == <<token, cookie>>
tab == <<step, busy, stamped, isDefault, card>>
storage == <<form, result, tested, edited>>
first == <<catalog, selected>>
auth == <<provider, overtaken>>
wizardVars == <<server, browser, onboarding, tab, storage, first, auth, asked>>

\* A token is [user, jti].  The onboarding row, whether authy and its local administrator are there,
\* the database in use, and the tokens that are accepted of those issued.
Fresh == [stamped |-> FALSE, done |-> FALSE, expired |-> FALSE, account |-> FALSE,
          store |-> "default", valid |-> {}, issued |-> 0]

Access == ~server.done /\ ~server.expired
Required == Access /\ ~server.stamped

NothingAsked == [o \in Ops |-> {}]

WizardInit ==
  /\ token = NoToken /\ cookie = NoToken
  /\ onboarding = "unresolved"
  /\ step = 1 /\ busy = FALSE /\ stamped = FALSE /\ isDefault = TRUE /\ card = FALSE
  /\ form = form0 /\ result = "none" /\ tested = NoTarget /\ edited = FALSE
  /\ provider = "none" /\ catalog = FALSE /\ selected = FALSE
  /\ asked = NothingAsked
  /\ overtaken = FALSE

\* The wizard is gone, with its state; and with the page what it asked for.
Unmounted ==
  /\ step' = 1 /\ busy' = FALSE /\ stamped' = FALSE /\ isDefault' = TRUE /\ card' = FALSE
  /\ form' = form0 /\ result' = "none" /\ tested' = NoTarget /\ edited' = FALSE
  /\ provider' = "none" /\ catalog' = FALSE /\ selected' = FALSE
NewPage == Unmounted /\ asked' = NothingAsked

(***************************************************************************)
(* Requests.                                                               *)
(***************************************************************************)
Shown(n) == onboarding = "required" /\ ~card /\ step = n

Ask(o, arg) == asked' = [asked EXCEPT ![o] = @ \cup {arg}]
Got(o, arg) == asked' = [asked EXCEPT ![o] = @ \ {arg}]
Then(o, arg, p, next) ==
  asked' = [[asked EXCEPT ![o] = @ \ {arg}] EXCEPT ![p] = @ \cup {next}]

Accepts(t) == t # NoToken /\ t.jti \in server.valid

\* set_database: a store of its own, with the row and the users it has.
Swapped(target, used) ==
  [server EXCEPT !.store = IF target[1] = "sqlite" THEN "default" ELSE "other",
                 !.stamped = used, !.done = used, !.account = used, !.valid = {}]

\* set_authy_config: a new secret, so no token issued before is accepted.  An
\* administrator that exists already is found out after that.
Configured(local) ==
  IF local /\ server.account THEN [server EXCEPT !.valid = {}]
  ELSE [server EXCEPT !.valid = {}, !.stamped = TRUE, !.account = @ \/ local]

Issued == [server EXCEPT !.issued = @ + 1, !.valid = @ \cup {server.issued + 1}]

(***************************************************************************)
(* Storage.                                                                *)
(***************************************************************************)
Welcome ==
  /\ Shown(1)
  /\ step' = 2
  /\ UNCHANGED <<server, browser, onboarding, busy, stamped, isDefault, card, storage,
                 first, auth, asked>>

Target == IF form.raw # NoText THEN <<"url", form.raw>> ELSE <<form.dialect, form.fields>>
IsRemote == form.dialect # "sqlite" \/ form.raw # NoText

\* What an edit or another dialect does to the test.
Untested ==
  /\ result' = "none"
  /\ edited' = (edited \/ asked["test"] # {})
  /\ UNCHANGED <<server, browser, onboarding, tab, first, auth, asked, tested>>

PickDialect(d) ==
  /\ Shown(2)
  /\ form' = [form EXCEPT !.dialect = d, !.raw = NoText]
  /\ Untested

EditFields(t) ==
  /\ Shown(2) /\ form.dialect # "sqlite" /\ form.raw = NoText
  /\ form' = [form EXCEPT !.fields = t]
  /\ Untested

\* Seeded fault: the result of the last test stays.
EditRawUrlAfterTest(t) ==
  /\ Shown(2) /\ form.dialect # "sqlite"
  /\ form' = [form EXCEPT !.raw = t]
  /\ UNCHANGED <<server, browser, onboarding, tab, first, auth, asked,
                 result, tested, edited>>

EditRawUrl(t) ==
  /\ Shown(2) /\ form.dialect # "sqlite"
  /\ form' = [form EXCEPT !.raw = t]
  /\ Untested

Acknowledge(b) ==
  /\ Shown(2) /\ form.dialect # "sqlite"
  /\ form' = [form EXCEPT !.ack = b]
  /\ UNCHANGED <<server, browser, onboarding, tab, first, auth, asked,
                 result, tested, edited>>

RunTest ==
  /\ Shown(2) /\ form.dialect # "sqlite" /\ ~busy
  /\ busy' = TRUE
  /\ result' = "none" /\ edited' = FALSE
  /\ Ask("test", Target)
  /\ UNCHANGED <<server, browser, onboarding, step, stamped, isDefault, card, form, tested,
                 first, auth>>

TestAnswered(target, ok) ==
  /\ ok => Access
  /\ busy' = FALSE
  /\ result' = IF ok THEN "ok" ELSE "failed"
  /\ tested' = IF ok THEN target ELSE tested
  /\ Got("test", target)
  /\ UNCHANGED <<server, browser, onboarding, step, stamped, isDefault, card, form, edited,
                 first, auth>>

\* The form is dropped with its step.
LeaveStorage == form' = form0 /\ result' = "none" /\ tested' = NoTarget /\ edited' = FALSE

\* "Skip", and "Save and continue" where there is nothing to save.
SkipStorage ==
  /\ Shown(2) /\ ~busy
  /\ step' = 3
  /\ LeaveStorage
  /\ UNCHANGED <<server, browser, onboarding, busy, stamped, isDefault, card, first, auth,
                 asked>>

SaveDisabled == busy \/ (IsRemote /\ (result # "ok" \/ ~form.ack))

\* Seeded fault: the step is not busy meanwhile.
SaveInBackground ==
  /\ Shown(2) /\ ~SaveDisabled
  /\ IsRemote \/ ~isDefault
  /\ Ask("save", Target)
  /\ UNCHANGED <<server, browser, onboarding, tab, storage, first, auth>>

SaveAndContinue ==
  /\ Shown(2) /\ ~SaveDisabled
  /\ IsRemote \/ ~isDefault
  /\ busy' = TRUE
  /\ Ask("save", Target)
  /\ UNCHANGED <<server, browser, onboarding, step, stamped, isDefault, card, storage, first,
                 auth>>

\* onSwapped.  Of a swap in place the status is asked for, still busy.
SaveAnswered(target, reached, arrived, mode, used) ==
  LET handled == reached /\ Access /\ mode # "refused"
      ok == handled /\ arrived IN
  /\ server' = IF handled /\ mode = "hot_swap" THEN Swapped(target, used) ELSE server
  /\ card' = (card \/ (ok /\ mode = "restart_required"))
  /\ busy' = (ok /\ mode = "hot_swap")
  /\ IF busy' THEN Then("save", target, "status", 3) ELSE Got("save", target)
  /\ UNCHANGED <<browser, onboarding, step, stamped, isDefault, storage, first, auth>>

(***************************************************************************)
(* The steps, and the status that moves between them.                      *)
(***************************************************************************)
\* What Stepper shows as done.
StepDone(n) == step > n

\* FirstServerStep asks for the catalog as it is mounted.
Show(s, requests) ==
  /\ step' = s
  /\ IF s = 4 /\ step # 4
     THEN /\ asked' = [requests EXCEPT !["catalog"] = {<<token, cookie>>}]
          /\ catalog' = FALSE /\ selected' = FALSE
     ELSE asked' = requests /\ UNCHANGED first

\* The effect on [status]: a wizard whose token is stamped goes on at step 4.
Resumed(s) == IF stamped' /\ s < 4 THEN 4 ELSE s

\* refreshStatus, and the code that awaited it.  StorageStep is busy up to
\* here; AuthStep did not wait.
StatusAnswered(next, ok) ==
  /\ stamped' = IF ok THEN server.stamped ELSE stamped
  /\ isDefault' = IF ok THEN server.store = "default" ELSE isDefault
  /\ Show(IF ok THEN Resumed(next) ELSE next,
          [asked EXCEPT !["status"] = @ \ {next}])
  /\ busy' = IF next = 3 THEN FALSE ELSE busy
  /\ LeaveStorage
  /\ provider' = "none"
  /\ UNCHANGED <<server, browser, onboarding, card, overtaken>>

(***************************************************************************)
(* Authentication.                                                         *)
(***************************************************************************)
\* A form that is not filled in is refused before anything is sent.
ChooseProvider(p) ==
  /\ Shown(3) /\ p # provider
  /\ provider' = p
  /\ UNCHANGED <<server, browser, onboarding, tab, storage, first, overtaken, asked>>

\* Seeded fault: the button is not disabled.
SubmitAnyTime ==
  /\ Shown(3) /\ provider # "none"
  /\ busy' = TRUE
  /\ Ask("configure", provider)
  /\ overtaken' = (overtaken \/ asked["status"] # {})
  /\ UNCHANGED <<server, browser, onboarding, step, stamped, isDefault, card, storage, first,
                 provider>>

\* handleSubmit: a new jwt_secret for each.
Submit ==
  /\ Shown(3) /\ provider # "none" /\ ~busy
  /\ busy' = TRUE
  /\ Ask("configure", provider)
  /\ overtaken' = (overtaken \/ asked["status"] # {})
  /\ UNCHANGED <<server, browser, onboarding, step, stamped, isDefault, card, storage, first,
                 provider>>

\* Seeded fault: a refusal is taken for success.
ConfigureTrusted(arg, reached, arrived) ==
  LET handled == reached /\ Access IN
  /\ server' = IF handled THEN Configured(arg = "local") ELSE server
  /\ busy' = (arrived /\ arg = "local")
  /\ CASE busy' -> Then("configure", arg, "login", 0)
       [] ~busy' /\ arrived -> Then("configure", arg, "status", 4)
       [] OTHER -> Got("configure", arg)
  /\ UNCHANGED <<browser, onboarding, step, stamped, isDefault, card, storage, first, auth>>

\* For the local provider a login follows, still busy; for another one onNext,
\* which is not awaited.
ConfigureAnswered(arg, reached, arrived) ==
  LET handled == reached /\ Access
      ok == handled /\ arrived /\ ~(arg = "local" /\ server.account) IN
  /\ server' = IF handled THEN Configured(arg = "local") ELSE server
  /\ busy' = (ok /\ arg = "local")
  /\ CASE busy' -> Then("configure", arg, "login", 0)
       [] ~busy' /\ ok -> Then("configure", arg, "status", 4)
       [] OTHER -> Got("configure", arg)
  /\ UNCHANGED <<browser, onboarding, step, stamped, isDefault, card, storage, first, auth>>

\* persistToken, or nothing where the login fails; then onNext.
LoginAnswered(reached, arrived) ==
  LET handled == reached /\ server.account /\ server.issued < MaxTokens
      new == [user |-> Admin, jti |-> server.issued + 1] IN
  /\ server' = IF handled THEN Issued ELSE server
  /\ token' = IF handled /\ arrived THEN new ELSE token
  /\ cookie' = IF handled /\ arrived THEN new ELSE cookie
  /\ busy' = FALSE
  /\ Then("login", 0, "status", 4)
  /\ UNCHANGED <<onboarding, step, stamped, isDefault, card, storage, first, auth>>

(***************************************************************************)
(* The first server.                                                       *)
(***************************************************************************)
\* apiGet and apiPost: an answer of 401 removes the token that is stored now.
Unauthorized == token' = NoToken

\* Open while the row is active; else it needs an administrator.
CatalogAnswered(creds, ok) ==
  LET refused == ~Access /\ ~Accepts(creds[1]) /\ ~Accepts(creds[2]) IN
  /\ ok => ~refused
  /\ catalog' = (catalog \/ (ok /\ step = 4))
  /\ IF refused /\ ~ok THEN Unauthorized ELSE UNCHANGED token
  /\ Got("catalog", creds)
  /\ UNCHANGED <<server, cookie, onboarding, tab, storage, selected, auth>>

Select(b) ==
  /\ Shown(4) /\ catalog /\ selected # b
  /\ selected' = b
  /\ UNCHANGED <<server, browser, onboarding, tab, storage, catalog, auth, asked>>

SkipFirst ==
  /\ Shown(4) /\ ~busy
  /\ step' = 5
  /\ catalog' = FALSE /\ selected' = FALSE
  /\ UNCHANGED <<server, browser, onboarding, busy, stamped, isDefault, card, storage, auth,
                 asked>>

Install ==
  /\ Shown(4) /\ selected /\ ~busy
  /\ busy' = TRUE
  /\ Ask("install", <<token, cookie>>)
  /\ UNCHANGED <<server, browser, onboarding, step, stamped, isDefault, card, storage, first,
                 auth>>

InstallAnswered(creds, ok) ==
  LET accepted == Accepts(creds[1]) \/ Accepts(creds[2]) IN
  /\ ok => accepted
  /\ step' = IF ok THEN 5 ELSE step
  /\ busy' = FALSE
  /\ catalog' = (catalog /\ ~ok) /\ selected' = (selected /\ ~ok)
  /\ IF accepted \/ ~server.account THEN UNCHANGED token ELSE Unauthorized
  /\ Got("install", creds)
  /\ UNCHANGED <<server, cookie, onboarding, stamped, isDefault, card, storage, auth>>

(***************************************************************************)
(* The end.                                                                *)
(***************************************************************************)
Finish ==
  /\ Shown(5) /\ ~busy
  /\ busy' = TRUE
  /\ Ask("finish", 0)
  /\ UNCHANGED <<server, browser, onboarding, step, stamped, isDefault, card, storage, first,
                 auth>>

Finished == [server EXCEPT !.done = TRUE]

\* onFinish, and onComplete of App; a status that comes later changes nothing.
FinishAnswered(reached, arrived) ==
  LET handled == reached /\ Access /\ server.stamped IN
  /\ server' = IF handled THEN Finished ELSE server
  /\ onboarding' = IF handled /\ arrived THEN "over" ELSE onboarding
  /\ IF handled /\ arrived
     THEN Unmounted /\ asked' = [asked EXCEPT !["finish"] = {}, !["status"] = {}]
     ELSE /\ Got("finish", 0) /\ busy' = FALSE
          /\ UNCHANGED <<step, stamped, isDefault, card, storage, first, provider>>
  /\ UNCHANGED <<browser, overtaken>>

(***************************************************************************)
(* The server.                                                             *)
(***************************************************************************)
\* The window of the wizard ends; of what is over, that is of no account.
Expire ==
  /\ Access /\ (onboarding # "over" \/ ~server.stamped)
  /\ server' = [server EXCEPT !.expired = TRUE]
  /\ UNCHANGED <<browser, onboarding, tab, storage, first, auth, asked>>

(***************************************************************************)
(* The specification.                                                      *)
(***************************************************************************)
Clicks ==
  \/ Welcome
  \/ \E d \in Dialects : PickDialect(d)
  \/ \E t \in Texts : EditFields(t)
  \/ \E t \in Texts \cup {NoText} : EditRawUrl(t)
  \/ \E b \in BOOLEAN : Acknowledge(b)
  \/ RunTest \/ SkipStorage \/ SaveAndContinue
  \/ \E p \in {"local", "federated"} : ChooseProvider(p)
  \/ Submit
  \/ \E b \in BOOLEAN : Select(b)
  \/ SkipFirst \/ Install \/ Finish

Answers ==
  \/ \E target \in asked["test"], ok \in BOOLEAN : TestAnswered(target, ok)
  \/ \E target \in asked["save"], reached, arrived, used \in BOOLEAN,
        mode \in {"refused", "hot_swap", "restart_required"} :
       SaveAnswered(target, reached, arrived, mode, used)
  \/ \E next \in asked["status"], ok \in BOOLEAN : StatusAnswered(next, ok)
  \/ \E arg \in asked["configure"], reached, arrived \in BOOLEAN :
       ConfigureAnswered(arg, reached, arrived)
  \/ \E n \in asked["login"], reached, arrived \in BOOLEAN : LoginAnswered(reached, arrived)
  \/ \E creds \in asked["catalog"], ok \in BOOLEAN : CatalogAnswered(creds, ok)
  \/ \E creds \in asked["install"], ok \in BOOLEAN : InstallAnswered(creds, ok)
  \/ \E n \in asked["finish"], reached, arrived \in BOOLEAN : FinishAnswered(reached, arrived)

WizardNext == Clicks \/ Answers \/ Expire

(***************************************************************************)
(* Properties.                                                             *)
(***************************************************************************)
\* The comment of pickDialect (Onboarding.tsx:367-368): an OK is of the form
\* as it is now.
OkIsOfThisForm == result = "ok" => tested = Target

\* The server is asked to move to a database only after a test of that very
\* database was OK, unless the form was edited while the test was in flight.
SaveIsTested ==
  [][\A t \in asked'["save"] \ asked["save"] :
       t[1] # "sqlite" => tested = t \/ edited]_wizardVars

\* Once the administrator is set no request of the wizard swaps the store away
\* under it, whatever its buttons allow; of the endpoints, only the stamp says
\* that they should not (Onboarding.tsx:168-169), and none looks at it.
NoSwapAfterStamp ==
  [][server.stamped => server'.store = server.store]_wizardVars

\* A move to another database is tested before it is asked for, and over before
\* the administrator is set.
SwapIsSound == SaveIsTested /\ NoSwapAfterStamp

\* A step that the Stepper shows as done was done by the server: past step 3
\* there is an administrator.
StepFollowsServer == onboarding = "required" /\ StepDone(3) => server.stamped

\* The token that the wizard leaves in the browser is accepted, unless the
\* authentication was submitted again while the status was being refreshed.
TokenIsAccepted ==
  onboarding = "required" /\ token # NoToken /\ token.user = Admin
    => Accepts(token) \/ overtaken
==============================================================================
