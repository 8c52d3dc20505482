------------------------------ MODULE UpstreamForm -----------------------------
(***************************************************************************)
(* Browse.tsx with its two dialogs: AddManuallyDialog, which registers an  *)
(* upstream that the operator describes, and InstallDialog, which installs *)
(* an entry of the catalog; and the server's checks of what they post.     *)
(*                                                                         *)
(* Of the fields it matters which are filled in.  What they say is chosen  *)
(* as the form is submitted, but the name, which may be edited while the   *)
(* request is in flight.  A dialog that is closed loses its state, not its *)
(* request.                                                                *)
(***************************************************************************)
EXTENDS Console

VARIABLES
  catalog,     \* it is on display
  dialog,      \* "none", "manual" or "install"
  entry,       \* of the catalog that is installed
  name,        \* as in the form
  result,      \* upstream that the install dialog says was installed
  toast,       \* upstream that the page says was registered
  timers,      \* timeouts that will clear the toast
  upstreams,   \* of the server
  registered   \* of them, those that this page registered

form == <<dialog, entry, name, result>>
notes == <<toast, timers>>
formVars == <<catalog, form, notes, upstreams, registered>>
FormKept == UNCHANGED formVars

FormInit ==
  /\ catalog = FALSE /\ dialog = "none" /\ entry = "" /\ name = "" /\ result = ""
  /\ toast = "" /\ timers = 0
  /\ upstreams = {} /\ registered = {}

\* Names that fit NAME_RE, one that does not, and one that does and is longer
\* than the server takes.
NameTexts == Names \cup {"", "b@d", "long"}

AuthFields ==
  [none |-> {}, bearer |-> {"token"}, api_key |-> {"header", "value"},
   basic |-> {"username", "password"},
   oauth2 |-> {"issuer", "authorization_endpoint", "token_endpoint",
               "client_id", "dynamic_registration"}]
AuthTypes == {"none", "bearer", "api_key", "basic", "oauth2"}

\* What the form may say.  It keeps the fields that it does not show.
Forms ==
  UNION {[transport : {"stdio", "http"}, auth : {a},
          filled : SUBSET ({"command", "url"} \cup AuthFields[a])] : a \in AuthTypes}

\* Seeded fault: one of the two endpoints is taken for both.
CanSubmitHalf(n, f) ==
  /\ n \in Names \cup {"long"}
  /\ (IF f.transport = "stdio" THEN "command" ELSE "url") \in f.filled
  /\ f.transport = "http" =>
       /\ f.auth \in {"none", "bearer", "api_key"} => AuthFields[f.auth] \subseteq f.filled
       /\ f.auth = "basic" => "username" \in f.filled
       /\ f.auth = "oauth2" =>
           /\ {"issuer", "authorization_endpoint", "token_endpoint"} \cap f.filled # {}
           /\ {"client_id", "dynamic_registration"} \cap f.filled # {}

CanSubmit(n, f) ==
  /\ n \in Names \cup {"long"}
  /\ (IF f.transport = "stdio" THEN "command" ELSE "url") \in f.filled
  /\ f.transport = "http" =>
       /\ f.auth \in {"none", "bearer", "api_key"} => AuthFields[f.auth] \subseteq f.filled
       /\ f.auth = "basic" => "username" \in f.filled
       /\ f.auth = "oauth2" =>
           /\ "issuer" \in f.filled
              \/ {"authorization_endpoint", "token_endpoint"} \subseteq f.filled
           /\ {"client_id", "dynamic_registration"} \cap f.filled # {}

\* buildPayload and buildAuthPayload: only what is shown is posted, an empty
\* field as an empty string, or null.
Payload(f) ==
  IF f.transport = "stdio"
  THEN [type |-> "stdio", auth |-> "none", given |-> f.filled \cap {"command"}]
  ELSE [type |-> "http", auth |-> f.auth,
        given |-> f.filled \cap ({"url"} \cup AuthFields[f.auth])]

\* The schema of the server; a definition that does not satisfy it may be
\* taken for that of a plug-in, and not be refused.
Valid(p) ==
  /\ p.auth = "bearer" => "token" \in p.given
  /\ p.auth = "api_key" => {"header", "value"} \subseteq p.given
  /\ p.auth = "basic" => "username" \in p.given
  /\ p.auth = "oauth2" =>
       /\ "issuer" \in p.given
          \/ {"authorization_endpoint", "token_endpoint"} \subseteq p.given
       /\ "client_id" \in p.given \/ "dynamic_registration" \in p.given

CatalogCame(c) ==
  /\ page = "browse" /\ Back(c, {"load"})
  /\ IF c.at = "ok" THEN catalog' = TRUE /\ Displays(c) /\ UNCHANGED error
                    ELSE LoadFails /\ error' = TRUE /\ UNCHANGED catalog
  /\ Over(c)
  /\ UNCHANGED <<busy, form, notes, upstreams, registered>>

OpenManual ==
  /\ catalog /\ dialog = "none"
  /\ dialog' = "manual"
  /\ UNCHANGED <<consoleVars, catalog, entry, name, result, notes, upstreams, registered>>

OpenInstall(id) ==
  /\ catalog /\ dialog = "none"
  /\ dialog' = "install" /\ entry' = id /\ name' = id
  /\ UNCHANGED <<consoleVars, catalog, result, notes, upstreams, registered>>

EditName(n) ==
  /\ dialog # "none"
  /\ name' = n
  /\ UNCHANGED <<consoleVars, catalog, dialog, entry, result, notes, upstreams, registered>>

\* What closing a dialog does to its state and to requests cs.
Closed == dialog' = "none" /\ entry' = "" /\ name' = "" /\ result' = "" /\ busy' = ""
Orphaned(cs) == {[c EXCEPT !.arg.live = FALSE] : c \in cs}

\* The cross in the corner, which is never disabled, and "Close".
CloseDialog ==
  /\ dialog # "none"
  /\ Closed
  /\ calls' = Orphaned(calls)
  /\ error' = FALSE
  /\ UNCHANGED <<page, revision, display, failures, catalog, notes, upstreams, registered>>

Request(n, replace, fits) ==
  [name |-> n, replace |-> replace, fits |-> fits, live |-> TRUE]

Register(f, replace) ==
  /\ dialog = "manual" /\ busy = ""
  /\ CanSubmit(name, f)
  /\ Ask("register", Request(name, replace, Valid(Payload(f))), revision)
  /\ busy' = "page" /\ error' = FALSE
  /\ UNCHANGED <<revision, display>> /\ FormKept

\* Without a name the server takes that of the entry.
Install ==
  /\ dialog = "install" /\ busy = "" /\ result = ""
  /\ Ask("install", Request(IF name = "" THEN entry ELSE name, FALSE, TRUE), revision)
  /\ busy' = "page" /\ error' = FALSE
  /\ UNCHANGED <<revision, display>> /\ FormKept

\* RegistrationService.add; what it accepts may not be applied, and an entry
\* may lack a variable.
ServeRegistration(c, how) ==
  /\ c.op \in {"register", "install"}
  /\ how = "ok" =>
       /\ c.arg.fits /\ c.arg.name \in Names
       /\ c.arg.replace \/ c.arg.name \notin upstreams
  /\ Settled(c, how, how = "ok")
  /\ upstreams' = IF how = "ok" THEN upstreams \cup {c.arg.name} ELSE upstreams
  /\ registered' = IF how = "ok" THEN registered \cup {c.arg.name} ELSE registered
  /\ UNCHANGED <<catalog, form, notes>>

\* Seeded fault: the toast has the name that is in the form by now.
RegisteredAsShown(c) ==
  /\ Back(c, {"register"}) /\ c.at = "ok"
  /\ toast' = name /\ timers' = timers + 1
  /\ IF dialog = "manual" THEN Closed /\ error' = FALSE ELSE UNCHANGED <<form, busy, error>>
  /\ calls' = IF dialog = "manual" THEN Orphaned(calls \ {c}) ELSE calls \ {c}
  /\ UNCHANGED <<page, revision, display, failures, catalog, upstreams, registered>>

\* onInstalled closes the dialog with the warning that it may show, or one that
\* was opened since.
Registered(c) ==
  /\ Back(c, {"register"}) /\ c.at = "ok"
  /\ toast' = c.arg.name /\ timers' = timers + 1
  /\ IF dialog = "manual" THEN Closed /\ error' = FALSE ELSE UNCHANGED <<form, busy, error>>
  /\ calls' = IF dialog = "manual" THEN Orphaned(calls \ {c}) ELSE calls \ {c}
  /\ UNCHANGED <<page, revision, display, failures, catalog, upstreams, registered>>

Installed(c) ==
  /\ Back(c, {"install"}) /\ c.at = "ok"
  /\ result' = IF c.arg.live THEN c.arg.name ELSE result
  /\ busy' = IF c.arg.live THEN "" ELSE busy
  /\ Over(c)
  /\ UNCHANGED <<error, display, catalog, dialog, entry, name, notes, upstreams, registered>>

NotRegistered(c) ==
  /\ Back(c, {"register", "install"}) /\ c.at # "ok"
  /\ error' = (error \/ c.arg.live)
  /\ busy' = IF c.arg.live THEN "" ELSE busy
  /\ Over(c)
  /\ UNCHANGED display /\ FormKept

\* That of an earlier toast clears a later one.
ToastTimeout ==
  /\ timers > 0
  /\ timers' = timers - 1 /\ toast' = ""
  /\ UNCHANGED <<consoleVars, catalog, form, upstreams, registered>>

FormClicks ==
  \/ OpenManual \/ CloseDialog \/ Install
  \/ \E id \in Names : OpenInstall(id)
  \/ \E n \in NameTexts : EditName(n)
  \/ \E f \in Forms, replace \in BOOLEAN : Register(f, replace)
FormAnswer(c) == CatalogCame(c) \/ Registered(c) \/ Installed(c) \/ NotRegistered(c)
===============================================================================
