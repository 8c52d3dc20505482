-------------------------------- MODULE Editors -------------------------------
(***************************************************************************)
(* The two pages that edit a document of the server and post all of it:    *)
(* Policies.tsx, a form, and Config.tsx, a text of JSON.                   *)
(***************************************************************************)
EXTENDS Console

VARIABLES
  draft,   \* "none" before the first load, "loaded", "edited", or text that
           \* does not parse
  message, \* the feedback on display
  verdict  \* what the server said to the last save that was answered

editorVars == <<draft, message, verdict>>
EditorInit == draft = "none" /\ message = "none" /\ verdict = "none"
EditorKept == UNCHANGED editorVars

\* Cards, lists of methods and the text area; nothing waits for the document
\* to be loaded, or for a save to end.
Edit(text) ==
  /\ page \in Editing
  /\ text = "unparsable" => page = "config"
  /\ draft' = text
  /\ UNCHANGED <<consoleVars, message, verdict>>

\* The policies on display, the initial ones if they were never loaded.
SavePolicies ==
  /\ page = "policies" /\ busy = ""
  /\ Ask("save", draft, revision)
  /\ busy' = "page"
  /\ UNCHANGED <<error, revision, display>> /\ EditorKept

\* parseDraft: the text is empty before it is loaded.
Parses == draft \in {"loaded", "edited"}

\* A text that says `null` is dropped without a word.
Unparsable ==
  /\ page = "config" /\ busy = "" /\ ~Parses
  /\ message' \in {"invalid", message}
  /\ UNCHANGED <<consoleVars, draft, verdict>>

\* "Validate", "Dry run", and "Apply" after a confirmation.
Submit(op) ==
  /\ page = "config" /\ busy = "" /\ Parses
  /\ op \in {"validate", "preview", "save"}
  /\ Ask(op, draft, revision)
  /\ busy' = "page"
  /\ UNCHANGED <<error, revision, display>> /\ EditorKept

ServeEdit(c, how) ==
  /\ page \in Editing /\ c.op \in {"save", "validate", "preview"}
  /\ Settled(c, how, how = "ok" /\ c.op = "save")
  /\ EditorKept

\* save(): the load is not awaited.
PoliciesSaved(c) ==
  /\ page = "policies" /\ Back(c, {"save"}) /\ c.at = "ok"
  /\ message' = "applied" /\ verdict' = c.at /\ busy' = ""
  /\ GoesOn(c, "load")
  /\ Promised(c)
  /\ UNCHANGED <<error, draft>>

\* apply(): it is, so the buttons stay disabled.  A refusal is an answer like
\* any other: what it says of `applied` is not looked at.
ConfigApplied(c) ==
  /\ page = "config" /\ Back(c, {"save"}) /\ c.at # "lost"
  /\ message' = "applied" /\ verdict' = c.at
  /\ GoesOn(c, "reload")
  /\ IF c.at = "ok" THEN Promised(c) ELSE UNCHANGED display
  /\ UNCHANGED <<busy, error, draft>>

\* The verdict on a text stays while it is edited, and that of a dry run is
\* not looked at either.
Reported(c) ==
  /\ page \in Editing /\ Back(c, {"save", "validate", "preview"})
  /\ c.op = "save" => c.at = "lost" \/ (page = "policies" /\ c.at = "refused")
  /\ message' = CASE c.at = "lost" -> "failed"
                  [] c.at = "refused" /\ c.op # "preview" -> "refused"
                  [] OTHER -> c.op
  /\ verdict' = IF c.op = "save" THEN c.at ELSE verdict
  /\ busy' = ""
  /\ Over(c)
  /\ UNCHANGED <<error, display, draft>>

\* Seeded fault: the load that apply() awaits keeps the buttons disabled.
DocumentLoadedBusy(c) ==
  /\ page \in Editing /\ Back(c, {"load", "reload"})
  /\ IF c.at = "ok" THEN draft' = "loaded" /\ message' = "none" /\ Displays(c)
                    ELSE message' = "failed" /\ LoadFails /\ UNCHANGED draft
  /\ Over(c)
  /\ UNCHANGED <<busy, error, verdict>>

\* load(): what was typed since is gone, and so is the feedback.
DocumentLoaded(c) ==
  /\ page \in Editing /\ Back(c, {"load", "reload"})
  /\ IF c.at = "ok" THEN draft' = "loaded" /\ message' = "none" /\ Displays(c)
                    ELSE message' = "failed" /\ LoadFails /\ UNCHANGED draft
  /\ busy' = IF c.op = "reload" THEN "" ELSE busy
  /\ Over(c)
  /\ UNCHANGED <<error, verdict>>

EditorClicks ==
  \/ \E text \in {"edited", "unparsable"} : Edit(text)
  \/ SavePolicies \/ Unparsable
  \/ \E op \in {"validate", "preview", "save"} : Submit(op)
EditorAnswer(c) ==
  PoliciesSaved(c) \/ ConfigApplied(c) \/ Reported(c) \/ DocumentLoaded(c)

\* The page says "applied" only of what the server applied: docs/admin-guide.md
\* has it show an error when a change is refused.
RefusalIsShown == message = "applied" => verdict = "ok"
===============================================================================
