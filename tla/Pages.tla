--------------------------------- MODULE Pages ---------------------------------
(***************************************************************************)
(* A visit of one of the pages that show and change data of the server.    *)
(***************************************************************************)
EXTENDS Roster, Editors, Inquiry, RoutesPage, UpstreamForm

vars == <<consoleVars, rosterVars, editorVars, inquiryVars, formVars>>

Init == ConsoleInit /\ RosterInit /\ EditorInit /\ InquiryInit /\ FormInit

OfRoster == UNCHANGED <<editorVars, inquiryVars, formVars>>
OfEditor == UNCHANGED <<rosterVars, inquiryVars, formVars>>
OfInquiry == UNCHANGED <<rosterVars, editorVars, formVars>>
OfRoutes == UNCHANGED <<rosterVars, editorVars, inquiryVars, formVars>>
OfForm == UNCHANGED <<rosterVars, editorVars, inquiryVars>>

Clicks ==
  \/ RosterClicks /\ OfRoster
  \/ EditorClicks /\ OfEditor
  \/ InquiryClicks /\ OfInquiry
  \/ RoutesClicks /\ OfRoutes
  \/ FormClicks /\ OfForm

Serve(c) ==
  \/ (ServeLoad(c) \/ Lose(c)) /\ OfRoutes
  \/ \E how \in {"ok", "refused"} :
       \/ ServeRow(c, how) /\ OfRoster
       \/ ServeEdit(c, how) /\ OfEditor
       \/ ServeImport(c, how) /\ OfInquiry
       \/ ServeAction(c, how) /\ OfRoutes
       \/ ServeRegistration(c, how) /\ OfForm

Answer(c) ==
  \/ RosterAnswer(c) /\ OfRoster
  \/ EditorAnswer(c) /\ OfEditor
  \/ InquiryAnswer(c) /\ OfInquiry
  \/ RoutesAnswer(c) /\ OfRoutes
  \/ FormAnswer(c) /\ OfForm

Next ==
  \/ Clicks
  \/ \E c \in calls : Serve(c) \/ Answer(c)
  \/ Elsewhere /\ OfRoutes
  \/ ToastTimeout /\ OfForm

Spec == Init /\ [][Next]_vars

\* Every request is answered or fails, and its handler goes on.
Fairness ==
  \A id \in Ids : WF_vars(\E c \in calls : c.id = id /\ (Serve(c) \/ Answer(c)))
FairSpec == Spec /\ Fairness

(***************************************************************************)
(* Properties.                                                             *)
(***************************************************************************)
TypeOK ==
  /\ ConsoleTypeOK
  /\ {showCreate, created, open, scanned, catalog} \subseteq BOOLEAN
  /\ draft \in {"none", "loaded", "edited", "unparsable"}
  /\ selected \in SUBSET Names
  /\ dialog \in {"none", "manual", "install"} /\ name \in NameTexts
  /\ upstreams \in SUBSET Names /\ registered \subseteq upstreams

\* A page at rest shows every change that it was told was made, and the answer
\* to the last question, unless a load failed or was overtaken by a later one.
Current == calls = {} /\ ~missed => shown >= due

\* The buttons that a request disables come back, however it ends and whatever
\* is clicked meanwhile.
ButtonsComeBack == busy # "" ~> busy = ""

\* What the form lets through has the shape that the server's schema asks for.
FormIsAccepted == \A c \in calls : c.op = "register" => c.arg.fits

\* The page names as registered only what the server registered for it, also
\* when the form was edited, closed or opened again before the answer.
ToastIsTrue == {toast, result} \ {""} \subseteq registered
===============================================================================
