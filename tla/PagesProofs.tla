------------------------------ MODULE PagesProofs ------------------------------
(***************************************************************************)
(* Proofs about the pages of the dashboard: those that show and change     *)
(* data of the server (Pages), for any names of upstreams and any number   *)
(* of requests, changes and failures, and the live ones (LiveViews), for   *)
(* any limits of the queue, the snapshot and the table, any buckets, any   *)
(* windows and any number of records, polls and failures.                  *)
(*                                                                         *)
(* Pages.  Two strengthenings make the properties inductive.  Carried says *)
(* of each request in flight what its answer will be used for: that a      *)
(* registration has the shape of one, and that one answered with success   *)
(* is among those registered.  InTime says why a page that does not show   *)
(* what it was promised will: a load is in flight whose answer will be new *)
(* enough, or whose failure will be noticed.                               *)
(*                                                                         *)
(* LiveViews.  The table needs to know which of its rows came by the       *)
(* stream, and why a record of the subscription that is neither among them *)
(* nor waits was lost or pushed off; the chart, that no record arrives     *)
(* twice and that its buckets are in order; the graph, that what a frame   *)
(* takes from the records that wait it adds to the statistics.             *)
(***************************************************************************)
EXTENDS Pages, LiveViews, FiniteSetTheorems, SequenceTheorems, TLAPS

(***************************************************************************)
(* What the form lets through.                                             *)
(***************************************************************************)

\* For every form that canSubmit lets through, the payload that is built of it
\* satisfies the schema of the server.
LEMMA SubmittedIsValid ==
  ASSUME NEW n, NEW f \in Forms, CanSubmit(n, f)
  PROVE  Valid(Payload(f))
<1>1. PICK a \in AuthTypes :
        f \in [transport : {"stdio", "http"}, auth : {a},
               filled : SUBSET ({"command", "url"} \cup AuthFields[a])]
  BY DEF Forms
<1>2. f.transport \in {"stdio", "http"} /\ f.auth = a
  BY <1>1
<1>3. CASE f.transport = "stdio"
  BY <1>3 DEF Payload, Valid
<1>4. CASE f.transport = "http"
  <2>1. Payload(f) = [type |-> "http", auth |-> f.auth,
                      given |-> f.filled \cap ({"url"} \cup AuthFields[f.auth])]
    BY <1>4 DEF Payload
  <2>2. CASE a = "none"
    BY <1>2, <2>1, <2>2 DEF Valid
  <2>3. CASE a = "bearer"
    BY <1>2, <1>4, <2>1, <2>3 DEF Valid, CanSubmit, AuthFields
  <2>4. CASE a = "api_key"
    BY <1>2, <1>4, <2>1, <2>4 DEF Valid, CanSubmit, AuthFields
  <2>5. CASE a = "basic"
    BY <1>2, <1>4, <2>1, <2>5 DEF Valid, CanSubmit, AuthFields
  <2>6. CASE a = "oauth2"
    BY <1>2, <1>4, <2>1, <2>6 DEF Valid, CanSubmit, AuthFields
  <2> QED BY <1>1, <2>2, <2>3, <2>4, <2>5, <2>6 DEF AuthTypes
<1> QED BY <1>2, <1>3, <1>4

(***************************************************************************)
(* The inductive invariant.                                                *)
(***************************************************************************)
Registrations == {"register", "install"}
Loading == {"load", "poll", "reload"}

Shaped(c) == c = [id |-> c.id, op |-> c.op, arg |-> c.arg, v |-> c.v, at |-> c.at]
Asks(a) == a = [name |-> a.name, replace |-> a.replace, fits |-> a.fits, live |-> a.live]

\* What is known of a request in flight.
Carried(c) ==
  /\ Shaped(c)
  /\ c.v \in Nat /\ c.v <= revision
  /\ c.op \in Registrations => Asks(c.arg) /\ c.arg.fits
  /\ c.op \in Registrations /\ c.at = "ok" => c.arg.name \in registered

\* Its answer will show what was promised, or its failure will be noticed.
Coming(c) ==
  /\ c.op \in Loading
  /\ c.v >= due \/ (c.at # "ok" /\ page \notin Asking)

Figures ==
  /\ {revision, shown, due} \subseteq Nat /\ due <= revision
  /\ missed \in BOOLEAN
AllCarried == \A c \in calls : Carried(c)
InTime == missed \/ shown >= due \/ \E c \in calls : Coming(c)

ConsoleInv == Figures /\ AllCarried /\ InTime
PagesInv == ConsoleInv /\ ToastIsTrue

(***************************************************************************)
(* What the moves of a handler do to it, whatever the page.                *)
(***************************************************************************)

\* A click that asks for nothing, or the end of a toast.
LEMMA Unmoved ==
  ASSUME ConsoleInv, UNCHANGED <<page, calls, revision, display, registered>>
  PROVE  ConsoleInv'
BY DEF ConsoleInv, Figures, AllCarried, Carried, Shaped, Asks, InTime, Coming, display

\* A request is made; a question also says what the operator waits for.
LEMMA RequestMade ==
  ASSUME ConsoleInv, NEW op, NEW arg, NEW v \in Nat, Ask(op, arg, v),
         revision' \in {revision, revision + 1}, v <= revision',
         op \in Registrations => Asks(arg) /\ arg.fits,
         UNCHANGED <<shown, missed, registered>>,
         due' = due \/ (op = "load" /\ due' = v)
  PROVE  ConsoleInv'
<1>0. PICK d : d = Call(NextId, op, arg, v)
  OBVIOUS
<1>1. calls' = calls \cup {d} /\ page' = page
  BY <1>0 DEF Ask
<1>2. d.op = op /\ d.arg = arg /\ d.v = v /\ d.at = "sent" /\ Shaped(d)
  BY <1>0 DEF Call, Shaped
<1>3. Figures /\ AllCarried /\ InTime
  BY DEF ConsoleInv
<1>4. Figures'
  BY <1>3 DEF Figures
<1>5. Carried(d)'
  BY <1>2 DEF Carried, Shaped, Asks
<1>6. ASSUME NEW c \in calls PROVE Carried(c)'
  BY <1>3 DEF AllCarried, Carried, Figures, Shaped, Asks
<1>7. AllCarried'
  BY <1>1, <1>5, <1>6 DEF AllCarried
<1>8. InTime'
  <2>1. CASE due' = due
    BY <1>1, <1>3, <2>1 DEF InTime, Coming
  <2>2. CASE op = "load" /\ due' = v
    <3>1. d \in calls' /\ Coming(d)'
      BY <1>1, <1>2, <2>2 DEF Coming, Loading
    <3> QED BY <3>1 DEF InTime
  <2> QED BY <2>1, <2>2
<1> QED BY <1>4, <1>7, <1>8 DEF ConsoleInv

\* The load that follows a change will show it.
LEMMA GoingOn ==
  ASSUME ConsoleInv, NEW c \in calls, NEW op \in Loading, GoesOn(c, op),
         page \notin Asking,
         UNCHANGED <<shown, missed, registered>>,
         due' = due \/ due' = c.v
  PROVE  ConsoleInv'
<1>0. PICK d : d = Call(c.id, op, c.arg, revision)
  OBVIOUS
<1>1. calls' = (calls \ {c}) \cup {d} /\ UNCHANGED <<page, revision>>
  BY <1>0 DEF GoesOn
<1>2. d.op = op /\ d.v = revision /\ d.at = "sent" /\ Shaped(d)
  BY <1>0 DEF Call, Shaped
<1>3. Figures /\ AllCarried /\ Carried(c)
  BY DEF ConsoleInv, AllCarried
<1>4. Figures'
  BY <1>1, <1>3 DEF Figures, Carried
<1>5. Carried(d)'
  BY <1>1, <1>2, <1>3 DEF Carried, Shaped, Loading, Registrations, Figures
<1>6. ASSUME NEW e \in calls PROVE Carried(e)'
  BY <1>1, <1>3 DEF AllCarried, Carried, Shaped, Asks
<1>7. AllCarried'
  BY <1>1, <1>5, <1>6 DEF AllCarried
<1>8. d \in calls' /\ Coming(d)'
  BY <1>1, <1>2 DEF Coming
<1>9. InTime'
  BY <1>8 DEF InTime
<1> QED BY <1>4, <1>7, <1>9 DEF ConsoleInv

\* Requests that are over, or go on without the page, and are not awaited.
LEMMA Ended ==
  ASSUME ConsoleInv, NEW c \in calls, Over(c), c.op \notin Loading,
         UNCHANGED <<display, registered>>
  PROVE  ConsoleInv'
<1>1. calls' = calls \ {c} /\ UNCHANGED <<page, revision, shown, due, missed, registered>>
  BY DEF Over, display
<1>2. Figures /\ AllCarried /\ InTime
  BY DEF ConsoleInv
<1>3. Figures'
  BY <1>1, <1>2 DEF Figures
<1>4. AllCarried'
  BY <1>1, <1>2 DEF AllCarried, Carried, Shaped, Asks
<1>5. ASSUME NEW e \in calls, Coming(e) PROVE e \in calls' /\ Coming(e)'
  BY <1>1, <1>5 DEF Coming
<1>6. InTime'
  BY <1>1, <1>2, <1>5 DEF InTime
<1> QED BY <1>3, <1>4, <1>6 DEF ConsoleInv

\* An answer is displayed: it was new enough, or one that is still to come is,
\* or it took the place of one that was.
LEMMA Displayed ==
  ASSUME ConsoleInv, NEW c \in calls, c.at = "ok", Over(c), Displays(c),
         UNCHANGED registered
  PROVE  ConsoleInv'
<1>1. /\ calls' = calls \ {c} /\ UNCHANGED <<page, revision, due, registered>>
      /\ shown' = c.v /\ missed' = (c.v < due /\ (missed \/ c.v < shown))
  BY DEF Over, Displays
<1>2. Figures /\ AllCarried /\ InTime /\ Carried(c)
  BY DEF ConsoleInv, AllCarried
<1>3. Figures'
  <2>1. missed' \in BOOLEAN
    BY <1>1
  <2>2. {revision', shown', due'} \subseteq Nat /\ due' <= revision'
    BY <1>1, <1>2 DEF Figures, Carried
  <2> QED BY <2>1, <2>2 DEF Figures
<1>4. AllCarried'
  BY <1>1, <1>2 DEF AllCarried, Carried, Shaped, Asks
<1>5. CASE c.v >= due
  <2>1. shown' >= due'
    BY <1>1, <1>5
  <2> QED BY <1>3, <1>4, <2>1 DEF ConsoleInv, InTime
<1>6. CASE c.v < due
  <2>1. CASE missed \/ c.v < shown
    <3>1. missed'
      BY <1>1, <1>6, <2>1
    <3> QED BY <1>3, <1>4, <3>1 DEF ConsoleInv, InTime
  <2>2. CASE ~missed /\ ~(c.v < shown)
    <3>1. ~(shown >= due)
      BY <1>2, <1>6, <2>2 DEF Figures, Carried
    <3>2. PICK e \in calls : Coming(e)
      BY <1>2, <2>2, <3>1 DEF InTime
    <3>3. e # c
      BY <1>2, <1>6, <3>2 DEF Coming, Carried, Figures
    <3>4. e \in calls' /\ Coming(e)'
      BY <1>1, <3>2, <3>3 DEF Coming
    <3>5. InTime'
      BY <3>4 DEF InTime
    <3> QED BY <1>3, <1>4, <3>5 DEF ConsoleInv
  <2> QED BY <2>1, <2>2
<1> QED BY <1>2, <1>5, <1>6 DEF Figures, Carried

\* A load that failed is remembered.
LEMMA LoadFailed ==
  ASSUME ConsoleInv, NEW c \in calls, Over(c), LoadFails, UNCHANGED registered
  PROVE  ConsoleInv'
<1>1. /\ calls' = calls \ {c} /\ UNCHANGED <<page, revision, shown, due, registered>>
      /\ missed' = TRUE
  BY DEF Over, LoadFails
<1>2. Figures /\ AllCarried
  BY DEF ConsoleInv
<1>3. Figures' /\ InTime'
  BY <1>1, <1>2 DEF Figures, InTime
<1>4. AllCarried'
  BY <1>1, <1>2 DEF AllCarried, Carried, Shaped, Asks
<1> QED BY <1>3, <1>4 DEF ConsoleInv

\* The server deals with a request: a load that waited for its answer has all
\* that was promised so far.
LEMMA Served ==
  ASSUME ConsoleInv, NEW c \in calls, NEW how, NEW alters \in BOOLEAN,
         Settled(c, how, alters),
         registered \subseteq registered',
         c.op \in Registrations /\ how = "ok" => c.arg.name \in registered'
  PROVE  ConsoleInv'
<1>1. Figures /\ AllCarried /\ InTime /\ Carried(c)
  BY DEF ConsoleInv, AllCarried
<1>2. PICK v : v = IF page \in Asking THEN c.v ELSE revision'
  OBVIOUS
<1>3. PICK d : d = [id |-> c.id, op |-> c.op, arg |-> c.arg, v |-> v, at |-> how]
  OBVIOUS
<1>4. c.at = "sent" /\ UNCHANGED <<page, shown, due, missed>>
  BY DEF Settled, display
<1>5. revision' \in Nat /\ revision' >= revision
  BY <1>1 DEF Settled, Figures
<1>6. calls' = (calls \ {c}) \cup {d}
  <2>1. PICK i, o, a, w, s : c = [id |-> i, op |-> o, arg |-> a, v |-> w, at |-> s]
    BY <1>1 DEF Carried, Shaped
  <2>2. PICK e : e = [c EXCEPT !.at = how]
    OBVIOUS
  <2>3. e = [id |-> i, op |-> o, arg |-> a, v |-> w, at |-> how]
    BY <2>1, <2>2
  <2>4. [e EXCEPT !.v = v] = [id |-> i, op |-> o, arg |-> a, v |-> v, at |-> how]
    BY <2>3
  <2>5. d = [id |-> i, op |-> o, arg |-> a, v |-> v, at |-> how]
    BY <1>3, <2>1
  <2>6. calls' = (calls \ {c}) \cup {[[c EXCEPT !.at = how] EXCEPT !.v = v]}
    BY <1>2, Zenon DEF Settled
  <2> QED BY <2>2, <2>4, <2>5, <2>6, Zenon
<1>7. Figures'
  BY <1>1, <1>4, <1>5 DEF Figures
<1>8. Carried(d)'
  <2>1. v \in Nat /\ v <= revision'
    BY <1>1, <1>2, <1>5 DEF Carried, Figures
  <2>2. d.op = c.op /\ d.arg = c.arg /\ d.v = v /\ d.at = how /\ Shaped(d)
    BY <1>3 DEF Shaped
  <2> QED BY <1>1, <2>1, <2>2 DEF Carried, Shaped, Asks
<1>9. ASSUME NEW e \in calls PROVE Carried(e)'
  BY <1>1, <1>5 DEF AllCarried, Carried, Figures, Shaped, Asks
<1>10. AllCarried'
  BY <1>6, <1>8, <1>9 DEF AllCarried
<1>11. ASSUME NEW e \in calls, Coming(e) PROVE \E f \in calls' : Coming(f)'
  <2>1. CASE e # c
    BY <1>4, <1>6, <1>11, <2>1 DEF Coming
  <2>2. CASE e = c
    <3>1. d.op = c.op /\ d.v = v
      BY <1>3
    <3>2. v >= due
      BY <1>1, <1>2, <1>5, <1>11, <2>2 DEF Coming, Figures
    <3> QED BY <1>4, <1>6, <1>11, <2>2, <3>1, <3>2 DEF Coming
  <2> QED BY <2>1, <2>2
<1>12. InTime'
  BY <1>1, <1>4, <1>11 DEF InTime
<1> QED BY <1>7, <1>10, <1>12 DEF ConsoleInv

\* A request, or its answer, is lost.
LEMMA RequestLost ==
  ASSUME ConsoleInv, NEW c \in calls, Lose(c), UNCHANGED registered
  PROVE  ConsoleInv'
<1>1. Figures /\ AllCarried /\ InTime /\ Carried(c)
  BY DEF ConsoleInv, AllCarried
<1>2. PICK d : d = [id |-> c.id, op |-> c.op, arg |-> c.arg, v |-> c.v, at |-> "lost"]
  OBVIOUS
<1>3. UNCHANGED <<page, revision, shown, due, missed>>
  BY DEF Lose, display
<1>4. calls' = (calls \ {c}) \cup {d}
  BY <1>1, <1>2 DEF Lose, Carried, Shaped
<1>5. Figures'
  BY <1>1, <1>3 DEF Figures
<1>6. d.op = c.op /\ d.arg = c.arg /\ d.v = c.v /\ d.at = "lost" /\ Shaped(d)
  BY <1>2 DEF Shaped
<1>7. Carried(d)'
  BY <1>1, <1>3, <1>6 DEF Carried, Shaped, Asks
<1>8. ASSUME NEW e \in calls PROVE Carried(e)'
  BY <1>1, <1>3 DEF AllCarried, Carried, Shaped, Asks
<1>9. AllCarried'
  BY <1>4, <1>7, <1>8 DEF AllCarried
<1>10. ASSUME NEW e \in calls, Coming(e) PROVE \E f \in calls' : Coming(f)'
  BY <1>3, <1>4, <1>6, <1>10 DEF Coming
<1>11. InTime'
  BY <1>1, <1>3, <1>10 DEF InTime
<1> QED BY <1>5, <1>9, <1>11 DEF ConsoleInv

(***************************************************************************)
(* The pages.                                                              *)
(***************************************************************************)

\* Of a click that asks for what no registration asks for, at the present
\* revision and without a promise, nothing else needs to be known.
LEMMA RequestNow ==
  ASSUME ConsoleInv, NEW op, NEW arg, Ask(op, arg, revision), op \notin Registrations,
         UNCHANGED <<revision, display, registered>>
  PROVE  ConsoleInv'
<1>1. revision \in Nat /\ revision <= revision
  BY DEF ConsoleInv, Figures
<1>2. UNCHANGED <<revision, shown, due, missed, registered>>
  BY DEF display
<1> QED BY <1>1, <1>2, RequestMade

\* Tokens, Users and Token mappings.
LEMMA RosterKeeps ==
  ASSUME ConsoleInv, UNCHANGED registered, RosterClicks
  PROVE  ConsoleInv'
<1>1. CASE New
  BY <1>1, Unmoved DEF New, consoleVars
<1>2. CASE Hide
  BY <1>2, Unmoved DEF Hide, consoleVars
<1>3. CASE CreateRow
  BY <1>3, RequestNow DEF CreateRow, Registrations, display
<1>4. CASE DeleteRow
  BY <1>4, RequestNow DEF DeleteRow, Registrations, display
<1> QED BY <1>1, <1>2, <1>3, <1>4 DEF RosterClicks

LEMMA RosterAnswers ==
  ASSUME ConsoleInv, UNCHANGED registered, NEW c \in calls, RosterAnswer(c)
  PROVE  ConsoleInv'
<1>1. page \in Rosters => page \notin Asking
  BY DEF Rosters, Asking
<1>2. CASE RowCreated(c)
  BY <1>1, <1>2, GoingOn DEF RowCreated, Promised, Loading
<1>3. CASE RowDeleted(c)
  BY <1>1, <1>3, GoingOn DEF RowDeleted, Promised, Loading
<1>4. CASE RowFailed(c)
  BY <1>4, Ended DEF RowFailed, Back, Loading
<1>5. CASE RowsLoaded(c)
  BY <1>5, Displayed, LoadFailed DEF RowsLoaded
<1> QED BY <1>2, <1>3, <1>4, <1>5 DEF RosterAnswer

\* Policies and Config.
LEMMA EditorKeeps ==
  ASSUME ConsoleInv, UNCHANGED registered, EditorClicks
  PROVE  ConsoleInv'
<1>1. ASSUME NEW text, Edit(text) PROVE ConsoleInv'
  BY <1>1, Unmoved DEF Edit, consoleVars
<1>2. CASE SavePolicies
  BY <1>2, RequestNow DEF SavePolicies, Registrations, display
<1>3. CASE Unparsable
  BY <1>3, Unmoved DEF Unparsable, consoleVars
<1>4. ASSUME NEW op, Submit(op) PROVE ConsoleInv'
  BY <1>4, RequestNow DEF Submit, Registrations, display
<1> QED BY <1>1, <1>2, <1>3, <1>4 DEF EditorClicks

LEMMA EditorAnswers ==
  ASSUME ConsoleInv, UNCHANGED registered, NEW c \in calls, EditorAnswer(c)
  PROVE  ConsoleInv'
<1>1. "policies" \notin Asking /\ "config" \notin Asking
  BY DEF Asking
<1>2. CASE PoliciesSaved(c)
  BY <1>1, <1>2, GoingOn DEF PoliciesSaved, Promised, Loading
<1>3. CASE ConfigApplied(c)
  BY <1>1, <1>3, GoingOn DEF ConfigApplied, Promised, Loading, display
<1>4. CASE Reported(c)
  BY <1>4, Ended DEF Reported, Back, Loading
<1>5. CASE DocumentLoaded(c)
  BY <1>5, Displayed, LoadFailed DEF DocumentLoaded
<1> QED BY <1>2, <1>3, <1>4, <1>5 DEF EditorAnswer

\* Logs, Connect, Import and the log of an upstream.
LEMMA InquiryKeeps ==
  ASSUME ConsoleInv, UNCHANGED registered, InquiryClicks
  PROVE  ConsoleInv'
<1>1. ASSUME NEW q \in Nat, Inquire(q), revision' \in {revision, revision + 1}, q <= revision'
      PROVE  ConsoleInv'
  BY <1>1, RequestMade DEF Inquire, Registrations
<1>2. revision \in Nat /\ revision + 1 \in Nat /\ revision <= revision
  BY DEF ConsoleInv, Figures
<1>3. CASE SetFilter
  <2>1. /\ UNCHANGED <<page, calls, shown, due, missed, registered>>
        /\ revision' = revision + 1
    BY <1>3 DEF SetFilter, display
  <2>2. Figures /\ AllCarried /\ InTime
    BY DEF ConsoleInv
  <2>3. Figures' /\ AllCarried'
    BY <2>1, <2>2 DEF Figures, AllCarried, Carried, Shaped, Asks
  <2>4. InTime'
    BY <2>1, <2>2 DEF InTime, Coming
  <2> QED BY <2>3, <2>4 DEF ConsoleInv
<1>4. CASE RefreshLogs
  BY <1>1, <1>2, <1>4 DEF RefreshLogs
<1>5. CASE ChangeClient
  BY <1>1, <1>2, <1>5 DEF ChangeClient
<1>6. CASE Toggle
  BY <1>1, <1>2, <1>6, Unmoved DEF Toggle
<1>7. CASE Rescan
  BY <1>1, <1>2, <1>7 DEF Rescan
<1>8. ASSUME NEW n, Tick(n) PROVE ConsoleInv'
  BY <1>8, Unmoved DEF Tick, consoleVars
<1>9. CASE ImportSelected
  BY <1>9, RequestNow DEF ImportSelected, Registrations, display
<1> QED BY <1>3, <1>4, <1>5, <1>6, <1>7, <1>8, <1>9 DEF InquiryClicks

LEMMA InquiryAnswers ==
  ASSUME ConsoleInv, UNCHANGED registered, NEW c \in calls, InquiryAnswer(c)
  PROVE  ConsoleInv'
<1>1. CASE Imported(c)
  BY <1>1, Ended DEF Imported, Back, Loading
<1>2. CASE Answered(c)
  BY <1>2, Displayed, LoadFailed DEF Answered
<1> QED BY <1>1, <1>2 DEF InquiryAnswer

\* Routes.
LEMMA RoutesKeeps ==
  ASSUME ConsoleInv, UNCHANGED registered, RoutesClicks
  PROVE  ConsoleInv'
<1>1. CASE Poll
  BY <1>1, RequestNow DEF Poll, Registrations, display
<1>2. CASE Rediscover
  BY <1>2, RequestNow DEF Rediscover, Registrations, display
<1>3. ASSUME NEW op, NEW n, ActOn(op, n) PROVE ConsoleInv'
  BY <1>3, RequestNow DEF ActOn, Registrations, display
<1> QED BY <1>1, <1>2, <1>3 DEF RoutesClicks

LEMMA RoutesAnswers ==
  ASSUME ConsoleInv, UNCHANGED registered, NEW c \in calls, RoutesAnswer(c)
  PROVE  ConsoleInv'
<1>1. "routes" \notin Asking
  BY DEF Asking
<1>2. CASE Acted(c)
  BY <1>1, <1>2, GoingOn DEF Acted, Promised, Loading
<1>3. CASE ActionFailed(c)
  BY <1>3, Ended DEF ActionFailed, Back, Loading
<1>4. CASE RoutesLoaded(c)
  BY <1>4, Displayed, LoadFailed DEF RoutesLoaded
<1>5. CASE Rediscovered(c)
  BY <1>5, Displayed, Ended DEF Rediscovered, Back, Loading
<1> QED BY <1>2, <1>3, <1>4, <1>5 DEF RoutesAnswer

\* A dialog that is closed leaves its requests as they are, but for what their
\* handlers will still find; the loads are among those that are left.
LEMMA Left ==
  ASSUME ConsoleInv, NEW cs \in SUBSET calls, calls' = Orphaned(cs),
         \A c \in calls : c.op \in Loading => c \in cs,
         UNCHANGED <<page, revision, display, registered>>
  PROVE  ConsoleInv'
<1>1. Figures /\ AllCarried /\ InTime
  BY DEF ConsoleInv
<1>2. UNCHANGED <<page, revision, shown, due, missed, registered>>
  BY DEF display
<1>3. ASSUME NEW c \in cs, NEW d, d = [c EXCEPT !.arg.live = FALSE]
      PROVE  /\ d.op = c.op /\ d.v = c.v /\ d.at = c.at
             /\ Carried(d)'
  <2>1. Carried(c) /\ c \in calls
    BY <1>1 DEF AllCarried
  <2>2. PICK i, o, a, w, s : c = [id |-> i, op |-> o, arg |-> a, v |-> w, at |-> s]
    BY <2>1 DEF Carried, Shaped
  <2>3. PICK b : b = [a EXCEPT !.live = FALSE]
    OBVIOUS
  <2>4. d = [id |-> i, op |-> o, arg |-> b, v |-> w, at |-> s]
    BY <1>3, <2>2, <2>3
  <2>5. ASSUME c.op \in Registrations
        PROVE  Asks(b) /\ b.fits /\ b.name = a.name
    <3>1. Asks(a) /\ a.fits
      BY <2>1, <2>2, <2>5 DEF Carried
    <3>2. b = [name |-> a.name, replace |-> a.replace, fits |-> a.fits, live |-> FALSE]
      BY <2>3, <3>1 DEF Asks
    <3> QED BY <3>1, <3>2 DEF Asks
  <2>6. d.op = c.op /\ d.v = c.v /\ d.at = c.at /\ d.arg = b /\ c.arg = a /\ Shaped(d)
    BY <2>2, <2>4 DEF Shaped
  <2> QED BY <1>2, <2>1, <2>5, <2>6 DEF Carried, Shaped, Asks
<1>4. Figures'
  BY <1>1, <1>2 DEF Figures
<1>5. AllCarried'
  BY <1>3 DEF AllCarried, Orphaned
<1>6. ASSUME NEW e \in calls, Coming(e) PROVE \E f \in calls' : Coming(f)'
  <2>1. PICK d : d = [e EXCEPT !.arg.live = FALSE]
    OBVIOUS
  <2>2. e \in cs /\ d \in calls'
    BY <1>6, <2>1 DEF Coming, Orphaned
  <2> QED BY <1>2, <1>3, <1>6, <2>1, <2>2 DEF Coming
<1>7. InTime'
  BY <1>1, <1>2, <1>6 DEF InTime
<1> QED BY <1>4, <1>5, <1>7 DEF ConsoleInv

\* Browse and its dialogs.
LEMMA FormKeeps ==
  ASSUME PagesInv, FormClicks
  PROVE  PagesInv'
<1>1. ConsoleInv /\ ToastIsTrue
  BY DEF PagesInv
<1>2. ASSUME UNCHANGED <<result, toast, registered>> PROVE ToastIsTrue'
  BY <1>1, <1>2 DEF ToastIsTrue
<1>3. revision \in Nat /\ revision <= revision
  BY <1>1 DEF ConsoleInv, Figures
<1>4. CASE OpenManual
  BY <1>1, <1>2, <1>4, Unmoved DEF OpenManual, consoleVars, notes, PagesInv
<1>5. CASE CloseDialog
  <2>1. UNCHANGED <<page, revision, display, toast, registered>> /\ result' = ""
    BY <1>5 DEF CloseDialog, Closed, notes
  <2>2. calls' = Orphaned(calls)
    BY <1>5 DEF CloseDialog
  <2>3. ConsoleInv'
    BY <1>1, <2>1, <2>2, Left
  <2>4. ToastIsTrue'
    BY <1>1, <2>1 DEF ToastIsTrue
  <2> QED BY <2>3, <2>4 DEF PagesInv
<1>6. CASE Install
  <2>1. PICK arg : arg = Request(IF name = "" THEN entry ELSE name, FALSE, TRUE)
    OBVIOUS
  <2>2. Asks(arg) /\ arg.fits
    BY <2>1 DEF Request, Asks
  <2>3. Ask("install", arg, revision) /\ UNCHANGED <<revision, display, result, toast, registered>>
    BY <1>6, <2>1 DEF Install, FormKept, formVars, form, notes
  <2>4. ConsoleInv'
    BY <1>1, <1>3, <2>2, <2>3, RequestMade DEF display
  <2> QED BY <1>2, <2>3, <2>4 DEF PagesInv
<1>7. ASSUME NEW id, OpenInstall(id) PROVE PagesInv'
  BY <1>1, <1>2, <1>7, Unmoved DEF OpenInstall, consoleVars, notes, PagesInv
<1>8. ASSUME NEW n, EditName(n) PROVE PagesInv'
  BY <1>1, <1>2, <1>8, Unmoved DEF EditName, consoleVars, notes, PagesInv
<1>9. ASSUME NEW f \in Forms, NEW replace, Register(f, replace) PROVE PagesInv'
  <2>1. PICK arg : arg = Request(name, replace, Valid(Payload(f)))
    OBVIOUS
  <2>2. Valid(Payload(f))
    BY <1>9, SubmittedIsValid DEF Register
  <2>3. Asks(arg) /\ arg.fits
    BY <2>1, <2>2 DEF Request, Asks
  <2>4. Ask("register", arg, revision) /\ UNCHANGED <<revision, display, result, toast, registered>>
    BY <1>9, <2>1 DEF Register, FormKept, formVars, form, notes
  <2>5. ConsoleInv'
    BY <1>1, <1>3, <2>3, <2>4, RequestMade DEF display
  <2> QED BY <1>2, <2>4, <2>5 DEF PagesInv
<1> QED BY <1>4, <1>5, <1>6, <1>7, <1>8, <1>9 DEF FormClicks

LEMMA FormAnswers ==
  ASSUME PagesInv, NEW c \in calls, FormAnswer(c)
  PROVE  PagesInv'
<1>1. ConsoleInv /\ ToastIsTrue
  BY DEF PagesInv
<1>2. ASSUME UNCHANGED <<result, toast, registered>> PROVE ToastIsTrue'
  BY <1>1, <1>2 DEF ToastIsTrue
<1>3. ASSUME c.op \in Registrations, c.at = "ok" PROVE c.arg.name \in registered
  BY <1>1, <1>3 DEF ConsoleInv, AllCarried, Carried
<1>4. CASE CatalogCame(c)
  BY <1>1, <1>2, <1>4, Displayed, LoadFailed DEF CatalogCame, form, notes, PagesInv
<1>5. CASE Registered(c)
  <2>1. /\ c.op \in Registrations /\ c.at = "ok" /\ c.op \notin Loading
        /\ toast' = c.arg.name /\ result' \in {"", result}
        /\ UNCHANGED <<page, revision, display, registered>>
    BY <1>5 DEF Registered, Back, Closed, form, Registrations, Loading
  <2>2. ToastIsTrue'
    BY <1>1, <1>3, <2>1 DEF ToastIsTrue
  <2>3. CASE dialog = "manual"
    <3>1. calls' = Orphaned(calls \ {c})
      BY <1>5, <2>3 DEF Registered
    <3>2. \A e \in calls : e.op \in Loading => e \in calls \ {c}
      BY <2>1
    <3>3. ConsoleInv'
      BY <1>1, <2>1, <3>1, <3>2, Left
    <3> QED BY <2>2, <3>3 DEF PagesInv
  <2>4. CASE dialog # "manual"
    <3>1. Over(c)
      BY <1>5, <2>4 DEF Registered, Over
    <3>2. ConsoleInv'
      BY <1>1, <2>1, <3>1, Ended
    <3> QED BY <2>2, <3>2 DEF PagesInv
  <2> QED BY <2>3, <2>4
<1>6. CASE Installed(c)
  <2>1. /\ c.op \in Registrations /\ c.at = "ok" /\ c.op \notin Loading /\ Over(c)
        /\ result' \in {c.arg.name, result}
        /\ UNCHANGED <<display, toast, registered>>
    BY <1>6 DEF Installed, Back, notes, Registrations, Loading
  <2>2. ToastIsTrue'
    BY <1>1, <1>3, <2>1 DEF ToastIsTrue
  <2>3. ConsoleInv'
    BY <1>1, <2>1, Ended
  <2> QED BY <2>2, <2>3 DEF PagesInv
<1>7. CASE NotRegistered(c)
  <2>1. /\ c.op \notin Loading /\ Over(c)
        /\ UNCHANGED <<display, result, toast, registered>>
    BY <1>7 DEF NotRegistered, Back, FormKept, formVars, form, notes, Loading
  <2>2. ConsoleInv'
    BY <1>1, <2>1, Ended
  <2> QED BY <1>2, <2>1, <2>2 DEF PagesInv
<1> QED BY <1>4, <1>5, <1>6, <1>7 DEF FormAnswer

\* What the server does with a request.
LEMMA ServerKeeps ==
  ASSUME PagesInv, NEW c \in calls, Serve(c)
  PROVE  PagesInv'
<1>1. ConsoleInv /\ ToastIsTrue
  BY DEF PagesInv
<1>2. ASSUME UNCHANGED formVars PROVE ToastIsTrue' /\ UNCHANGED registered
  BY <1>1, <1>2 DEF ToastIsTrue, formVars, form, notes
<1>3. ASSUME NEW how, NEW alters \in BOOLEAN, Settled(c, how, alters), UNCHANGED formVars,
             c.op \notin Registrations
      PROVE  PagesInv'
  BY <1>1, <1>2, <1>3, Served DEF PagesInv
<1>4. CASE ServeLoad(c) /\ OfRoutes
  BY <1>3, <1>4 DEF ServeLoad, OfRoutes, Loads, Registrations
<1>5. CASE Lose(c) /\ OfRoutes
  BY <1>1, <1>2, <1>5, RequestLost DEF OfRoutes, PagesInv
<1>6. ASSUME NEW how, ServeRow(c, how), OfRoster PROVE PagesInv'
  BY <1>3, <1>6 DEF ServeRow, OfRoster, Registrations
<1>7. ASSUME NEW how, ServeEdit(c, how), OfEditor PROVE PagesInv'
  BY <1>3, <1>7 DEF ServeEdit, OfEditor, Registrations
<1>8. ASSUME NEW how, ServeImport(c, how), OfInquiry PROVE PagesInv'
  BY <1>3, <1>8 DEF ServeImport, OfInquiry, Registrations
<1>9. ASSUME NEW how, ServeAction(c, how), OfRoutes PROVE PagesInv'
  BY <1>3, <1>9 DEF ServeAction, OfRoutes, Registrations
<1>10. ASSUME NEW how, ServeRegistration(c, how) PROVE PagesInv'
  <2>1. /\ Settled(c, how, how = "ok")
        /\ registered' = IF how = "ok" THEN registered \cup {c.arg.name} ELSE registered
        /\ UNCHANGED <<result, toast>>
    BY <1>10 DEF ServeRegistration, form, notes
  <2>2. registered \subseteq registered'
    BY <2>1
  <2>3. c.op \in Registrations /\ how = "ok" => c.arg.name \in registered'
    BY <2>1
  <2>4. ConsoleInv'
    BY <1>1, <2>1, <2>2, <2>3, Served
  <2>5. ToastIsTrue'
    BY <1>1, <2>1, <2>2 DEF ToastIsTrue
  <2> QED BY <2>4, <2>5 DEF PagesInv
<1> QED BY <1>4, <1>5, <1>6, <1>7, <1>8, <1>9, <1>10 DEF Serve

(***************************************************************************)
(* The theorems.                                                           *)
(***************************************************************************)
LEMMA InitEstablishes == Init => PagesInv
<1> SUFFICES ASSUME Init PROVE PagesInv
  OBVIOUS
<1>1. revision = 0 /\ shown = 0 /\ due = 0 /\ missed = FALSE
  BY DEF Init, ConsoleInit
<1>2. Figures /\ InTime
  <2>1. missed \in BOOLEAN
    BY <1>1
  <2>2. {revision, shown, due} \subseteq Nat /\ due <= revision /\ shown >= due
    BY <1>1
  <2> QED BY <2>1, <2>2 DEF Figures, InTime
<1>3. ToastIsTrue
  BY DEF Init, FormInit, ToastIsTrue
<1>4. Carried(Call(1, "load", "", 0))
  BY <1>1 DEF Carried, Shaped, Call, Registrations
<1>5. calls \subseteq {Call(1, "load", "", 0)}
  BY DEF Init, ConsoleInit
<1>6. AllCarried
  BY <1>4, <1>5 DEF AllCarried
<1> QED BY <1>2, <1>3, <1>6 DEF PagesInv, ConsoleInv

LEMMA NextKeeps == PagesInv /\ [Next]_vars => PagesInv'
<1> SUFFICES ASSUME PagesInv, [Next]_vars PROVE PagesInv'
  OBVIOUS
<1>1. ConsoleInv /\ ToastIsTrue
  BY DEF PagesInv
<1>2. ASSUME UNCHANGED formVars PROVE ToastIsTrue' /\ UNCHANGED registered
  BY <1>1, <1>2 DEF ToastIsTrue, formVars, form, notes
<1>3. CASE Clicks
  <2>1. CASE RosterClicks /\ OfRoster
    BY <1>1, <1>2, <2>1, RosterKeeps DEF OfRoster, PagesInv
  <2>2. CASE EditorClicks /\ OfEditor
    BY <1>1, <1>2, <2>2, EditorKeeps DEF OfEditor, PagesInv
  <2>3. CASE InquiryClicks /\ OfInquiry
    BY <1>1, <1>2, <2>3, InquiryKeeps DEF OfInquiry, PagesInv
  <2>4. CASE RoutesClicks /\ OfRoutes
    BY <1>1, <1>2, <2>4, RoutesKeeps DEF OfRoutes, PagesInv
  <2>5. CASE FormClicks /\ OfForm
    BY <2>5, FormKeeps
  <2> QED BY <1>3, <2>1, <2>2, <2>3, <2>4, <2>5 DEF Clicks
<1>4. ASSUME NEW c \in calls, Serve(c) PROVE PagesInv'
  BY <1>4, ServerKeeps
<1>5. ASSUME NEW c \in calls, Answer(c) PROVE PagesInv'
  <2>1. CASE RosterAnswer(c) /\ OfRoster
    BY <1>1, <1>2, <2>1, RosterAnswers DEF OfRoster, PagesInv
  <2>2. CASE EditorAnswer(c) /\ OfEditor
    BY <1>1, <1>2, <2>2, EditorAnswers DEF OfEditor, PagesInv
  <2>3. CASE InquiryAnswer(c) /\ OfInquiry
    BY <1>1, <1>2, <2>3, InquiryAnswers DEF OfInquiry, PagesInv
  <2>4. CASE RoutesAnswer(c) /\ OfRoutes
    BY <1>1, <1>2, <2>4, RoutesAnswers DEF OfRoutes, PagesInv
  <2>5. CASE FormAnswer(c) /\ OfForm
    BY <2>5, FormAnswers
  <2> QED BY <1>5, <2>1, <2>2, <2>3, <2>4, <2>5 DEF Answer
<1>6. CASE Elsewhere /\ OfRoutes
  <2>1. /\ UNCHANGED <<page, calls, shown, due, missed, registered>>
        /\ revision' = revision + 1
    BY <1>2, <1>6 DEF Elsewhere, OfRoutes, display
  <2>2. Figures /\ AllCarried /\ InTime
    BY <1>1 DEF ConsoleInv
  <2>3. Figures' /\ AllCarried'
    BY <2>1, <2>2 DEF Figures, AllCarried, Carried, Shaped, Asks
  <2>4. InTime'
    BY <2>1, <2>2 DEF InTime, Coming
  <2> QED BY <1>2, <1>6, <2>3, <2>4 DEF OfRoutes, PagesInv, ConsoleInv
<1>7. CASE ToastTimeout /\ OfForm
  <2>1. UNCHANGED <<page, calls, revision, display, result, registered>> /\ toast' = ""
    BY <1>7 DEF ToastTimeout, consoleVars, form
  <2>2. ConsoleInv'
    BY <1>1, <2>1, Unmoved
  <2>3. ToastIsTrue'
    BY <1>1, <2>1 DEF ToastIsTrue
  <2> QED BY <2>2, <2>3 DEF PagesInv
<1>8. CASE UNCHANGED vars
  <2>1. UNCHANGED <<page, calls, revision, display>> /\ UNCHANGED formVars
    BY <1>8 DEF vars, consoleVars
  <2> QED BY <1>1, <1>2, <2>1, Unmoved DEF PagesInv
<1> QED BY <1>3, <1>4, <1>5, <1>6, <1>7, <1>8 DEF Next

\* What is known of the requests in flight and of what they will do holds in
\* every reachable state.
THEOREM Invariance == Spec => []PagesInv
BY InitEstablishes, NextKeeps, PTL DEF Spec

\* Whatever is clicked, changed elsewhere, lost or overtaken, a page at rest
\* shows what it was promised, or a load failed or was overtaken.
THEOREM PagesAreCurrent == Spec => []Current
<1>1. PagesInv => Current
  BY DEF PagesInv, ConsoleInv, InTime, Current
<1> QED BY <1>1, Invariance, PTL

\* canSubmit lets no form through whose payload the schema of the server refuses.
THEOREM FormsAreAccepted == Spec => []FormIsAccepted
<1>1. PagesInv => FormIsAccepted
  BY DEF PagesInv, ConsoleInv, AllCarried, Carried, Registrations, FormIsAccepted
<1> QED BY <1>1, Invariance, PTL

\* An upstream that the page announces was registered for it, however the form
\* was edited, closed and opened meanwhile.
THEOREM ToastsAreTrue == Spec => []ToastIsTrue
<1>1. PagesInv => ToastIsTrue
  BY DEF PagesInv
<1> QED BY <1>1, Invariance, PTL

(***************************************************************************)
(* The inductive invariant of the live pages.                              *)
(***************************************************************************)
Streams ==
  [at : {"none", "connecting", "subscribed", "snapshot", "open", "over"},
   snapshot : Seq(Record), queue : Seq(Record), since : Nat, lossy : Nat]

StreamTypes ==
  /\ log \in Seq(Record) /\ Len(log) <= MaxRecords /\ dropped \in Nat
  /\ opened \in LivePages \cup {"none"}
  /\ stream \in Streams /\ Len(stream.snapshot) <= SnapshotLimit

PollTypes ==
  /\ topology \in SUBSET Upstreams /\ displayed \in SUBSET Upstreams
  /\ polls \in [waiting : 0..MaxPolls, answers : SUBSET SUBSET Upstreams]
  /\ IsFiniteSet(polls.answers)
  /\ changes \in Nat /\ outages \in Nat

TableTypes ==
  /\ records \in Seq(Record) /\ Len(records) <= TableMax
  /\ paused \in BOOLEAN /\ touched \in BOOLEAN
  /\ list \in {"none", "asked", "served"}
  /\ listed \in Seq(Record) /\ Len(listed) <= ListLimit

FilterType == upstreamFilter \in Upstreams \cup {""}

ChartTypes ==
  /\ now \in 0..MaxTime
  /\ buckets \in [1..Buckets -> [t : Int, ok : Nat, err : Nat]]
  /\ arrivals \subseteq [n : Nat, at : Nat, ok : BOOLEAN] /\ IsFiniteSet(arrivals)

Edge == [ok : Nat, err : Nat, age : Nat]

GraphTypes ==
  /\ visible \in BOOLEAN /\ scheduled \in BOOLEAN /\ fatalError \in BOOLEAN
  /\ pending \in Seq(Record) /\ frames \in Nat
  /\ DOMAIN stats \subseteq Upstreams /\ \A u \in DOMAIN stats : stats[u] \in Edge
  /\ pulses \in [Upstreams -> [Statuses -> Nat]]
  /\ seen \in [Upstreams -> Int]

ViewsTypes == StreamTypes /\ PollTypes /\ TableTypes /\ FilterType /\ ChartTypes /\ GraphTypes

\* The records that wait for the subscriber are younger than those before them.
QueueInOrder ==
  /\ \A i \in 1..Len(stream.queue) : stream.queue[i].n <= Len(log)
  /\ \A i, j \in 1..Len(stream.queue) : i < j => stream.queue[i].n < stream.queue[j].n

\* The records since the subscription that do not wait for it.
Unqueued ==
  {n \in stream.since + 1..Len(log) : \A i \in 1..Len(stream.queue) : stream.queue[i].n # n}

\* The first k rows came by the stream: in order, and older than what waits.
TopRows(k) ==
  /\ k <= TableMax /\ k <= Len(records)
  /\ \A i, j \in 1..k : i < j => records[i].n > records[j].n
  /\ \A i \in 1..k : records[i].n <= Len(log)
  /\ \A i \in 1..k, j \in 1..Len(stream.queue) : records[i].n < stream.queue[j].n

\* Such rows, of which there are as many as fit, pushed record n off the end.
PushedOff(k, n) ==
  k = TableMax /\ Len(records) = TableMax /\ \A i \in 1..k : records[i].n > n

\* The records of the subscription that neither wait nor came to the table.
Lost(k) ==
  {n \in Unqueued : (\A i \in 1..k : records[i].n # n) /\ ~PushedOff(k, n)}

\* Before the table follows the stream, and while it does.
QueueIsComplete ==
  stream.at \in {"subscribed", "snapshot"} => Cardinality(Unqueued) <= dropped - stream.lossy
RowsAreComplete ==
  opened = "traffic" /\ stream.at = "open" /\ ~touched =>
    /\ ~paused
    /\ \E k \in 0..TableMax : TopRows(k) /\ Cardinality(Lost(k)) <= dropped - stream.lossy

TableInv == QueueInOrder /\ QueueIsComplete /\ RowsAreComplete

\* No record arrived twice, or is still to arrive.
ArrivedBefore ==
  \A a \in arrivals :
    /\ a.at <= now /\ a.n <= Len(log)
    /\ \A i \in 1..Len(stream.queue) : a.n < stream.queue[i].n

\* The buckets are in order and do not overlap, and the last one has begun.
Spaced ==
  /\ \A i, j \in 1..Buckets : i < j => buckets[i].t + Width <= buckets[j].t
  /\ Last.t <= now

\* The arrivals A that a bucket which begins at t counts as ok or not.
ArrivedIn(A, t, ok) == {a \in A : a.ok = ok /\ a.at \in t..t + Width - 1}

\* ChartIsHistogram, in these terms.
Counts ==
  \A i \in 1..Buckets :
    /\ buckets[i].ok = Cardinality(ArrivedIn(arrivals, buckets[i].t, TRUE))
    /\ buckets[i].err = Cardinality(ArrivedIn(arrivals, buckets[i].t, FALSE))
Covers ==
  \A a \in arrivals : a.at >= buckets[1].t =>
    \E i \in 1..Buckets : a.at \in buckets[i].t..buckets[i].t + Width - 1

ChartInv == ArrivedBefore /\ Spaced /\ Counts /\ Covers

\* The places of the records of an edge that wait, by colour.
OkPlaces(p, u) == {i \in 1..Len(p) : p[i].upstream = u /\ p[i].status = "ok"}
ErrPlaces(p, u) == {i \in 1..Len(p) : p[i].upstream = u /\ p[i].status # "ok"}

\* What an edge is at, as drawn and as it waits, and EdgesCountRecords in these
\* terms.
Drawn(u) == Stat(u).ok + Stat(u).err
Waiting(u) == Cardinality(OkPlaces(pending, u)) + Cardinality(ErrPlaces(pending, u))
EdgesSummed == \A u \in Upstreams : seen[u] = Drawn(u) + Waiting(u)

GraphInv == OneFrame /\ EdgesSummed

ViewsInv == ViewsTypes /\ TableInv /\ ChartInv /\ GraphInv

\* A step does one of these to the stream, or nothing.
StreamStep ==
  \/ \E k \in Kinds : NewRecord(k)
  \/ Subscribe \/ SendSnapshot \/ StreamEnds \/ SnapshotCame
  \/ \E r \in Record : RecordCame(r)
  \/ \E p \in LivePages : Mount(p)
  \/ UNCHANGED <<log, dropped, opened, stream>>

LEMMA StreamSteps ==
  ASSUME [ViewsNext]_viewVars
  PROVE  StreamStep
<1>1. CASE Outside
  BY <1>1 DEF Outside, StreamStep, ChangeTopology, fetched
<1>2. CASE TrafficNext
  BY <1>2
     DEF TrafficNext, OpenTraffic, ListServed, ListCame, ListFailed, TakeSnapshot, TakeRecord,
         Pause, Clear, Filter, StreamStep, LivePages, liveVars, server, fetched
<1>3. CASE OverviewNext
  BY <1>3
     DEF OverviewNext, OpenOverview, ChartSnapshot, ChartRecord, OverviewPoll, ShowCounters, Clock,
         Refresh, PollServed, PollFailed, PollCame, StreamStep, LivePages, liveVars, server, fetched
<1>4. CASE GraphNext
  BY <1>4
     DEF GraphNext, OpenGraph, GraphSnapshot, AcceptRecord, flushPending, PulseEnds, Decay,
         HideOrReturn, GraphPoll, ShowRoutes, Refresh, PollServed, PollFailed, PollCame,
         StreamStep, LivePages, liveVars, server, fetched
<1>5. CASE UNCHANGED viewVars
  BY <1>5 DEF viewVars, liveVars, server, fetched, StreamStep
<1> QED BY <1>1, <1>2, <1>3, <1>4, <1>5 DEF ViewsNext, OnTraffic, OnOverview, OnGraph

(***************************************************************************)
(* The stream: its types, its order and its count.                         *)
(***************************************************************************)

\* What is served of the log are records of it, no more than asked for.
LEMMA RecentFacts ==
  ASSUME log \in Seq(Record), NEW limit \in Nat
  PROVE  Recent(limit) \in Seq(Record) /\ Len(Recent(limit)) <= limit
<1> DEFINE m == IF Len(log) < limit THEN Len(log) ELSE limit
<1>1. m \in Nat /\ m <= limit /\ m <= Len(log) /\ Len(log) \in Nat
  OBVIOUS
<1>2. \A i \in 1..m : Len(log) + 1 - i \in 1..Len(log)
  BY <1>1
<1>3. \A i \in 1..m : log[Len(log) + 1 - i] \in Record
  BY <1>1, <1>2, ElementOfSeq
<1>4. Recent(limit) = [i \in 1..m |-> log[Len(log) + 1 - i]]
  BY DEF Recent
<1>5. Recent(limit) \in [1..m -> Record]
  BY <1>3, <1>4
<1> HIDE DEF m
<1>6. Recent(limit) \in Seq(Record) /\ Len(Recent(limit)) = m
  BY <1>1, <1>5, SMT
<1> QED BY <1>1, <1>6

\* The record that is made next, and what it does to the queue.
NextRecord(k) == [n |-> Len(log) + 1, upstream |-> k.upstream, status |-> k.status]

LEMMA NewRecordFacts ==
  ASSUME StreamTypes, NEW k \in Kinds, NewRecord(k)
  PROVE  /\ NextRecord(k) \in Record /\ Len(log)' = Len(log) + 1 /\ log' \in Seq(Record)
         /\ Len(log)' <= MaxRecords
         /\ stream' \in Streams
         /\ stream'.at = stream.at /\ stream'.since = stream.since
         /\ stream'.lossy = stream.lossy /\ stream'.snapshot = stream.snapshot
         /\ \/ stream'.queue = Append(stream.queue, NextRecord(k)) /\ dropped' = dropped
            \/ stream'.queue = stream.queue /\ dropped' = dropped + 1
            \/ stream'.queue = stream.queue /\ dropped' = dropped /\ ~Subscribed
<1>1. Len(log) \in Nat /\ Len(log) < MaxRecords /\ log' = Append(log, NextRecord(k)) /\ MaxRecords \in Nat
  BY LiveStreamConstants DEF StreamTypes, NewRecord, NextRecord
<1>2. NextRecord(k) \in Record
  BY <1>1 DEF NextRecord, Record
<1>3. log' \in Seq(Record) /\ Len(log)' = Len(log) + 1
  BY <1>1, <1>2 DEF StreamTypes
<1>4. stream.queue \in Seq(Record) /\ Append(stream.queue, NextRecord(k)) \in Seq(Record)
  BY <1>2 DEF StreamTypes, Streams
<1>5. /\ stream' = IF Subscribed /\ ~(Len(stream.queue) >= QueueMax)
                   THEN [stream EXCEPT !.queue = Append(stream.queue, NextRecord(k))] ELSE stream
      /\ dropped' = IF Subscribed /\ Len(stream.queue) >= QueueMax THEN dropped + 1 ELSE dropped
  BY DEF NewRecord, NextRecord
<1>6. CASE Subscribed /\ ~(Len(stream.queue) >= QueueMax)
  <2>1. /\ stream' = [stream EXCEPT !.queue = Append(stream.queue, NextRecord(k))]
        /\ dropped' = dropped
    BY <1>5, <1>6
  <2>2. stream' \in Streams /\ stream'.queue = Append(stream.queue, NextRecord(k))
    BY <1>4, <2>1 DEF StreamTypes, Streams
  <2>3. /\ stream'.at = stream.at /\ stream'.since = stream.since
        /\ stream'.lossy = stream.lossy /\ stream'.snapshot = stream.snapshot
    BY <2>1 DEF StreamTypes, Streams
  <2> QED BY <1>1, <1>2, <1>3, <2>1, <2>2, <2>3
<1>7. CASE ~(Subscribed /\ ~(Len(stream.queue) >= QueueMax))
  BY <1>1, <1>2, <1>3, <1>5, <1>7 DEF StreamTypes, Streams
<1> QED BY <1>6, <1>7

\* A record that is taken is the first of the queue, and the others move up.
LEMMA RecordCameFacts ==
  ASSUME StreamTypes, NEW r \in Record, RecordCame(r)
  PROVE  /\ stream' \in Streams /\ log' = log /\ dropped' = dropped /\ opened' = opened
         /\ stream.at = "open" /\ stream'.at = "open" /\ stream'.since = stream.since
         /\ stream'.lossy = stream.lossy /\ stream'.snapshot = stream.snapshot
         /\ Len(stream.queue) \in Nat \ {0} /\ r = stream.queue[1]
         /\ Len(stream'.queue) = Len(stream.queue) - 1
         /\ \A i \in 1..Len(stream'.queue) : stream'.queue[i] = stream.queue[i + 1]
<1>1. stream.queue \in Seq(Record) /\ stream.queue # <<>> /\ r = Head(stream.queue)
  BY DEF StreamTypes, Streams, RecordCame
<1>2. stream' = [stream EXCEPT !.queue = Tail(stream.queue)]
  BY DEF RecordCame
<1>3. /\ Tail(stream.queue) \in Seq(Record) /\ Len(Tail(stream.queue)) = Len(stream.queue) - 1
      /\ \A i \in 1..Len(Tail(stream.queue)) : Tail(stream.queue)[i] = stream.queue[i + 1]
      /\ Len(stream.queue) \in Nat \ {0}
  BY <1>1, HeadTailProperties, EmptySeq
<1>4. Head(stream.queue) = stream.queue[1]
  BY <1>1
<1>5. stream' \in Streams /\ stream'.queue = Tail(stream.queue)
  BY <1>2, <1>3 DEF StreamTypes, Streams
<1>6. /\ stream'.at = stream.at /\ stream'.since = stream.since
      /\ stream'.lossy = stream.lossy /\ stream'.snapshot = stream.snapshot
  BY <1>2 DEF StreamTypes, Streams
<1> QED BY <1>1, <1>3, <1>4, <1>5, <1>6 DEF RecordCame, server

LEMMA StreamTypesKept ==
  ASSUME StreamTypes, StreamStep
  PROVE  StreamTypes'
<1> USE DEF StreamTypes
<1>0. SnapshotLimit \in Nat /\ <<>> \in Seq(Record) /\ Len(<<>>) = 0
  BY LiveStreamConstants, EmptySeq
<1>1. ASSUME NEW k \in Kinds, NewRecord(k)
      PROVE  StreamTypes'
  <2>1. opened' = opened
    BY <1>1 DEF NewRecord
  <2> QED BY <1>1, <2>1, NewRecordFacts
<1>2. CASE Subscribe
  <2>1. Len(log) \in Nat
    OBVIOUS
  <2> QED BY <1>2, <2>1 DEF Subscribe, Streams, server
<1>3. CASE SendSnapshot
  BY <1>0, <1>3, RecentFacts DEF SendSnapshot, Streams, server
<1>4. CASE StreamEnds
  <2>1. stream' = [at |-> "over", snapshot |-> <<>>, queue |-> <<>>, since |-> 0, lossy |-> 0]
    BY <1>4 DEF StreamEnds, NoStream
  <2>2. stream' \in Streams /\ stream'.snapshot = <<>>
    BY <1>0, <2>1 DEF Streams
  <2> QED BY <1>0, <1>4, <2>2 DEF StreamEnds, server
<1>5. CASE SnapshotCame
  <2>1. stream' \in Streams /\ stream'.snapshot = <<>>
    BY <1>0, <1>5 DEF SnapshotCame, Streams
  <2> QED BY <1>0, <1>5, <2>1 DEF SnapshotCame, server
<1>6. ASSUME NEW r \in Record, RecordCame(r)
      PROVE  StreamTypes'
  BY <1>6, RecordCameFacts
<1>7. ASSUME NEW p \in LivePages, Mount(p)
      PROVE  StreamTypes'
  <2>1. stream' = [at |-> "connecting", snapshot |-> <<>>, queue |-> <<>>, since |-> 0, lossy |-> 0]
    BY <1>7 DEF Mount, Connecting, NoStream
  <2>2. stream' \in Streams /\ stream'.snapshot = <<>>
    BY <1>0, <2>1 DEF Streams
  <2> QED BY <1>0, <1>7, <2>2 DEF Mount, server
<1>8. CASE UNCHANGED <<log, dropped, opened, stream>>
  BY <1>8
<1> QED BY <1>1, <1>2, <1>3, <1>4, <1>5, <1>6, <1>7, <1>8 DEF StreamStep

LEMMA QueueInOrderKept ==
  ASSUME StreamTypes, QueueInOrder, StreamStep
  PROVE  QueueInOrder'
<1>0. Len(log) \in Nat /\ stream.queue \in Seq(Record) /\ Len(stream.queue) \in Nat
  BY DEF StreamTypes, Streams
<1>a. \A i \in 1..Len(stream.queue) : stream.queue[i].n \in Nat
  BY <1>0, ElementOfSeq DEF Record
<1>1. ASSUME NEW k \in Kinds, NewRecord(k)
      PROVE  QueueInOrder'
  <2>1. /\ Len(log') = Len(log) + 1 /\ NextRecord(k) \in Record /\ NextRecord(k).n = Len(log) + 1
        /\ \/ stream'.queue = Append(stream.queue, NextRecord(k))
           \/ stream'.queue = stream.queue
    BY <1>1, NewRecordFacts DEF NextRecord
  <2>2. CASE stream'.queue = stream.queue
    BY <1>0, <1>a, <2>1, <2>2 DEF QueueInOrder
  <2>3. CASE stream'.queue = Append(stream.queue, NextRecord(k))
    <3>1. /\ Len(stream'.queue) = Len(stream.queue) + 1
          /\ \A i \in 1..Len(stream.queue) : stream'.queue[i] = stream.queue[i]
          /\ stream'.queue[Len(stream.queue) + 1].n = Len(log) + 1
      BY <1>0, <2>1, <2>3, AppendProperties
    <3>2. \A i \in 1..Len(stream'.queue) : i \in 1..Len(stream.queue) \/ i = Len(stream.queue) + 1
      BY <1>0, <3>1
    <3>3. \A i \in 1..Len(stream'.queue) : stream'.queue[i].n <= Len(log')
      BY <1>0, <1>a, <2>1, <3>1, <3>2 DEF QueueInOrder
    <3>4. ASSUME NEW i \in 1..Len(stream'.queue), NEW j \in 1..Len(stream'.queue), i < j
          PROVE  stream'.queue[i].n < stream'.queue[j].n
      <4>1. i \in 1..Len(stream.queue)
        BY <1>0, <3>1, <3>4
      <4>2. CASE j \in 1..Len(stream.queue)
        <5>1. stream.queue[i].n < stream.queue[j].n
          BY <3>4, <4>1, <4>2 DEF QueueInOrder
        <5> QED BY <3>1, <4>1, <4>2, <5>1
      <4>3. CASE j = Len(stream.queue) + 1
        <5>1. stream.queue[i].n \in Nat /\ stream.queue[i].n <= Len(log)
          BY <1>a, <4>1 DEF QueueInOrder
        <5>2. stream'.queue[i].n = stream.queue[i].n /\ stream'.queue[j].n = Len(log) + 1
          BY <3>1, <4>1, <4>3
        <5> QED BY <1>0, <5>1, <5>2
      <4> QED BY <3>2, <4>2, <4>3
    <3> QED BY <3>3, <3>4 DEF QueueInOrder
  <2> QED BY <2>1, <2>2, <2>3
<1>2. CASE Subscribe
  <2>1. stream'.queue = stream.queue /\ log' = log
    BY <1>2 DEF Subscribe, server, StreamTypes, Streams
  <2> QED BY <2>1 DEF QueueInOrder
<1>3. CASE SendSnapshot
  <2>1. stream'.queue = stream.queue /\ log' = log
    BY <1>3 DEF SendSnapshot, server, StreamTypes, Streams
  <2> QED BY <2>1 DEF QueueInOrder
<1>4. CASE StreamEnds \/ \E p \in LivePages : Mount(p)
  <2>1. Len(stream'.queue) = 0
    BY <1>4, EmptySeq DEF StreamEnds, Mount, Connecting, NoStream
  <2> QED BY <2>1 DEF QueueInOrder
<1>5. CASE SnapshotCame
  <2>1. stream'.queue = stream.queue /\ log' = log
    BY <1>5 DEF SnapshotCame, server, StreamTypes, Streams
  <2> QED BY <2>1 DEF QueueInOrder
<1>6. ASSUME NEW r \in Record, RecordCame(r)
      PROVE  QueueInOrder'
  <2>1. /\ Len(stream'.queue) = Len(stream.queue) - 1 /\ log' = log
        /\ \A i \in 1..Len(stream'.queue) : stream'.queue[i] = stream.queue[i + 1]
    BY <1>6, RecordCameFacts
  <2>2. \A i \in 1..Len(stream'.queue) : i + 1 \in 1..Len(stream.queue)
    BY <1>0, <2>1
  <2>3. \A i \in 1..Len(stream'.queue) : stream'.queue[i].n <= Len(log')
    BY <1>0, <2>1, <2>2 DEF QueueInOrder
  <2>4. ASSUME NEW i \in 1..Len(stream'.queue), NEW j \in 1..Len(stream'.queue), i < j
        PROVE  stream'.queue[i].n < stream'.queue[j].n
    <3>1. i + 1 \in 1..Len(stream.queue) /\ j + 1 \in 1..Len(stream.queue) /\ i + 1 < j + 1
      BY <1>0, <2>1, <2>4
    <3>2. stream.queue[i + 1].n < stream.queue[j + 1].n
      BY <3>1 DEF QueueInOrder
    <3> QED BY <2>1, <3>2
  <2> QED BY <2>3, <2>4 DEF QueueInOrder
<1>7. CASE UNCHANGED <<log, dropped, opened, stream>>
  BY <1>7 DEF QueueInOrder
<1> QED BY <1>1, <1>2, <1>3, <1>4, <1>5, <1>6, <1>7 DEF StreamStep

\* A set that grows by at most one element.
LEMMA OneMore ==
  ASSUME NEW S, IsFiniteSet(S), NEW x, NEW T, T \subseteq S \cup {x}
  PROVE  /\ Cardinality(S) \in Nat /\ Cardinality(T) \in Nat
         /\ Cardinality(T) <= Cardinality(S) + 1
         /\ T \subseteq S => Cardinality(T) <= Cardinality(S)
<1>1. IsFiniteSet(S \cup {x}) /\ Cardinality(S \cup {x}) \in {Cardinality(S), Cardinality(S) + 1}
  BY FS_AddElement
<1>2. IsFiniteSet(T) /\ Cardinality(T) <= Cardinality(S \cup {x})
  BY <1>1, FS_Subset
<1>3. Cardinality(S) \in Nat /\ Cardinality(T) \in Nat
  BY <1>2, FS_CardinalityType
<1>4. T \subseteq S => Cardinality(T) <= Cardinality(S)
  BY FS_Subset
<1> QED BY <1>1, <1>2, <1>3, <1>4

LEMMA UnqueuedIsFinite ==
  ASSUME StreamTypes
  PROVE  IsFiniteSet(Unqueued) /\ Cardinality(Unqueued) \in Nat
<1>1. stream.since + 1 \in Int /\ Len(log) \in Int
  BY DEF StreamTypes, Streams
<1>2. IsFiniteSet(stream.since + 1..Len(log))
  BY <1>1, FS_Interval
<1>3. Unqueued \subseteq stream.since + 1..Len(log)
  BY DEF Unqueued
<1> QED BY <1>2, <1>3, FS_Subset, FS_CardinalityType

\* A record that is made waits in the queue, or is counted as dropped, or there
\* is no subscriber.
LEMMA QueuedOrDropped ==
  ASSUME StreamTypes, NEW k \in Kinds, NewRecord(k)
  PROVE  \/ Unqueued' \subseteq Unqueued /\ dropped' = dropped
         \/ Unqueued' \subseteq Unqueued \cup {Len(log) + 1} /\ dropped' = dropped + 1
         \/ ~Subscribed
<1>0. /\ Len(log) \in Nat /\ stream.queue \in Seq(Record) /\ Len(stream.queue) \in Nat
      /\ stream.since \in Nat
  BY DEF StreamTypes, Streams
<1>1. /\ Len(log') = Len(log) + 1 /\ NextRecord(k) \in Record /\ NextRecord(k).n = Len(log) + 1
      /\ stream'.since = stream.since
      /\ \/ stream'.queue = Append(stream.queue, NextRecord(k)) /\ dropped' = dropped
         \/ stream'.queue = stream.queue /\ dropped' = dropped + 1
         \/ stream'.queue = stream.queue /\ dropped' = dropped /\ ~Subscribed
  BY NewRecordFacts DEF NextRecord
<1>2. CASE stream'.queue = Append(stream.queue, NextRecord(k)) /\ dropped' = dropped
  <2>1. /\ Len(stream'.queue) = Len(stream.queue) + 1
        /\ \A i \in 1..Len(stream.queue) : stream'.queue[i] = stream.queue[i]
        /\ stream'.queue[Len(stream.queue) + 1].n = Len(log) + 1
    BY <1>0, <1>1, <1>2, AppendProperties
  <2>2. ASSUME NEW n \in Unqueued'
        PROVE  n \in Unqueued
    <3>1. /\ n \in stream.since + 1..Len(log) + 1
          /\ \A i \in 1..Len(stream.queue) + 1 : stream'.queue[i].n # n
      BY <1>1, <2>1, <2>2 DEF Unqueued
    <3>2. n # Len(log) + 1
      BY <1>0, <2>1, <3>1
    <3>3. \A i \in 1..Len(stream.queue) : i \in 1..Len(stream.queue) + 1
      BY <1>0
    <3>4. \A i \in 1..Len(stream.queue) : stream.queue[i].n # n
      BY <2>1, <3>1, <3>3
    <3>5. n \in stream.since + 1..Len(log)
      BY <1>0, <3>1, <3>2
    <3> QED BY <3>4, <3>5 DEF Unqueued
  <2> QED BY <1>2, <2>2
<1>3. CASE stream'.queue = stream.queue /\ dropped' = dropped + 1
  <2>1. ASSUME NEW n \in Unqueued'
        PROVE  n \in Unqueued \cup {Len(log) + 1}
    <3>1. /\ n \in stream.since + 1..Len(log) + 1
          /\ \A i \in 1..Len(stream.queue) : stream.queue[i].n # n
      BY <1>1, <1>3, <2>1 DEF Unqueued
    <3> QED BY <1>0, <3>1 DEF Unqueued
  <2> QED BY <1>3, <2>1
<1> QED BY <1>1, <1>2, <1>3

LEMMA QueueIsCompleteKept ==
  ASSUME StreamTypes, QueueIsComplete, StreamStep
  PROVE  QueueIsComplete'
<1>0. dropped \in Nat /\ stream.lossy \in Nat /\ Len(log) \in Nat
  BY DEF StreamTypes, Streams
<1>1. ASSUME NEW k \in Kinds, NewRecord(k)
      PROVE  QueueIsComplete'
  <2>1. stream'.at = stream.at /\ stream'.lossy = stream.lossy
    BY <1>1, NewRecordFacts
  <2>2. SUFFICES ASSUME stream.at \in {"subscribed", "snapshot"}
                 PROVE  Cardinality(Unqueued') <= dropped' - stream.lossy
    BY <2>1 DEF QueueIsComplete
  <2>3. Cardinality(Unqueued) \in Nat /\ Cardinality(Unqueued) <= dropped - stream.lossy
    BY <2>2, UnqueuedIsFinite DEF QueueIsComplete
  <2>4. CASE Unqueued' \subseteq Unqueued /\ dropped' = dropped
    <3>1. Cardinality(Unqueued') \in Nat /\ Cardinality(Unqueued') <= Cardinality(Unqueued)
      BY <2>4, UnqueuedIsFinite, OneMore
    <3> QED BY <1>0, <2>3, <2>4, <3>1
  <2>5. CASE Unqueued' \subseteq Unqueued \cup {Len(log) + 1} /\ dropped' = dropped + 1
    <3>1. Cardinality(Unqueued') \in Nat /\ Cardinality(Unqueued') <= Cardinality(Unqueued) + 1
      BY <2>5, UnqueuedIsFinite, OneMore
    <3> QED BY <1>0, <2>3, <2>5, <3>1
  <2> QED BY <1>1, <2>2, <2>4, <2>5, QueuedOrDropped DEF Subscribed
<1>2. CASE Subscribe
  <2>1. stream'.since = Len(log) /\ stream'.lossy = dropped /\ log' = log /\ dropped' = dropped
    BY <1>2 DEF Subscribe, server, StreamTypes, Streams
  <2>2. Unqueued' = {}
    BY <1>0, <2>1 DEF Unqueued
  <2> QED BY <1>0, <2>1, <2>2, FS_EmptySet DEF QueueIsComplete
<1>3. CASE SendSnapshot
  <2>1. /\ stream'.since = stream.since /\ stream'.lossy = stream.lossy
        /\ stream'.queue = stream.queue /\ log' = log /\ dropped' = dropped
    BY <1>3 DEF SendSnapshot, server, StreamTypes, Streams
  <2>2. Unqueued' = Unqueued
    BY <2>1 DEF Unqueued
  <2> QED BY <1>3, <2>1, <2>2 DEF QueueIsComplete, SendSnapshot
<1>4. CASE StreamEnds \/ SnapshotCame \/ \E p \in LivePages : Mount(p)
  <2>1. stream'.at \in {"over", "open", "connecting"}
    BY <1>4 DEF StreamEnds, SnapshotCame, Mount, Connecting, NoStream, StreamTypes, Streams
  <2> QED BY <2>1 DEF QueueIsComplete
<1>5. ASSUME NEW r \in Record, RecordCame(r)
      PROVE  QueueIsComplete'
  BY <1>5, RecordCameFacts DEF QueueIsComplete
<1>6. CASE UNCHANGED <<log, dropped, opened, stream>>
  BY <1>6 DEF QueueIsComplete, Unqueued
<1> QED BY <1>1, <1>2, <1>3, <1>4, <1>5, <1>6 DEF StreamStep

(***************************************************************************)
(* The table.                                                              *)
(***************************************************************************)
LEMMA TableNumbers ==
  /\ ListLimit \in Nat /\ TableMax \in Nat /\ SnapshotLimit \in Nat
  /\ ListLimit <= TableMax /\ SnapshotLimit <= TableMax
  /\ <<>> \in Seq(Record) /\ Len(<<>>) = 0
<1>1. ListLimit \in Nat /\ TableMax \in Nat
  BY TrafficConstants
<1>2. SnapshotLimit \in Nat
  BY LiveStreamConstants
<1>3. ListLimit <= TableMax /\ SnapshotLimit <= TableMax
  BY TrafficConstants
<1> QED BY <1>1, <1>2, <1>3, EmptySeq

LEMMA OnTopFacts ==
  ASSUME records \in Seq(Record), Len(records) <= TableMax, NEW r \in Record
  PROVE  /\ OnTop(r) \in Seq(Record)
         /\ Len(OnTop(r)) = IF Len(records) < TableMax THEN Len(records) + 1 ELSE TableMax
         /\ \A i \in 1..Len(OnTop(r)) : OnTop(r)[i] = IF i = 1 THEN r ELSE records[i - 1]
<1> DEFINE rows == <<r>> \o records
           m == IF Len(rows) > TableMax THEN TableMax ELSE Len(rows)
<1>0. Len(records) \in Nat /\ TableMax \in Nat
  BY TableNumbers
<1>1. <<r>> \in Seq(Record) /\ Len(<<r>>) = 1 /\ <<r>>[1] = r
  OBVIOUS
<1>2. /\ rows \in Seq(Record) /\ Len(rows) = Len(records) + 1
      /\ \A i \in 1..Len(records) + 1 : rows[i] = IF i = 1 THEN r ELSE records[i - 1]
  <2>1. /\ <<r>> \o records \in Seq(Record)
        /\ Len(<<r>> \o records) = Len(<<r>>) + Len(records)
        /\ \A i \in 1..Len(<<r>>) + Len(records) : (<<r>> \o records)[i] =
             IF i <= Len(<<r>>) THEN <<r>>[i] ELSE records[i - Len(<<r>>)]
    BY <1>0, <1>1, ConcatProperties
  <2> QED BY <1>0, <1>1, <2>1
<1>3. OnTop(r) = SubSeq(rows, 1, m)
  BY DEF OnTop
<1>4. m \in Nat /\ m = IF Len(records) < TableMax THEN Len(records) + 1 ELSE TableMax
  BY <1>0, <1>2
<1> HIDE DEF rows, m
<1>5. \A i \in 1..m : i \in 1..Len(records) + 1
  BY <1>0, <1>4
<1>6. \A i \in 1..m : rows[i] \in Record
  BY <1>2, <1>5, ElementOfSeq
<1>7. /\ SubSeq(rows, 1, m) \in Seq(Record)
      /\ Len(SubSeq(rows, 1, m)) = IF 1 <= m THEN m - 1 + 1 ELSE 0
      /\ \A i \in 1..m - 1 + 1 : SubSeq(rows, 1, m)[i] = rows[1 + i - 1]
  BY <1>4, <1>6, SubSeqProperties
<1>8. /\ Len(OnTop(r)) = m
      /\ \A i \in 1..m : OnTop(r)[i] = rows[i]
  BY <1>3, <1>4, <1>7
<1> QED BY <1>2, <1>3, <1>4, <1>5, <1>7, <1>8

LEMMA TableTypesKept ==
  ASSUME StreamTypes, TableTypes, [ViewsNext]_viewVars
  PROVE  TableTypes'
<1> USE DEF TableTypes
<1>0. /\ ListLimit \in Nat /\ TableMax \in Nat /\ SnapshotLimit \in Nat
      /\ ListLimit <= TableMax /\ SnapshotLimit <= TableMax
      /\ <<>> \in Seq(Record) /\ Len(<<>>) = 0
  BY TableNumbers
<1>a. Len(records) \in Nat /\ Len(listed) \in Nat
  OBVIOUS
<1>1. CASE UNCHANGED trafficVars
  BY <1>1 DEF trafficVars
<1>2. CASE TrafficNext
  <2>1. CASE OpenTraffic
    BY <2>1 DEF OpenTraffic
  <2>2. CASE ListServed
    BY <1>0, <2>2, RecentFacts DEF ListServed, StreamTypes
  <2>3. CASE ListCame
    <3>1. Len(listed) <= TableMax
      BY <1>0, <1>a
    <3>2. /\ records' = listed /\ listed' = <<>> /\ list' = "none"
          /\ touched' = (touched \/ stream.at = "open")
          /\ UNCHANGED <<paused>>
      BY <2>3 DEF ListCame
    <3>3. touched' \in BOOLEAN
      BY <3>2
    <3>4. records' \in Seq(Record) /\ Len(records') <= TableMax
      BY <3>1, <3>2
    <3>5. listed' \in Seq(Record) /\ Len(listed') <= ListLimit
      BY <1>0, <3>2
    <3> QED BY <3>2, <3>3, <3>4, <3>5
  <2>4. CASE ListFailed
    <3>1. listed' = <<>> /\ list' = "none" /\ UNCHANGED <<records, paused, upstreamFilter, touched>>
      BY <2>4 DEF ListFailed
    <3>2. listed' \in Seq(Record) /\ Len(listed') <= ListLimit
      BY <1>0, <3>1
    <3> QED BY <3>1, <3>2
  <2>5. CASE TakeSnapshot
    <3>0. stream.snapshot \in Seq(Record) /\ Len(stream.snapshot) <= SnapshotLimit
      BY DEF StreamTypes, Streams
    <3>1. stream.snapshot \in Seq(Record) /\ Len(stream.snapshot) <= TableMax
      BY <1>0, <3>0
    <3>2. records' \in {records, stream.snapshot} /\ touched' = paused
      BY <2>5 DEF TakeSnapshot
    <3> QED BY <2>5, <3>1, <3>2 DEF TakeSnapshot
  <2>6. CASE TakeRecord
    <3>1. PICK r \in Record : records' \in {records, OnTop(r)}
      BY <2>6 DEF TakeRecord
    <3>2. /\ OnTop(r) \in Seq(Record)
          /\ Len(OnTop(r)) = IF Len(records) < TableMax THEN Len(records) + 1 ELSE TableMax
      BY OnTopFacts
    <3>3. Len(OnTop(r)) <= TableMax
      BY <1>0, <1>a, <3>2
    <3> QED BY <2>6, <3>1, <3>2, <3>3 DEF TakeRecord
  <2>7. CASE Pause
    BY <2>7 DEF Pause
  <2>8. CASE Clear
    <3>1. records' = <<>> /\ touched' = TRUE /\ UNCHANGED <<paused, list, listed>>
      BY <2>8 DEF Clear
    <3>2. records' \in Seq(Record) /\ Len(records') <= TableMax
      BY <1>0, <3>1
    <3> QED BY <3>1, <3>2
  <2>9. CASE \E u \in Upstreams \cup {""} : Filter(u)
    <3>1. UNCHANGED <<records, paused, list, listed, touched>>
      BY <2>9, Zenon DEF Filter
    <3> QED BY <3>1
  <2> QED BY <1>2, <2>1, <2>2, <2>3, <2>4, <2>5, <2>6, <2>7, <2>8, <2>9 DEF TrafficNext
<1> QED BY <1>1, <1>2 DEF ViewsNext, Outside, OnTraffic, OnOverview, OnGraph, viewVars

LEMMA LostIsFinite ==
  ASSUME StreamTypes, NEW k
  PROVE  IsFiniteSet(Lost(k)) /\ Cardinality(Lost(k)) \in Nat
<1>1. Lost(k) \subseteq Unqueued
  BY DEF Lost
<1> QED BY <1>1, UnqueuedIsFinite, FS_Subset, FS_CardinalityType

\* A record that goes on top is younger than the rows that came by the stream; a
\* row that it pushes off the end is the oldest of them.
LEMMA TopRowsKept ==
  ASSUME StreamTypes, QueueInOrder, TableTypes, NEW k \in 0..TableMax, TopRows(k),
         NEW r \in Record, RecordCame(r), records' = OnTop(r)
  PROVE  \E l \in 0..TableMax : TopRows(l)' /\ Lost(l)' \subseteq Lost(k)
<1> DEFINE l == IF k < TableMax THEN k + 1 ELSE k
<1>0. /\ TableMax \in Nat /\ Len(log) \in Nat /\ Len(records) \in Nat /\ Len(stream.queue) \in Nat
      /\ k \in Nat /\ k <= TableMax /\ k <= Len(records) /\ Len(records) <= TableMax
      /\ stream.since \in Nat
  <2>1. TableMax \in Nat
    BY TableNumbers
  <2>2. records \in Seq(Record) /\ Len(records) <= TableMax
    BY DEF TableTypes
  <2>3. stream.queue \in Seq(Record) /\ stream.since \in Nat /\ log \in Seq(Record)
    BY DEF StreamTypes, Streams
  <2> QED BY <2>1, <2>2, <2>3 DEF TopRows
<1>1. /\ log' = log /\ stream'.since = stream.since
      /\ Len(stream.queue) >= 1 /\ r = stream.queue[1]
      /\ Len(stream'.queue) = Len(stream.queue) - 1
      /\ \A i \in 1..Len(stream'.queue) : stream'.queue[i] = stream.queue[i + 1]
  BY RecordCameFacts
<1>2. /\ Len(records') = IF Len(records) < TableMax THEN Len(records) + 1 ELSE TableMax
      /\ \A i \in 1..Len(records') : records'[i] = IF i = 1 THEN r ELSE records[i - 1]
  BY OnTopFacts DEF TableTypes
<1>3. /\ l \in 0..TableMax /\ l <= Len(records')
      /\ \A i \in 1..l : i = 1 \/ i - 1 \in 1..k
      /\ k = TableMax => l = k /\ Len(records) = TableMax /\ Len(records') = TableMax
      /\ \A i \in 1..k : i + 1 \in 1..l \/ (k = TableMax /\ i = k)
      /\ TableMax > 0 => 1 \in 1..l
      /\ TableMax = 0 => k = 0 /\ l = 0
  BY <1>0, <1>2
<1>4. /\ \A i \in 1..Len(stream.queue) : stream.queue[i].n \in Nat
      /\ \A i \in 1..k : records[i].n \in Nat
      /\ r.n \in Nat
  <2>1. \A i \in 1..Len(stream.queue) : stream.queue[i] \in Record
    BY ElementOfSeq DEF StreamTypes, Streams
  <2>2. \A i \in 1..k : i \in 1..Len(records)
    BY <1>0
  <2>3. \A i \in 1..k : records[i] \in Record
    BY <2>2, ElementOfSeq DEF TableTypes
  <2> QED BY <2>1, <2>3 DEF Record
<1>5. \A i \in 1..l : i \in 1..Len(records')
  BY <1>0, <1>2, <1>3
<1>6. \A i \in 1..l : records'[i] = IF i = 1 THEN r ELSE records[i - 1]
  BY <1>2, <1>5
<1> HIDE DEF l
<1>7. \A i \in 1..k : records[i].n < r.n
  <2>1. 1 \in 1..Len(stream.queue)
    BY <1>0, <1>1
  <2> QED BY <1>1, <2>1 DEF TopRows
<1>8. TopRows(l)'
  <2>1. ASSUME NEW i \in 1..l, NEW j \in 1..l, i < j
        PROVE  records'[i].n > records'[j].n
    <3>1. j # 1 /\ j - 1 \in 1..k /\ records'[j] = records[j - 1]
      BY <1>3, <1>6, <2>1
    <3>2. CASE i = 1
      <4>1. records'[i] = r /\ records[j - 1].n < r.n /\ records[j - 1].n \in Nat
        BY <1>4, <1>6, <1>7, <3>1, <3>2
      <4> QED BY <1>4, <3>1, <4>1
    <3>3. CASE i # 1
      <4>1. i - 1 \in 1..k /\ records'[i] = records[i - 1]
        BY <1>3, <1>6, <3>3
      <4>2. i - 1 < j - 1
        BY <1>3, <2>1
      <4> QED BY <3>1, <4>1, <4>2 DEF TopRows
    <3> QED BY <3>2, <3>3
  <2>2. ASSUME NEW i \in 1..l
        PROVE  records'[i].n <= Len(log')
    <3>1. 1 \in 1..Len(stream.queue)
      BY <1>0, <1>1
    <3>2. r.n <= Len(log)
      BY <1>1, <3>1 DEF QueueInOrder
    <3>3. i = 1 \/ (i # 1 /\ i - 1 \in 1..k /\ records'[i] = records[i - 1])
      BY <1>3, <1>6
    <3> QED BY <1>1, <1>6, <3>2, <3>3 DEF TopRows
  <2>3. ASSUME NEW i \in 1..l, NEW j \in 1..Len(stream'.queue)
        PROVE  records'[i].n < stream'.queue[j].n
    <3>0. stream'.queue[j] = stream.queue[j + 1]
      BY <1>1
    <3>1. 1 \in 1..Len(stream.queue) /\ j + 1 \in 1..Len(stream.queue) /\ 1 < j + 1
      BY <1>0, <1>1
    <3>2. r.n < stream.queue[j + 1].n
      BY <1>1, <3>1 DEF QueueInOrder
    <3>3. i = 1 \/ (i # 1 /\ i - 1 \in 1..k /\ records'[i] = records[i - 1])
      BY <1>3, <1>6
    <3> QED BY <1>6, <3>0, <3>1, <3>2, <3>3 DEF TopRows
  <2> QED BY <1>0, <1>3, <2>1, <2>2, <2>3 DEF TopRows
<1>9. ASSUME NEW n \in Lost(l)'
      PROVE  n \in Lost(k)
  <2>1. /\ n \in stream.since + 1..Len(log)
        /\ \A i \in 1..Len(stream'.queue) : stream'.queue[i].n # n
        /\ \A i \in 1..l : records'[i].n # n
        /\ ~(l = TableMax /\ Len(records') = TableMax /\ \A i \in 1..l : records'[i].n > n)
    BY <1>1, <1>9 DEF Lost, Unqueued, PushedOff
  <2>2. n # r.n
    <3>1. CASE TableMax = 0
      BY <1>2, <1>3, <2>1, <3>1
    <3>2. CASE TableMax > 0
      BY <1>3, <1>6, <2>1, <3>2
    <3> QED BY <1>0, <3>1, <3>2
  <2>3. ASSUME NEW i \in 1..Len(stream.queue)
        PROVE  stream.queue[i].n # n
    <3>1. i = 1 \/ (i - 1 \in 1..Len(stream'.queue) /\ i - 1 + 1 = i)
      BY <1>0, <1>1
    <3> QED BY <1>1, <2>1, <2>2, <3>1
  <2>4. n \in Nat
    BY <1>0, <2>1
  <2>5. \A j \in 1..l : j = 1 \/ (j # 1 /\ j - 1 \in 1..k /\ records'[j] = records[j - 1])
    BY <1>3, <1>6
  <2>6. ASSUME NEW i \in 1..k
        PROVE  records[i].n # n
    <3>1. CASE i + 1 \in 1..l
      <4>1. i + 1 # 1 /\ i + 1 - 1 = i
        OBVIOUS
      <4>2. records'[i + 1] = records[i]
        BY <1>6, <3>1, <4>1
      <4> QED BY <2>1, <3>1, <4>2
    <3>2. CASE k = TableMax /\ i = k
      <4>1. SUFFICES ASSUME records[i].n = n
                     PROVE  FALSE
        OBVIOUS
      <4>2. ASSUME NEW j \in 1..l
            PROVE  records'[j].n > n
        <5>1. CASE j = 1
          BY <1>4, <1>6, <1>7, <2>4, <4>1, <5>1
        <5>2. CASE j # 1 /\ j - 1 \in 1..k /\ records'[j] = records[j - 1]
          <6>1. j - 1 < i
            BY <1>0, <1>3, <3>2, <4>2, <5>2
          <6> QED BY <4>1, <5>2, <6>1 DEF TopRows
        <5> QED BY <2>5, <5>1, <5>2
      <4> QED BY <1>3, <2>1, <3>2, <4>2
    <3> QED BY <1>3, <3>1, <3>2
  <2>7. ~PushedOff(k, n)
    <3>1. SUFFICES ASSUME k = TableMax, \A i \in 1..k : records[i].n > n
                   PROVE  \A j \in 1..l : records'[j].n > n
      BY <1>3, <2>1 DEF PushedOff
    <3>2. TAKE j \in 1..l
    <3>3. CASE j = 1
      <4>1. 1 \in 1..k
        BY <1>0, <1>3, <3>1, <3>2
      <4>2. records[1].n > n /\ records[1].n < r.n /\ records[1].n \in Nat
        BY <1>4, <1>7, <3>1, <4>1
      <4> QED BY <1>4, <1>6, <2>4, <3>2, <3>3, <4>2
    <3>4. CASE j # 1 /\ j - 1 \in 1..k /\ records'[j] = records[j - 1]
      BY <3>1, <3>4
    <3> QED BY <2>5, <3>3, <3>4
  <2> QED BY <2>1, <2>3, <2>6, <2>7 DEF Lost, Unqueued
<1> QED BY <1>3, <1>8, <1>9

LEMMA RecordFields ==
  ASSUME NEW r \in Record
  PROVE  r.n \in Nat /\ r.upstream \in Upstreams /\ r.status \in Statuses
<1>1. PICK n \in 1..MaxRecords, k \in Kinds :
        r = [n |-> n, upstream |-> k.upstream, status |-> k.status]
  BY DEF Record
<1>2. k.upstream \in Upstreams /\ k.status \in {"ok", "error"}
  BY LiveStreamConstants
<1> QED BY <1>1, <1>2 DEF Statuses

LEMMA FilterTypeKept ==
  ASSUME TableTypes, FilterType, [ViewsNext]_viewVars
  PROVE  FilterType'
<1>1. CASE \E u \in Upstreams \cup {""} : Filter(u)
  <2>1. \A i \in DOMAIN records : records[i] \in Record
    BY DEF TableTypes
  <2>2. UniqueUpstreams \subseteq Upstreams
    BY <2>1, RecordFields DEF UniqueUpstreams
  <2> QED BY <1>1, <2>2, Zenon DEF Filter, FilterType
<1>2. CASE ~\E u \in Upstreams \cup {""} : Filter(u)
  <2>1. UNCHANGED upstreamFilter
    BY <1>2, Zenon
       DEF ViewsNext, Outside, OnTraffic, OnOverview, OnGraph, viewVars, trafficVars, TrafficNext,
           OpenTraffic, ListServed, ListCame, ListFailed, TakeSnapshot, TakeRecord, Pause, Clear
  <2> QED BY <2>1, Zenon DEF FilterType
<1> QED BY <1>1, <1>2, Zenon

\* What the other pages, the server and the network do to the table of this one.
LEMMA OtherSteps ==
  ASSUME [ViewsNext]_viewVars, ~TrafficNext
  PROVE  /\ UNCHANGED <<records, paused, touched>>
         /\ \/ \E k \in Kinds : NewRecord(k)
            \/ opened' # "traffic" \/ stream'.at # "open"
            \/ UNCHANGED <<log, dropped, opened, stream>>
<1>1. UNCHANGED trafficVars
  BY DEF ViewsNext, Outside, OnTraffic, OnOverview, OnGraph, viewVars
<1>2. UNCHANGED <<records, paused, touched>>
  BY <1>1, Zenon DEF trafficVars
<1>3. CASE Outside
  <2>1. \/ \E k \in Kinds : NewRecord(k)
        \/ \E u \in Upstreams : ChangeTopology(u)
        \/ Subscribe \/ SendSnapshot \/ StreamEnds
    BY <1>3 DEF Outside
  <2>2. CASE \E u \in Upstreams : ChangeTopology(u)
    <3>1. UNCHANGED <<log, dropped, opened, stream>>
      BY <2>2 DEF ChangeTopology, fetched
    <3> QED BY <1>2, <3>1
  <2>3. CASE Subscribe
    <3>1. stream'.at # "open"
      BY <2>3 DEF Subscribe
    <3> QED BY <1>2, <3>1
  <2>4. CASE SendSnapshot
    <3>1. stream'.at # "open"
      BY <2>4 DEF SendSnapshot
    <3> QED BY <1>2, <3>1
  <2>5. CASE StreamEnds
    <3>1. stream'.at # "open"
      BY <2>5 DEF StreamEnds, NoStream
    <3> QED BY <1>2, <3>1
  <2> QED BY <1>2, <2>1, <2>2, <2>3, <2>4, <2>5
<1>4. CASE OverviewNext
  BY <1>2, <1>4
     DEF OverviewNext, OpenOverview, ChartSnapshot, ChartRecord, OverviewPoll, ShowCounters, Clock,
         Refresh, PollServed, PollFailed, PollCame, Mount, SnapshotCame, RecordCame,
         liveVars, server, fetched
<1>5. CASE GraphNext
  BY <1>2, <1>5
     DEF GraphNext, OpenGraph, GraphSnapshot, AcceptRecord, flushPending, PulseEnds, Decay,
         HideOrReturn, GraphPoll, ShowRoutes, Refresh, PollServed, PollFailed, PollCame,
         Mount, SnapshotCame, RecordCame, liveVars, server, fetched
<1>6. CASE UNCHANGED viewVars
  BY <1>2, <1>6 DEF viewVars, liveVars, server, fetched
<1> QED BY <1>3, <1>4, <1>5, <1>6 DEF ViewsNext, OnTraffic, OnOverview, OnGraph

\* A record that is made while the page follows the stream.
LEMMA RowsAreCompleteWithRecord ==
  ASSUME StreamTypes, TableTypes, RowsAreComplete, NEW k \in Kinds, NewRecord(k),
         UNCHANGED <<records, paused, touched>>
  PROVE  RowsAreComplete'
<1>1. /\ stream'.at = stream.at /\ stream'.lossy = stream.lossy /\ opened' = opened
      /\ Len(log') = Len(log) + 1 /\ NextRecord(k) \in Record /\ NextRecord(k).n = Len(log) + 1
      /\ \/ stream'.queue = Append(stream.queue, NextRecord(k))
         \/ stream'.queue = stream.queue
  BY NewRecordFacts DEF NextRecord, NewRecord
<1>2. SUFFICES ASSUME opened = "traffic", stream.at = "open", ~touched
               PROVE  /\ ~paused
                      /\ \E l \in 0..TableMax :
                           TopRows(l)' /\ Cardinality(Lost(l)') <= dropped' - stream.lossy
  BY <1>1 DEF RowsAreComplete
<1>3. PICK l \in 0..TableMax : TopRows(l) /\ Cardinality(Lost(l)) <= dropped - stream.lossy
  BY <1>2 DEF RowsAreComplete
<1>4. ~paused
  BY <1>2 DEF RowsAreComplete
<1>5. /\ dropped \in Nat /\ stream.lossy \in Nat /\ Len(log) \in Nat
      /\ stream.queue \in Seq(Record) /\ Len(stream.queue) \in Nat
      /\ records \in Seq(Record) /\ Len(records) \in Nat
      /\ TableMax \in Nat
  BY TableNumbers DEF StreamTypes, Streams, TableTypes
<1>6. TopRows(l)'
  <2>1. \A i \in 1..l : i \in 1..Len(records)
    BY <1>3, <1>5 DEF TopRows
  <2>2. \A i \in 1..l : records[i].n \in Nat
    BY <1>5, <2>1, ElementOfSeq, RecordFields
  <2>3. \A i \in 1..l : records[i].n <= Len(log')
    BY <1>1, <1>3, <1>5, <2>2 DEF TopRows
  <2>4. ASSUME NEW i \in 1..l, NEW j \in 1..Len(stream'.queue)
        PROVE  records[i].n < stream'.queue[j].n
    <3>1. CASE stream'.queue = stream.queue
      BY <1>3, <2>4, <3>1 DEF TopRows
    <3>2. CASE stream'.queue = Append(stream.queue, NextRecord(k))
      <4>1. /\ Len(stream'.queue) = Len(stream.queue) + 1
            /\ \A m \in 1..Len(stream.queue) : stream'.queue[m] = stream.queue[m]
            /\ stream'.queue[Len(stream.queue) + 1] = NextRecord(k)
        BY <1>1, <1>5, <3>2, AppendProperties
      <4>2. CASE j \in 1..Len(stream.queue)
        BY <1>3, <2>4, <4>1, <4>2 DEF TopRows
      <4>3. CASE j = Len(stream.queue) + 1
        <5>1. records[i].n <= Len(log)
          BY <1>3 DEF TopRows
        <5>2. stream'.queue[j].n = Len(log) + 1
          BY <1>1, <4>1, <4>3
        <5>3. records[i].n \in Nat /\ Len(log) \in Nat
          BY <1>5, <2>2
        <5> QED BY <5>1, <5>2, <5>3
      <4> QED BY <1>5, <4>1, <4>2, <4>3
    <3> QED BY <1>1, <3>1, <3>2
  <2> QED BY <1>3, <2>3, <2>4 DEF TopRows
<1>7. \A n : n \in Lost(l)' => n \in Unqueued' /\ (n \in Unqueued => n \in Lost(l))
  BY DEF Lost, PushedOff
<1>8. CASE Unqueued' \subseteq Unqueued /\ dropped' = dropped
  <2>1. Lost(l)' \subseteq Lost(l)
    BY <1>7, <1>8
  <2>2. Cardinality(Lost(l)') \in Nat /\ Cardinality(Lost(l)') <= Cardinality(Lost(l))
    BY <2>1, LostIsFinite, OneMore
  <2>3. Cardinality(Lost(l)) \in Nat
    BY LostIsFinite
  <2>4. Cardinality(Lost(l)') <= dropped' - stream.lossy
    BY <1>3, <1>5, <1>8, <2>2, <2>3
  <2> QED BY <1>4, <1>6, <2>4
<1>9. CASE Unqueued' \subseteq Unqueued \cup {Len(log) + 1} /\ dropped' = dropped + 1
  <2>1. Lost(l)' \subseteq Lost(l) \cup {Len(log) + 1}
    BY <1>7, <1>9
  <2>2. Cardinality(Lost(l)') \in Nat /\ Cardinality(Lost(l)') <= Cardinality(Lost(l)) + 1
    BY <2>1, LostIsFinite, OneMore
  <2>3. Cardinality(Lost(l)) \in Nat
    BY LostIsFinite
  <2>4. Cardinality(Lost(l)') <= dropped' - stream.lossy
    BY <1>3, <1>5, <1>9, <2>2, <2>3
  <2> QED BY <1>4, <1>6, <2>4
<1> QED BY <1>2, <1>8, <1>9, QueuedOrDropped DEF Subscribed

LEMMA RowsAreCompleteKept ==
  ASSUME StreamTypes, QueueInOrder, QueueIsComplete, TableTypes, RowsAreComplete,
         [ViewsNext]_viewVars
  PROVE  RowsAreComplete'
<1>1. ASSUME UNCHANGED <<log, dropped, opened, stream>>, UNCHANGED <<records, paused, touched>>
      PROVE  RowsAreComplete'
  BY <1>1 DEF RowsAreComplete, TopRows, Lost, Unqueued, PushedOff
<1>2. CASE ~TrafficNext
  <2>1. ASSUME NEW k \in Kinds, NewRecord(k)
        PROVE  RowsAreComplete'
    BY <1>2, <2>1, OtherSteps, RowsAreCompleteWithRecord
  <2>2. CASE opened' # "traffic" \/ stream'.at # "open"
    BY <2>2 DEF RowsAreComplete
  <2> QED BY <1>1, <1>2, <2>1, <2>2, OtherSteps
<1>3. CASE TrafficNext
  <2>1. CASE OpenTraffic
    BY <2>1 DEF OpenTraffic, Mount, Connecting, NoStream, RowsAreComplete
  <2>2. CASE ListServed \/ ListFailed
    <3>1. UNCHANGED <<log, dropped, opened, stream>> /\ UNCHANGED <<records, paused, touched>>
      BY <2>2 DEF ListServed, ListFailed, liveVars, server, fetched
    <3> QED BY <1>1, <3>1
  <2>3. CASE ListCame
    <3>1. touched' = (touched \/ stream.at = "open") /\ stream' = stream
      BY <2>3 DEF ListCame, liveVars, fetched
    <3> QED BY <3>1 DEF RowsAreComplete
  <2>4. CASE TakeSnapshot
    <3>1. /\ touched' = paused /\ paused' = paused /\ SnapshotCame
          /\ log' = log /\ dropped' = dropped
          /\ ~paused => records' = stream.snapshot
      BY <2>4 DEF TakeSnapshot, SnapshotCame, server
    <3>2. /\ stream.at = "snapshot" /\ stream'.queue = stream.queue
          /\ stream'.since = stream.since /\ stream'.lossy = stream.lossy
      BY <3>1 DEF SnapshotCame, StreamTypes, Streams
    <3>3. Unqueued' = Unqueued /\ Cardinality(Unqueued) <= dropped - stream.lossy
      BY <3>1, <3>2 DEF Unqueued, QueueIsComplete
    <3>4. Lost(0)' \subseteq Unqueued
      BY <3>3 DEF Lost
    <3>5. Cardinality(Lost(0)') \in Nat /\ Cardinality(Lost(0)') <= Cardinality(Unqueued)
      BY <3>4, UnqueuedIsFinite, OneMore
    <3>6. Cardinality(Lost(0)') <= dropped' - stream'.lossy
      <4>1. Cardinality(Unqueued) \in Nat /\ dropped \in Nat /\ stream.lossy \in Nat
        BY UnqueuedIsFinite DEF StreamTypes, Streams
      <4> QED BY <3>1, <3>2, <3>3, <3>5, <4>1
    <3>7. ~paused => TopRows(0)'
      <4>1. ~paused => Len(records') \in Nat
        BY <3>1 DEF StreamTypes, Streams
      <4> QED BY <4>1, TableNumbers DEF TopRows
    <3>8. 0 \in 0..TableMax
      BY TableNumbers
    <3> QED BY <3>1, <3>6, <3>7, <3>8 DEF RowsAreComplete
  <2>5. CASE TakeRecord
    <3>1. /\ opened = "traffic" /\ paused' = paused /\ touched' = touched
          /\ \E r \in Record : RecordCame(r) /\ records' = IF paused THEN records ELSE OnTop(r)
      BY <2>5 DEF TakeRecord
    <3>2. PICK r \in Record : RecordCame(r) /\ records' = IF paused THEN records ELSE OnTop(r)
      BY <3>1
    <3>3. /\ stream.at = "open" /\ stream'.lossy = stream.lossy /\ dropped' = dropped
      BY <3>2, RecordCameFacts
    <3>4. SUFFICES ASSUME ~touched
                   PROVE  ~paused /\ \E l \in 0..TableMax :
                            TopRows(l)' /\ Cardinality(Lost(l)') <= dropped - stream.lossy
      BY <3>1, <3>3 DEF RowsAreComplete
    <3>5. PICK k \in 0..TableMax : TopRows(k) /\ Cardinality(Lost(k)) <= dropped - stream.lossy
      BY <3>1, <3>3, <3>4 DEF RowsAreComplete
    <3>6. ~paused
      BY <3>1, <3>3, <3>4 DEF RowsAreComplete
    <3>7. records' = OnTop(r)
      BY <3>2, <3>6
    <3>8. PICK l \in 0..TableMax : TopRows(l)' /\ Lost(l)' \subseteq Lost(k)
      BY <3>2, <3>5, <3>7, TopRowsKept
    <3>9. Cardinality(Lost(l)') <= dropped - stream.lossy
      <4>1. Cardinality(Lost(k)) \in Nat /\ dropped \in Nat /\ stream.lossy \in Nat
        BY LostIsFinite DEF StreamTypes, Streams
      <4>2. Cardinality(Lost(l)') \in Nat /\ Cardinality(Lost(l)') <= Cardinality(Lost(k))
        BY <3>8, LostIsFinite, OneMore
      <4> QED BY <3>5, <4>1, <4>2
    <3> QED BY <3>6, <3>8, <3>9
  <2>6. CASE Pause \/ Clear
    BY <2>6 DEF Pause, Clear, RowsAreComplete
  <2>7. CASE \E u \in Upstreams \cup {""} : Filter(u)
    <3>1. UNCHANGED <<log, dropped, opened, stream>> /\ UNCHANGED <<records, paused, touched>>
      BY <2>7, Zenon DEF Filter, liveVars, server, fetched
    <3> QED BY <1>1, <3>1
  <2> QED BY <1>3, <2>1, <2>2, <2>3, <2>4, <2>5, <2>6, <2>7, Zenon DEF TrafficNext
<1> QED BY <1>2, <1>3

\* What is missing on the page is lost, in the sense of the invariant.
LEMMA CompleteTable ==
  ASSUME StreamTypes, TableTypes, TableInv
  PROVE  TableIsComplete
<1> DEFINE there == Numbers(stream.snapshot) \cup Numbers(stream.queue) \cup
                      (IF stream.at = "open" THEN Numbers(records) ELSE {})
           owed == {n \in stream.since + 1..Len(log) :
                      Len(records) < TableMax
                        \/ \E m \in Numbers(records) : m < n}
<1>0. /\ dropped \in Nat /\ stream.lossy \in Nat /\ stream.since \in Nat /\ Len(log) \in Nat
      /\ records \in Seq(Record) /\ Len(records) \in Nat /\ TableMax \in Nat
      /\ DOMAIN records = 1..Len(records)
      /\ DOMAIN stream.queue = 1..Len(stream.queue)
  BY TableNumbers DEF StreamTypes, Streams, TableTypes
<1>1. SUFFICES ASSUME opened = "traffic", stream.at \in {"snapshot", "open"}, ~touched
               PROVE  Cardinality(owed \ there) <= dropped - stream.lossy
  BY DEF TableIsComplete
<1>2. owed \ there \subseteq Unqueued
  <2>1. ASSUME NEW n \in owed \ there
        PROVE  n \in Unqueued
    <3>1. n \notin Numbers(stream.queue)
      BY <2>1
    <3>2. \A i \in 1..Len(stream.queue) : stream.queue[i].n # n
      BY <1>0, <3>1 DEF Numbers
    <3> QED BY <2>1, <3>2 DEF Unqueued
  <2> QED BY <2>1
<1>3. CASE stream.at = "snapshot"
  <2>1. Cardinality(Unqueued) <= dropped - stream.lossy
    BY <1>3 DEF TableInv, QueueIsComplete
  <2> HIDE DEF owed, there
  <2>2. /\ Cardinality(owed \ there) \in Nat /\ Cardinality(Unqueued) \in Nat
        /\ Cardinality(owed \ there) <= Cardinality(Unqueued)
    BY <1>2, UnqueuedIsFinite, OneMore
  <2> QED BY <1>0, <2>1, <2>2
<1>4. CASE stream.at = "open"
  <2>1. PICK k \in 0..TableMax : TopRows(k) /\ Cardinality(Lost(k)) <= dropped - stream.lossy
    BY <1>1, <1>4 DEF TableInv, RowsAreComplete
  <2>2. ASSUME NEW n \in owed \ there
        PROVE  n \in Lost(k)
    <3>1. n \in Unqueued /\ n \notin Numbers(records) /\ n \in Int
      BY <1>0, <1>2, <1>4, <2>2
    <3>2. \A i \in 1..Len(records) : records[i].n # n
      BY <1>0, <3>1 DEF Numbers
    <3>3. \A i \in 1..k : i \in 1..Len(records)
      BY <1>0, <2>1 DEF TopRows
    <3>4. ASSUME PushedOff(k, n)
          PROVE  FALSE
      <4>1. k = Len(records) /\ Len(records) = TableMax /\ \A i \in 1..k : records[i].n > n
        BY <3>4 DEF PushedOff
      <4>2. PICK m \in Numbers(records) : m < n
        BY <1>0, <2>2, <4>1
      <4>3. PICK i \in 1..Len(records) : m = records[i].n
        BY <1>0, <4>2 DEF Numbers
      <4>4. records[i].n \in Nat
        BY <1>0, ElementOfSeq, RecordFields
      <4> QED BY <3>1, <4>1, <4>2, <4>3, <4>4
    <3> QED BY <3>1, <3>2, <3>3, <3>4 DEF Lost
  <2>3. owed \ there \subseteq Lost(k)
    BY <2>2
  <2> HIDE DEF owed, there
  <2>4. /\ Cardinality(owed \ there) \in Nat /\ Cardinality(Lost(k)) \in Nat
        /\ Cardinality(owed \ there) <= Cardinality(Lost(k))
    BY <2>3, LostIsFinite, OneMore
  <2> QED BY <1>0, <2>1, <2>4
<1> QED BY <1>1, <1>3, <1>4

(***************************************************************************)
(* The chart.                                                              *)
(***************************************************************************)
Bucket == [t : Int, ok : Nat, err : Nat]

LEMMA OneMoreArrival ==
  ASSUME NEW A, IsFiniteSet(A), NEW a, a \notin A, NEW B \in SUBSET A
  PROVE  Cardinality(B) \in Nat /\ Cardinality(B \cup {a}) = Cardinality(B) + 1
<1>1. IsFiniteSet(B) /\ a \notin B
  BY FS_Subset
<1> QED BY <1>1, FS_AddElement, FS_CardinalityType

LEMMA HistogramParts == ChartIsHistogram <=> Counts /\ Covers
BY Zenon DEF ChartIsHistogram, Counts, Covers, ArrivedIn

LEMMA ChartNumbers ==
  /\ Buckets \in Nat /\ Buckets >= 1 /\ Width \in Nat /\ Width >= 1 /\ MaxTime \in Nat
  /\ 1 \in 1..Buckets /\ Buckets \in 1..Buckets
<1>1. Buckets \in Nat \ {0} /\ Width \in Nat \ {0} /\ MaxTime \in Nat
  BY OverviewConstants
<1> QED BY <1>1

LEMMA OtherCharts ==
  ASSUME [ViewsNext]_viewVars, ~ChartRecord, ~Clock
  PROVE  UNCHANGED <<now, buckets, arrivals>>
<1>1. CASE OverviewNext
  BY <1>1, Zenon
     DEF OverviewNext, OpenOverview, ChartSnapshot, OverviewPoll, ShowCounters, overviewVars
<1>2. CASE ~OverviewNext
  BY <1>2, Zenon
     DEF ViewsNext, Outside, OnTraffic, OnOverview, OnGraph, viewVars, overviewVars
<1> QED BY <1>1, <1>2

\* What a record does to the buckets: the last one counts it, or a new last one
\* does, and the others move up.
LEMMA CountOrShiftFacts ==
  ASSUME ChartTypes, NEW r \in Record
  PROVE  LET b == CountOrShift(r)
             counted(c) == IF r.status = "ok" THEN [t |-> c.t, ok |-> c.ok + 1, err |-> c.err]
                           ELSE [t |-> c.t, ok |-> c.ok, err |-> c.err + 1]
         IN  /\ b \in [1..Buckets -> Bucket]
             /\ now - Last.t < Width =>
                  /\ \A i \in 1..Buckets : i # Buckets => b[i] = buckets[i]
                  /\ b[Buckets] = counted(Last)
             /\ ~(now - Last.t < Width) =>
                  /\ \A i \in 1..Buckets : i # Buckets => b[i] = buckets[i + 1]
                  /\ b[Buckets] = counted([t |-> now, ok |-> 0, err |-> 0])
<1> DEFINE counted(c) == IF r.status = "ok" THEN [t |-> c.t, ok |-> c.ok + 1, err |-> c.err]
                         ELSE [t |-> c.t, ok |-> c.ok, err |-> c.err + 1]
<1>0. /\ buckets \in [1..Buckets -> Bucket] /\ now \in Int /\ Last \in Bucket
      /\ Buckets \in Nat /\ Buckets >= 1 /\ Buckets \in 1..Buckets
  BY ChartNumbers DEF ChartTypes, Bucket, Last
<1>1. \A c \in Bucket : Counted(c, r) = counted(c) /\ counted(c) \in Bucket
  BY DEF Counted, Bucket
<1>2. [t |-> now, ok |-> 0, err |-> 0] \in Bucket
  BY <1>0 DEF Bucket
<1> HIDE DEF counted
<1>3. CASE now - Last.t < Width
  <2>1. CountOrShift(r) = [buckets EXCEPT ![Buckets] = Counted(buckets[Buckets], r)]
    BY <1>3 DEF CountOrShift
  <2>2. Counted(buckets[Buckets], r) = counted(Last) /\ counted(Last) \in Bucket
    BY <1>0, <1>1 DEF Last
  <2>3. CountOrShift(r) = [buckets EXCEPT ![Buckets] = counted(Last)]
    BY <2>1, <2>2
  <2>4. CountOrShift(r) \in [1..Buckets -> Bucket]
    BY <1>0, <2>2, <2>3
  <2>5. \A i \in 1..Buckets : i # Buckets => CountOrShift(r)[i] = buckets[i]
    BY <1>0, <2>3
  <2>6. CountOrShift(r)[Buckets] = counted(Last)
    BY <1>0, <2>3
  <2> QED BY <1>3, <2>4, <2>5, <2>6 DEF counted
<1>4. CASE ~(now - Last.t < Width)
  <2> DEFINE fresh == counted([t |-> now, ok |-> 0, err |-> 0])
  <2>1. CountOrShift(r) = Append(Tail(buckets), fresh) /\ fresh \in Bucket
    BY <1>1, <1>2, <1>4 DEF CountOrShift
  <2> HIDE DEF fresh
  <2>2. buckets \in Seq(Bucket) /\ Len(buckets) = Buckets /\ buckets # <<>>
    <3>1. buckets \in Seq(Bucket) /\ Len(buckets) = Buckets
      BY <1>0
    <3> QED BY <1>0, <3>1, EmptySeq
  <2>3. /\ Tail(buckets) \in Seq(Bucket) /\ Len(Tail(buckets)) = Buckets - 1
        /\ \A i \in 1..Buckets - 1 : Tail(buckets)[i] = buckets[i + 1]
    BY <2>2, HeadTailProperties
  <2>4. /\ Append(Tail(buckets), fresh) \in Seq(Bucket)
        /\ Len(Append(Tail(buckets), fresh)) = Buckets - 1 + 1
        /\ \A i \in 1..Buckets - 1 : Append(Tail(buckets), fresh)[i] = Tail(buckets)[i]
        /\ Append(Tail(buckets), fresh)[Buckets - 1 + 1] = fresh
    BY <2>1, <2>3, AppendProperties
  <2>5. /\ Buckets - 1 + 1 = Buckets
        /\ \A i \in 1..Buckets : i # Buckets => i \in 1..Buckets - 1
    BY <1>0
  <2>6. CountOrShift(r) \in [1..Buckets -> Bucket]
    BY <2>1, <2>4, <2>5, LenProperties
  <2>7. \A i \in 1..Buckets : i # Buckets => CountOrShift(r)[i] = buckets[i + 1]
    BY <2>1, <2>3, <2>4, <2>5
  <2>8. CountOrShift(r)[Buckets] = fresh
    BY <2>1, <2>4, <2>5
  <2> QED BY <1>4, <2>6, <2>7, <2>8 DEF counted, fresh
<1> QED BY <1>3, <1>4

\* What ChartRecord does: an arrival that was not there, at the time of now.
Arrival(r) == [n |-> r.n, at |-> now, ok |-> r.status = "ok"]

LEMMA ChartRecordFacts ==
  ASSUME StreamTypes, QueueInOrder, ChartTypes, ArrivedBefore, ChartRecord
  PROVE  \E r \in Record :
           /\ RecordCame(r) /\ buckets' = CountOrShift(r) /\ now' = now
           /\ arrivals' = arrivals \cup {Arrival(r)} /\ Arrival(r) \notin arrivals
           /\ Arrival(r) \in [n : Nat, at : Nat, ok : BOOLEAN]
           /\ r.n <= Len(log) /\ \A i \in 1..Len(stream'.queue) : r.n < stream'.queue[i].n
<1>1. PICK r \in Record : /\ RecordCame(r) /\ buckets' = CountOrShift(r)
                          /\ arrivals' = arrivals \cup {Arrival(r)}
  BY DEF ChartRecord, Arrival
<1>2. now' = now
  BY DEF ChartRecord
<1>3. /\ Len(stream.queue) \in Nat \ {0} /\ r = stream.queue[1]
      /\ Len(stream'.queue) = Len(stream.queue) - 1
      /\ \A i \in 1..Len(stream'.queue) : stream'.queue[i] = stream.queue[i + 1]
  BY <1>1, RecordCameFacts
<1>4. 1 \in 1..Len(stream.queue)
  BY <1>3
<1>5. r.n <= Len(log)
  BY <1>3, <1>4 DEF QueueInOrder
<1>6. ASSUME NEW i \in 1..Len(stream'.queue)
      PROVE  r.n < stream'.queue[i].n
  <2>1. i + 1 \in 1..Len(stream.queue) /\ 1 < i + 1
    BY <1>3
  <2> QED BY <1>3, <1>4, <2>1 DEF QueueInOrder
<1>7. r.n \in Nat /\ now \in Nat
  BY RecordFields, ChartNumbers DEF ChartTypes
<1>8. Arrival(r) \in [n : Nat, at : Nat, ok : BOOLEAN]
  <2>1. (r.status = "ok") \in BOOLEAN
    OBVIOUS
  <2> QED BY <1>7, <2>1 DEF Arrival
<1>9. Arrival(r) \notin arrivals
  <2>1. \A a \in arrivals : a.n < r.n /\ a.n \in Nat
    BY <1>3, <1>4 DEF ArrivedBefore, ChartTypes
  <2>2. Arrival(r).n = r.n
    BY DEF Arrival
  <2> QED BY <1>7, <2>1, <2>2
<1> QED BY <1>1, <1>2, <1>5, <1>6, <1>8, <1>9

LEMMA ChartTypesKept ==
  ASSUME StreamTypes, QueueInOrder, ChartTypes, ArrivedBefore, [ViewsNext]_viewVars
  PROVE  ChartTypes'
<1>1. CASE ChartRecord
  <2>1. PICK r \in Record :
          /\ buckets' = CountOrShift(r) /\ now' = now
          /\ arrivals' = arrivals \cup {Arrival(r)}
          /\ Arrival(r) \in [n : Nat, at : Nat, ok : BOOLEAN]
    BY <1>1, ChartRecordFacts
  <2>2. buckets' \in [1..Buckets -> Bucket]
    BY <2>1, CountOrShiftFacts
  <2>3. IsFiniteSet(arrivals') /\ arrivals' \subseteq [n : Nat, at : Nat, ok : BOOLEAN]
    BY <2>1, FS_AddElement DEF ChartTypes
  <2> QED BY <2>1, <2>2, <2>3 DEF ChartTypes, Bucket
<1>2. CASE Clock
  BY <1>2, ChartNumbers DEF Clock, ChartTypes
<1>3. CASE ~ChartRecord /\ ~Clock
  BY <1>3, OtherCharts DEF ChartTypes
<1> QED BY <1>1, <1>2, <1>3

LEMMA ArrivedBeforeKept ==
  ASSUME StreamTypes, QueueInOrder, ChartTypes, ArrivedBefore, [ViewsNext]_viewVars
  PROVE  ArrivedBefore'
<1>0. Len(log) \in Nat /\ stream.queue \in Seq(Record) /\ Len(stream.queue) \in Nat /\ now \in Nat
  BY ChartNumbers DEF StreamTypes, Streams, ChartTypes
<1>a. \A a \in arrivals : a.n \in Nat /\ a.at \in Nat
  BY DEF ChartTypes
<1>1. CASE ChartRecord
  <2>1. PICK r \in Record :
          /\ RecordCame(r) /\ now' = now /\ arrivals' = arrivals \cup {Arrival(r)}
          /\ r.n <= Len(log) /\ \A i \in 1..Len(stream'.queue) : r.n < stream'.queue[i].n
    BY <1>1, ChartRecordFacts
  <2>2. /\ log' = log /\ Len(stream'.queue) = Len(stream.queue) - 1
        /\ \A i \in 1..Len(stream'.queue) : stream'.queue[i] = stream.queue[i + 1]
    BY <2>1, RecordCameFacts
  <2>3. \A i \in 1..Len(stream'.queue) : i + 1 \in 1..Len(stream.queue)
    BY <1>0, <2>2
  <2>4. ASSUME NEW a \in arrivals
        PROVE  /\ a.at <= now' /\ a.n <= Len(log')
               /\ \A i \in 1..Len(stream'.queue) : a.n < stream'.queue[i].n
    BY <2>1, <2>2, <2>3 DEF ArrivedBefore
  <2>5. /\ Arrival(r).at <= now' /\ Arrival(r).n <= Len(log')
        /\ \A i \in 1..Len(stream'.queue) : Arrival(r).n < stream'.queue[i].n
    BY <1>0, <2>1, <2>2 DEF Arrival
  <2> QED BY <2>1, <2>4, <2>5 DEF ArrivedBefore
<1>2. CASE Clock
  <2>1. now' = now + 1 /\ UNCHANGED <<log, stream, arrivals>>
    BY <1>2 DEF Clock, liveVars, server, fetched
  <2>2. \A a \in arrivals : a.at <= now'
    BY <1>0, <1>a, <2>1 DEF ArrivedBefore
  <2> QED BY <2>1, <2>2 DEF ArrivedBefore
<1>3. CASE ~ChartRecord /\ ~Clock
  <2>1. UNCHANGED <<now, arrivals>>
    BY <1>3, OtherCharts
  <2>2. SUFFICES ASSUME NEW a \in arrivals
                 PROVE  /\ a.n <= Len(log')
                        /\ \A i \in 1..Len(stream'.queue) : a.n < stream'.queue[i].n
    BY <2>1 DEF ArrivedBefore
  <2>3. /\ a.n <= Len(log) /\ a.n \in Nat
        /\ \A i \in 1..Len(stream.queue) : a.n < stream.queue[i].n
    BY <1>a DEF ArrivedBefore
  <2>4. ASSUME NEW k \in Kinds, NewRecord(k)
        PROVE  /\ a.n <= Len(log')
               /\ \A i \in 1..Len(stream'.queue) : a.n < stream'.queue[i].n
    <3>1. /\ Len(log') = Len(log) + 1 /\ NextRecord(k) \in Record /\ NextRecord(k).n = Len(log) + 1
          /\ \/ stream'.queue = Append(stream.queue, NextRecord(k))
             \/ stream'.queue = stream.queue
      BY <2>4, NewRecordFacts DEF NextRecord
    <3>2. a.n <= Len(log') /\ a.n < Len(log) + 1
      BY <1>0, <2>3, <3>1
    <3>3. CASE stream'.queue = stream.queue
      BY <2>3, <3>2, <3>3
    <3>4. CASE stream'.queue = Append(stream.queue, NextRecord(k))
      <4>1. /\ Len(stream'.queue) = Len(stream.queue) + 1
            /\ \A m \in 1..Len(stream.queue) : stream'.queue[m] = stream.queue[m]
            /\ stream'.queue[Len(stream.queue) + 1] = NextRecord(k)
        BY <1>0, <3>1, <3>4, AppendProperties
      <4>2. \A i \in 1..Len(stream'.queue) : i \in 1..Len(stream.queue) \/ i = Len(stream.queue) + 1
        BY <1>0, <4>1
      <4>3. \A i \in 1..Len(stream.queue) : a.n < stream'.queue[i].n
        BY <2>3, <4>1
      <4>4. a.n < stream'.queue[Len(stream.queue) + 1].n
        BY <3>1, <3>2, <4>1
      <4>5. \A i \in 1..Len(stream'.queue) : a.n < stream'.queue[i].n
        BY <4>2, <4>3, <4>4
      <4> QED BY <3>2, <4>5
    <3> QED BY <3>1, <3>3, <3>4
  <2>5. CASE Subscribe \/ SendSnapshot \/ SnapshotCame
    <3>1. stream'.queue = stream.queue /\ log' = log
      BY <2>5 DEF Subscribe, SendSnapshot, SnapshotCame, server, StreamTypes, Streams
    <3> QED BY <2>3, <3>1
  <2>6. CASE StreamEnds \/ \E p \in LivePages : Mount(p)
    <3>1. Len(stream'.queue) = 0 /\ log' = log
      BY <2>6, EmptySeq DEF StreamEnds, Mount, Connecting, NoStream, server
    <3> QED BY <2>3, <3>1
  <2>7. ASSUME NEW r \in Record, RecordCame(r)
        PROVE  /\ a.n <= Len(log')
               /\ \A i \in 1..Len(stream'.queue) : a.n < stream'.queue[i].n
    <3>1. /\ log' = log /\ Len(stream'.queue) = Len(stream.queue) - 1
          /\ \A i \in 1..Len(stream'.queue) : stream'.queue[i] = stream.queue[i + 1]
      BY <2>7, RecordCameFacts
    <3>2. \A i \in 1..Len(stream'.queue) : i + 1 \in 1..Len(stream.queue)
      BY <1>0, <3>1
    <3> QED BY <2>3, <3>1, <3>2
  <2>8. CASE UNCHANGED <<log, dropped, opened, stream>>
    BY <2>3, <2>8
  <2> QED BY <2>4, <2>5, <2>6, <2>7, <2>8, StreamSteps DEF StreamStep
<1> QED BY <1>1, <1>2, <1>3

LEMMA SpacedKept ==
  ASSUME StreamTypes, QueueInOrder, ChartTypes, ArrivedBefore, Spaced, [ViewsNext]_viewVars
  PROVE  Spaced'
<1>0. /\ Buckets \in Nat /\ Buckets >= 1 /\ Width \in Nat /\ Buckets \in 1..Buckets /\ now \in Nat
      /\ \A i \in 1..Buckets : buckets[i].t \in Int
      /\ Last.t \in Int
  BY ChartNumbers DEF ChartTypes, Last
<1>1. CASE ChartRecord
  <2>1. PICK r \in Record : buckets' = CountOrShift(r) /\ now' = now
    BY <1>1, ChartRecordFacts
  <2>2. CASE now - Last.t < Width
    <3>1. \A i \in 1..Buckets : buckets'[i].t = buckets[i].t
      BY <2>1, <2>2, CountOrShiftFacts DEF Last
    <3> QED BY <1>0, <2>1, <3>1 DEF Spaced, Last
  <2>3. CASE ~(now - Last.t < Width)
    <3>1. /\ \A i \in 1..Buckets : i # Buckets => buckets'[i] = buckets[i + 1]
          /\ buckets'[Buckets].t = now
      BY <2>1, <2>3, CountOrShiftFacts
    <3>2. ASSUME NEW i \in 1..Buckets, NEW j \in 1..Buckets, i < j
          PROVE  buckets'[i].t + Width <= buckets'[j].t
      <4>1. i # Buckets /\ i + 1 \in 1..Buckets /\ (j # Buckets => j + 1 \in 1..Buckets)
        BY <1>0, <3>2
      <4>2. CASE j # Buckets
        <5>1. i + 1 < j + 1 /\ j + 1 \in 1..Buckets
          BY <1>0, <3>2, <4>1, <4>2
        <5>2. buckets[i + 1].t + Width <= buckets[j + 1].t
          BY <4>1, <5>1 DEF Spaced
        <5> QED BY <3>1, <4>1, <4>2, <5>2
      <4>3. CASE j = Buckets
        <5>1. buckets[i + 1].t <= Last.t
          <6>1. CASE i + 1 = Buckets
            BY <1>0, <6>1 DEF Last
          <6>2. CASE i + 1 # Buckets
            <7>1. i + 1 < Buckets
              BY <1>0, <4>1, <6>2
            <7>2. buckets[i + 1].t + Width <= Last.t
              BY <1>0, <4>1, <7>1 DEF Spaced, Last
            <7>3. buckets[i + 1].t \in Int
              BY <1>0, <4>1
            <7> QED BY <1>0, <7>2, <7>3
          <6> QED BY <6>1, <6>2
        <5>2. buckets[i + 1].t \in Int
          BY <1>0, <4>1
        <5>3. buckets[i + 1].t + Width <= now
          BY <1>0, <2>3, <5>1, <5>2
        <5> QED BY <3>1, <4>1, <4>3, <5>3
      <4> QED BY <4>2, <4>3
    <3>3. Last'.t <= now'
      BY <1>0, <2>1, <3>1 DEF Last
    <3> QED BY <3>2, <3>3 DEF Spaced
  <2> QED BY <2>2, <2>3
<1>2. CASE Clock
  <2>1. now' = now + 1 /\ buckets' = buckets
    BY <1>2 DEF Clock
  <2> QED BY <1>0, <2>1 DEF Spaced, Last
<1>3. CASE ~ChartRecord /\ ~Clock
  BY <1>3, OtherCharts DEF Spaced, Last
<1> QED BY <1>1, <1>2, <1>3

\* A record is counted where it arrived, and nowhere else.
LEMMA HistogramKept ==
  ASSUME StreamTypes, QueueInOrder, ChartTypes, ArrivedBefore, Spaced, Counts, Covers,
         [ViewsNext]_viewVars
  PROVE  Counts' /\ Covers'
<1>0. /\ Buckets \in Nat /\ Buckets >= 1 /\ Width \in Nat /\ Width >= 1
      /\ 1 \in 1..Buckets /\ Buckets \in 1..Buckets /\ now \in Nat
      /\ \A i \in 1..Buckets : buckets[i].t \in Int
      /\ Last.t \in Int /\ Last.t <= now
  BY ChartNumbers DEF ChartTypes, Last, Spaced
<1>1. CASE ChartRecord
  <2>1. PICK r \in Record :
          /\ buckets' = CountOrShift(r) /\ arrivals' = arrivals \cup {Arrival(r)}
          /\ Arrival(r) \notin arrivals
    BY <1>1, ChartRecordFacts
  <2> DEFINE new == Arrival(r)
             counted(c) == IF r.status = "ok" THEN [t |-> c.t, ok |-> c.ok + 1, err |-> c.err]
                           ELSE [t |-> c.t, ok |-> c.ok, err |-> c.err + 1]
             falls(t) == now \in t..t + Width - 1
  <2>2. new.at = now /\ (r.status = "ok" => new.ok = TRUE) /\ (r.status # "ok" => new.ok = FALSE)
    BY DEF Arrival
  <2>3. \A i \in 1..Buckets : i # Buckets => buckets[i].t + Width <= Last.t
    BY <1>0 DEF Spaced, Last
  <2>4. IsFiniteSet(arrivals) /\ \A a \in arrivals : a.at \in Nat /\ a.at <= now
    BY DEF ChartTypes, ArrivedBefore
  <2> HIDE DEF new
  <2>5. ASSUME NEW t, ~falls(t), NEW ok
        PROVE  ArrivedIn(arrivals', t, ok) = ArrivedIn(arrivals, t, ok)
    <3>1. IsFiniteSet(arrivals) /\ new \notin arrivals /\ new.at \notin t..t + Width - 1
      BY <2>1, <2>2, <2>4, <2>5 DEF new
    <3>2. ArrivedIn(arrivals \cup {new}, t, ok) = ArrivedIn(arrivals, t, ok)
      BY <3>1, Zenon DEF ArrivedIn
    <3> QED BY <2>1, <3>2 DEF new
  <2>6. ASSUME NEW c \in Bucket, falls(c.t), c.ok = Cardinality(ArrivedIn(arrivals, c.t, TRUE)),
               c.err = Cardinality(ArrivedIn(arrivals, c.t, FALSE))
        PROVE  /\ counted(c).t = c.t
               /\ counted(c).ok = Cardinality(ArrivedIn(arrivals', c.t, TRUE))
               /\ counted(c).err = Cardinality(ArrivedIn(arrivals', c.t, FALSE))
    <3>0. \A B \in SUBSET arrivals : Cardinality(B \cup {new}) = Cardinality(B) + 1
      <4>1. IsFiniteSet(arrivals) /\ new \notin arrivals
        BY <2>1, <2>4 DEF new
      <4> QED BY <4>1, OneMoreArrival
    <3>1. CASE r.status = "ok"
      <4>1. new.ok = TRUE /\ new.at \in c.t..c.t + Width - 1 /\ new \notin arrivals
        BY <2>1, <2>2, <2>6, <3>1 DEF new
      <4>2. Cardinality(ArrivedIn(arrivals \cup {new}, c.t, TRUE)) =
              Cardinality(ArrivedIn(arrivals, c.t, TRUE)) + 1
        <5>1. /\ ArrivedIn(arrivals \cup {new}, c.t, TRUE) = ArrivedIn(arrivals, c.t, TRUE) \cup {new}
              /\ ArrivedIn(arrivals, c.t, TRUE) \in SUBSET arrivals
          BY <4>1 DEF ArrivedIn
        <5> QED BY <3>0, <5>1, Zenon
      <4>3. ArrivedIn(arrivals \cup {new}, c.t, FALSE) = ArrivedIn(arrivals, c.t, FALSE)
        BY <4>1 DEF ArrivedIn
      <4> QED BY <2>1, <2>6, <3>1, <4>2, <4>3 DEF new
    <3>2. CASE r.status # "ok"
      <4>1. new.ok = FALSE /\ new.at \in c.t..c.t + Width - 1 /\ new \notin arrivals
        BY <2>1, <2>2, <2>6, <3>2 DEF new
      <4>2. Cardinality(ArrivedIn(arrivals \cup {new}, c.t, FALSE)) =
              Cardinality(ArrivedIn(arrivals, c.t, FALSE)) + 1
        <5>1. /\ ArrivedIn(arrivals \cup {new}, c.t, FALSE) = ArrivedIn(arrivals, c.t, FALSE) \cup {new}
              /\ ArrivedIn(arrivals, c.t, FALSE) \in SUBSET arrivals
          BY <4>1 DEF ArrivedIn
        <5> QED BY <3>0, <5>1, Zenon
      <4>3. ArrivedIn(arrivals \cup {new}, c.t, TRUE) = ArrivedIn(arrivals, c.t, TRUE)
        BY <4>1 DEF ArrivedIn
      <4> QED BY <2>1, <2>6, <3>2, <4>2, <4>3 DEF new
    <3> QED BY <3>1, <3>2
  <2>7. CASE now - Last.t < Width
    <3>1. /\ \A i \in 1..Buckets : i # Buckets => buckets'[i] = buckets[i]
          /\ buckets'[Buckets] = counted(Last)
      BY <2>1, <2>7, CountOrShiftFacts
    <3>2. falls(Last.t) /\ \A i \in 1..Buckets : i # Buckets => ~falls(buckets[i].t)
      BY <1>0, <2>3, <2>7
    <3>3. Last \in Bucket /\ Last = buckets[Buckets]
      BY <1>0 DEF ChartTypes, Last, Bucket
    <3> HIDE DEF counted, falls
    <3>4. /\ counted(Last).t = Last.t
          /\ counted(Last).ok = Cardinality(ArrivedIn(arrivals', Last.t, TRUE))
          /\ counted(Last).err = Cardinality(ArrivedIn(arrivals', Last.t, FALSE))
      <4>1. /\ Last.ok = Cardinality(ArrivedIn(arrivals, Last.t, TRUE))
            /\ Last.err = Cardinality(ArrivedIn(arrivals, Last.t, FALSE))
        BY <1>0, <3>3 DEF Counts
      <4> QED BY <2>6, <3>2, <3>3, <4>1
    <3>5. Counts'
      <4>1. ASSUME NEW i \in 1..Buckets, i # Buckets
            PROVE  /\ buckets'[i].ok = Cardinality(ArrivedIn(arrivals', buckets'[i].t, TRUE))
                   /\ buckets'[i].err = Cardinality(ArrivedIn(arrivals', buckets'[i].t, FALSE))
        <5>1. buckets'[i] = buckets[i] /\ ~falls(buckets[i].t)
          BY <3>1, <3>2, <4>1
        <5>2. /\ ArrivedIn(arrivals', buckets[i].t, TRUE) = ArrivedIn(arrivals, buckets[i].t, TRUE)
              /\ ArrivedIn(arrivals', buckets[i].t, FALSE) = ArrivedIn(arrivals, buckets[i].t, FALSE)
          BY <2>5, <5>1
        <5> QED BY <5>1, <5>2 DEF Counts
      <4>2. /\ buckets'[Buckets].ok = Cardinality(ArrivedIn(arrivals', buckets'[Buckets].t, TRUE))
            /\ buckets'[Buckets].err = Cardinality(ArrivedIn(arrivals', buckets'[Buckets].t, FALSE))
        BY <3>1, <3>4
      <4> QED BY <4>1, <4>2 DEF Counts
    <3>6. \A i \in 1..Buckets : buckets'[i].t = buckets[i].t
      BY <3>1, <3>3, <3>4
    <3>7. Covers'
      <4>1. ASSUME NEW a \in arrivals', a.at >= buckets'[1].t
            PROVE  \E i \in 1..Buckets : a.at \in buckets'[i].t..buckets'[i].t + Width - 1
        <5>1. CASE a \in arrivals
          BY <1>0, <3>6, <4>1, <5>1 DEF Covers
        <5>2. CASE a = new
          BY <1>0, <2>2, <3>2, <3>3, <3>6, <5>2 DEF falls
        <5> QED BY <2>1, <4>1, <5>1, <5>2 DEF new
      <4> QED BY <4>1 DEF Covers
    <3> QED BY <3>5, <3>7
  <2>8. CASE ~(now - Last.t < Width)
    <3> DEFINE fresh == [t |-> now, ok |-> 0, err |-> 0]
    <3>1. /\ \A i \in 1..Buckets : i # Buckets => buckets'[i] = buckets[i + 1]
          /\ buckets'[Buckets] = counted(fresh)
      BY <2>1, <2>8, CountOrShiftFacts
    <3>2. \A i \in 1..Buckets : buckets[i].t + Width <= now
      BY <1>0, <2>3, <2>8 DEF Last
    <3>3. falls(fresh.t) /\ \A i \in 1..Buckets : ~falls(buckets[i].t)
      BY <1>0, <3>2
    <3>4. \A a \in arrivals : a.at # now
      <4>1. SUFFICES ASSUME NEW a \in arrivals, a.at = now
                     PROVE  FALSE
        OBVIOUS
      <4>2. a.at >= buckets[1].t
        BY <1>0, <3>2, <4>1
      <4>3. PICK i \in 1..Buckets : a.at \in buckets[i].t..buckets[i].t + Width - 1
        BY <4>1, <4>2 DEF Covers
      <4> QED BY <3>3, <4>1, <4>3
    <3>5. \A ok : ArrivedIn(arrivals, now, ok) = {}
      BY <1>0, <2>4, <3>4 DEF ArrivedIn
    <3>6. fresh \in Bucket /\ fresh.ok = Cardinality(ArrivedIn(arrivals, fresh.t, TRUE))
                           /\ fresh.err = Cardinality(ArrivedIn(arrivals, fresh.t, FALSE))
      <4>1. fresh.t = now /\ fresh.ok = 0 /\ fresh.err = 0 /\ fresh \in Bucket
        BY <1>0 DEF Bucket
      <4>2. ArrivedIn(arrivals, now, TRUE) = {} /\ ArrivedIn(arrivals, now, FALSE) = {}
        BY <3>5, Zenon
      <4>3. Cardinality({}) = 0
        BY FS_EmptySet
      <4> HIDE DEF fresh
      <4> QED BY <4>1, <4>2, <4>3, Zenon
    <3>7. /\ counted(fresh).t = now
          /\ counted(fresh).ok = Cardinality(ArrivedIn(arrivals', now, TRUE))
          /\ counted(fresh).err = Cardinality(ArrivedIn(arrivals', now, FALSE))
      BY <2>6, <3>3, <3>6
    <3>8. \A i \in 1..Buckets : i # Buckets => i + 1 \in 1..Buckets
      BY <1>0
    <3>9. falls(now)
      BY <3>3
    <3> HIDE DEF counted, falls, fresh
    <3>10. Counts'
      <4>1. ASSUME NEW i \in 1..Buckets, i # Buckets
            PROVE  /\ buckets'[i].ok = Cardinality(ArrivedIn(arrivals', buckets'[i].t, TRUE))
                   /\ buckets'[i].err = Cardinality(ArrivedIn(arrivals', buckets'[i].t, FALSE))
        <5>1. buckets'[i] = buckets[i + 1] /\ i + 1 \in 1..Buckets
          BY <3>1, <3>8, <4>1
        <5> QED BY <2>5, <3>3, <5>1 DEF Counts
      <4> QED BY <3>1, <3>7, <4>1 DEF Counts
    <3>11. Covers'
      <4>1. ASSUME NEW a \in arrivals', a.at >= buckets'[1].t
            PROVE  \E i \in 1..Buckets : a.at \in buckets'[i].t..buckets'[i].t + Width - 1
        <5>1. CASE a = new
          BY <1>0, <2>2, <3>1, <3>7, <3>9, <5>1 DEF falls
        <5>2. CASE a \in arrivals /\ Buckets = 1
          BY <1>0, <2>4, <3>1, <3>4, <3>7, <4>1, <5>2
        <5>3. CASE a \in arrivals /\ Buckets # 1
          <6>1. buckets'[1].t = buckets[2].t /\ buckets[1].t + Width <= buckets[2].t /\ 2 \in 1..Buckets
            BY <1>0, <3>1, <5>3 DEF Spaced
          <6>2. a.at >= buckets[1].t
            BY <1>0, <2>4, <4>1, <5>3, <6>1
          <6>3. PICK i \in 1..Buckets : a.at \in buckets[i].t..buckets[i].t + Width - 1
            BY <5>3, <6>2 DEF Covers
          <6>4. i # 1
            BY <1>0, <2>4, <4>1, <5>3, <6>1, <6>3
          <6>5. i - 1 \in 1..Buckets /\ i - 1 # Buckets /\ i - 1 + 1 = i
            BY <1>0, <6>4
          <6>6. buckets'[i - 1] = buckets[i]
            BY <3>1, <6>5
          <6> QED BY <6>3, <6>5, <6>6
        <5> QED BY <2>1, <4>1, <5>1, <5>2, <5>3 DEF new
      <4> QED BY <4>1 DEF Covers
    <3> QED BY <3>10, <3>11
  <2> QED BY <2>7, <2>8
<1>2. CASE ~ChartRecord
  <2>1. UNCHANGED <<buckets, arrivals>>
    BY <1>2, OtherCharts DEF Clock
  <2> QED BY <2>1 DEF Counts, Covers
<1> QED BY <1>1, <1>2

(***************************************************************************)
(* The graph.                                                              *)
(***************************************************************************)

LEMMA PlacesAreFinite ==
  ASSUME NEW p \in Seq(Record), NEW u
  PROVE  /\ IsFiniteSet(OkPlaces(p, u)) /\ Cardinality(OkPlaces(p, u)) \in Nat
         /\ IsFiniteSet(ErrPlaces(p, u)) /\ Cardinality(ErrPlaces(p, u)) \in Nat
<1>1. Len(p) \in Int /\ 1 \in Int
  OBVIOUS
<1>2. IsFiniteSet(1..Len(p))
  BY <1>1, FS_Interval
<1>3. OkPlaces(p, u) \in SUBSET (1..Len(p)) /\ ErrPlaces(p, u) \in SUBSET (1..Len(p))
  BY DEF OkPlaces, ErrPlaces
<1> QED BY <1>2, <1>3, FS_Subset, FS_CardinalityType

LEMMA CountFacts ==
  ASSUME pending \in Seq(Record), NEW u
  PROVE  /\ CountOf(u, TRUE) = Cardinality(OkPlaces(pending, u))
         /\ CountOf(u, FALSE) = Cardinality(ErrPlaces(pending, u))
<1>1. DOMAIN pending = 1..Len(pending)
  OBVIOUS
<1>2. CountOf(u, TRUE) = Cardinality(OkPlaces(pending, u))
  <2>1. {i \in DOMAIN pending : pending[i].upstream = u /\ (pending[i].status = "ok") = TRUE}
          = OkPlaces(pending, u)
    BY <1>1 DEF OkPlaces
  <2> QED BY <2>1, Zenon DEF CountOf
<1>3. CountOf(u, FALSE) = Cardinality(ErrPlaces(pending, u))
  <2>1. {i \in DOMAIN pending : pending[i].upstream = u /\ (pending[i].status = "ok") = FALSE}
          = ErrPlaces(pending, u)
    BY <1>1 DEF ErrPlaces
  <2> QED BY <2>1, Zenon DEF CountOf
<1> QED BY <1>2, <1>3

LEMMA PlacesOfNone ==
  \A u : Cardinality(OkPlaces(<<>>, u)) = 0 /\ Cardinality(ErrPlaces(<<>>, u)) = 0
<1>1. \A u : OkPlaces(<<>>, u) = {} /\ ErrPlaces(<<>>, u) = {}
  BY DEF OkPlaces, ErrPlaces
<1>2. Cardinality({}) = 0
  BY FS_EmptySet
<1> QED BY <1>1, <1>2, Zenon

\* A record that waits is counted once, on its edge.
LEMMA PlacesOfOneMore ==
  ASSUME NEW p \in Seq(Record), NEW r \in Record, NEW u
  PROVE  Cardinality(OkPlaces(Append(p, r), u)) + Cardinality(ErrPlaces(Append(p, r), u)) =
           Cardinality(OkPlaces(p, u)) + Cardinality(ErrPlaces(p, u))
             + (IF r.upstream = u THEN 1 ELSE 0)
<1> DEFINE q == Append(p, r)
           last == Len(p) + 1
<1>0. Len(p) \in Nat
  OBVIOUS
<1>1. /\ Len(q) = last /\ q[last] = r
      /\ \A i \in 1..Len(p) : q[i] = p[i]
  BY AppendProperties
<1>2. /\ \A i \in 1..last : i \in 1..Len(p) \/ i = last
      /\ \A i \in 1..Len(p) : i \in 1..last
      /\ last \in 1..last /\ last \notin 1..Len(p)
  BY <1>0
<1>3. last \notin OkPlaces(p, u) /\ last \notin ErrPlaces(p, u)
  BY <1>2 DEF OkPlaces, ErrPlaces
<1> HIDE DEF q, last
<1>4. CASE r.upstream # u
  <2>1. OkPlaces(q, u) = OkPlaces(p, u) /\ ErrPlaces(q, u) = ErrPlaces(p, u)
    BY <1>1, <1>2, <1>4 DEF OkPlaces, ErrPlaces
  <2> QED BY <1>4, <2>1, PlacesAreFinite DEF q
<1>5. CASE r.upstream = u /\ r.status = "ok"
  <2>1. OkPlaces(q, u) = OkPlaces(p, u) \cup {last} /\ ErrPlaces(q, u) = ErrPlaces(p, u)
    BY <1>1, <1>2, <1>5 DEF OkPlaces, ErrPlaces
  <2>2. Cardinality(OkPlaces(p, u) \cup {last}) = Cardinality(OkPlaces(p, u)) + 1
    BY <1>3, PlacesAreFinite, FS_AddElement
  <2> QED BY <1>5, <2>1, <2>2, PlacesAreFinite DEF q
<1>6. CASE r.upstream = u /\ r.status # "ok"
  <2>1. OkPlaces(q, u) = OkPlaces(p, u) /\ ErrPlaces(q, u) = ErrPlaces(p, u) \cup {last}
    BY <1>1, <1>2, <1>6 DEF OkPlaces, ErrPlaces
  <2>2. Cardinality(ErrPlaces(p, u) \cup {last}) = Cardinality(ErrPlaces(p, u)) + 1
    BY <1>3, PlacesAreFinite, FS_AddElement
  <2> QED BY <1>6, <2>1, <2>2, PlacesAreFinite DEF q
<1> QED BY <1>4, <1>5, <1>6

LEMMA NothingWaits ==
  ASSUME pending \in Seq(Record), NEW u, u \notin Touched
  PROVE  Waiting(u) = 0
<1>1. DOMAIN pending = 1..Len(pending)
  OBVIOUS
<1>2. OkPlaces(pending, u) = {} /\ ErrPlaces(pending, u) = {}
  BY <1>1 DEF Touched, OkPlaces, ErrPlaces
<1> QED BY <1>2, FS_EmptySet DEF Waiting

LEMMA EdgeSums ==
  ASSUME GraphTypes, NEW u \in Upstreams
  PROVE  /\ Stat(u) \in Edge /\ Drawn(u) \in Nat /\ Waiting(u) \in Nat
         /\ Stat(u).ok + Stat(u).err + CountOf(u, TRUE) + CountOf(u, FALSE) = Drawn(u) + Waiting(u)
<1>1. Stat(u) \in Edge
  BY DEF GraphTypes, Stat, Edge
<1> DEFINE c == Cardinality(OkPlaces(pending, u))
           d == Cardinality(ErrPlaces(pending, u))
<1>2. c \in Nat /\ d \in Nat
  BY PlacesAreFinite DEF GraphTypes
<1>3. Stat(u).ok \in Nat /\ Stat(u).err \in Nat
  BY <1>1 DEF Edge
<1>4. CountOf(u, TRUE) = c /\ CountOf(u, FALSE) = d
  <2>1. pending \in Seq(Record)
    BY DEF GraphTypes
  <2> QED BY <2>1, CountFacts, Zenon
<1>5. Stat(u).ok + Stat(u).err + CountOf(u, TRUE) + CountOf(u, FALSE) = Stat(u).ok + Stat(u).err + c + d
  BY <1>4, Zenon
<1>6. Drawn(u) = Stat(u).ok + Stat(u).err /\ Waiting(u) = c + d
  BY DEF Drawn, Waiting
<1> HIDE DEF c, d
<1>7. /\ Drawn(u) \in Nat /\ Waiting(u) \in Nat
      /\ Stat(u).ok + Stat(u).err + c + d = Drawn(u) + Waiting(u)
  BY <1>2, <1>3, <1>6
<1> QED BY <1>1, <1>5, <1>7, Zenon

\* The property in these terms.
LEMMA EdgesCountSums ==
  ASSUME GraphTypes
  PROVE  EdgesCountRecords <=> EdgesSummed
BY EdgeSums DEF EdgesCountRecords, EdgesSummed

\* A frame takes what waits to what is drawn.
LEMMA FlushedFacts ==
  ASSUME GraphTypes
  PROVE  /\ DOMAIN Flushed \subseteq Upstreams
         /\ \A u \in DOMAIN Flushed : Flushed[u] \in Edge
         /\ \A u \in Upstreams :
              (IF u \in DOMAIN Flushed THEN Flushed[u].ok + Flushed[u].err ELSE 0)
                = Drawn(u) + Waiting(u)
<1>1. pending \in Seq(Record) /\ DOMAIN stats \subseteq Upstreams /\ \A u \in DOMAIN stats : stats[u] \in Edge
  BY DEF GraphTypes
<1>2. Touched \subseteq Upstreams
  <2>1. \A i \in DOMAIN pending : pending[i] \in Record
    BY <1>1
  <2> QED BY <2>1, RecordFields DEF Touched
<1>3. DOMAIN Flushed = DOMAIN stats \cup Touched
  BY DEF Flushed
<1>4. ASSUME NEW u \in Upstreams, u \in Touched
      PROVE  /\ Flushed[u] = [ok |-> Stat(u).ok + CountOf(u, TRUE),
                              err |-> Stat(u).err + CountOf(u, FALSE), age |-> 0]
             /\ Flushed[u] \in Edge /\ Flushed[u].ok + Flushed[u].err = Drawn(u) + Waiting(u)
  <2>1. Flushed[u] = [ok |-> Stat(u).ok + CountOf(u, TRUE),
                      err |-> Stat(u).err + CountOf(u, FALSE), age |-> 0]
    BY <1>4 DEF Flushed
  <2> DEFINE c == Cardinality(OkPlaces(pending, u))
             d == Cardinality(ErrPlaces(pending, u))
             a == Stat(u).ok
             b == Stat(u).err
  <2>2. c \in Nat /\ d \in Nat /\ a \in Nat /\ b \in Nat
    BY <1>1, PlacesAreFinite, EdgeSums DEF Edge
  <2>3. Flushed[u] = [ok |-> a + c, err |-> b + d, age |-> 0]
    BY <1>1, <2>1, CountFacts, Zenon
  <2>4. Drawn(u) + Waiting(u) = (a + b) + (c + d)
    BY DEF Drawn, Waiting
  <2> HIDE DEF a, b, c, d
  <2>5. Flushed[u] \in Edge /\ Flushed[u].ok + Flushed[u].err = (a + b) + (c + d)
    BY <2>2, <2>3 DEF Edge
  <2> QED BY <2>1, <2>4, <2>5, Zenon
<1>5. ASSUME NEW u \in DOMAIN stats, u \notin Touched
      PROVE  Flushed[u] = stats[u] /\ Flushed[u].ok + Flushed[u].err = Drawn(u) + Waiting(u)
  <2>1. Flushed[u] = stats[u] /\ Stat(u) = stats[u]
    BY <1>5 DEF Flushed, Stat
  <2>2. Waiting(u) = 0
    BY <1>1, <1>5, NothingWaits
  <2>3. stats[u].ok \in Nat /\ stats[u].err \in Nat
    BY <1>1 DEF Edge
  <2> QED BY <2>1, <2>2, <2>3 DEF Drawn
<1>6. ASSUME NEW u \in Upstreams, u \notin DOMAIN stats, u \notin Touched
      PROVE  Drawn(u) + Waiting(u) = 0
  <2>1. Stat(u).ok = 0 /\ Stat(u).err = 0
    BY <1>6 DEF Stat
  <2>2. Waiting(u) = 0
    BY <1>1, <1>6, NothingWaits
  <2> QED BY <2>1, <2>2 DEF Drawn
<1>7. ASSUME NEW u \in DOMAIN Flushed
      PROVE  Flushed[u] \in Edge
  BY <1>1, <1>2, <1>3, <1>4, <1>5, <1>7
<1>8. ASSUME NEW u \in Upstreams
      PROVE  (IF u \in DOMAIN Flushed THEN Flushed[u].ok + Flushed[u].err ELSE 0)
               = Drawn(u) + Waiting(u)
  BY <1>3, <1>4, <1>5, <1>6
<1> QED BY <1>1, <1>2, <1>3, <1>7, <1>8

LEMMA PulseFacts ==
  ASSUME NEW u \in Upstreams
  PROVE  /\ \A s \in Statuses : Pulse(u, s) \in Nat
         /\ Pulse(u, "ok") + Pulse(u, "error") <= 1
<1>1. \A s \in Statuses : Pulse(u, s) \in {0, 1}
  BY DEF Pulse
<1>2. Pulse(u, "ok") = 0 \/ Pulse(u, "error") = 0
  BY DEF Pulse
<1> QED BY <1>1, <1>2 DEF Statuses

(***************************************************************************)
(* The polls.                                                              *)
(***************************************************************************)
PollStep ==
  \/ \E u \in Upstreams : ChangeTopology(u)
  \/ Refresh \/ PollServed \/ PollFailed
  \/ \E answer \in SUBSET Upstreams : PollCame(answer)
  \/ \E p \in LivePages : Mount(p)
  \/ outages' = outages + 1 /\ UNCHANGED <<topology, polls, displayed, changes>>
  \/ UNCHANGED <<topology, polls, displayed, changes, outages>>

LEMMA PollSteps ==
  ASSUME [ViewsNext]_viewVars
  PROVE  PollStep
<1>1. CASE Outside
  BY <1>1
     DEF Outside, NewRecord, Subscribe, SendSnapshot, StreamEnds, PollStep, server, fetched, counters
<1>2. CASE TrafficNext
  BY <1>2
     DEF TrafficNext, OpenTraffic, ListServed, ListCame, ListFailed, TakeSnapshot, TakeRecord,
         SnapshotCame, RecordCame, Pause, Clear, Filter, PollStep, LivePages, liveVars, server,
         fetched, counters
<1>3. CASE OverviewNext
  BY <1>3
     DEF OverviewNext, OpenOverview, ChartSnapshot, ChartRecord, OverviewPoll, ShowCounters, Clock,
         SnapshotCame, RecordCame, PollStep, LivePages, liveVars, server, fetched, counters
<1>4. CASE GraphNext
  BY <1>4
     DEF GraphNext, OpenGraph, GraphSnapshot, AcceptRecord, flushPending, PulseEnds, Decay,
         HideOrReturn, GraphPoll, ShowRoutes, SnapshotCame, RecordCame, PollStep, LivePages,
         liveVars, server, fetched, counters
<1>5. CASE UNCHANGED viewVars
  BY <1>5 DEF viewVars, liveVars, server, fetched, counters, PollStep
<1> QED BY <1>1, <1>2, <1>3, <1>4, <1>5 DEF ViewsNext, OnTraffic, OnOverview, OnGraph

LEMMA PollTypesKept ==
  ASSUME PollTypes, PollStep
  PROVE  PollTypes'
<1> USE DEF PollTypes
<1>0. /\ MaxPolls \in Nat /\ MaxPolls >= 1
      /\ polls.waiting \in Nat /\ polls.waiting <= MaxPolls
      /\ polls.answers \in SUBSET SUBSET Upstreams /\ IsFiniteSet(polls.answers)
      /\ polls = [waiting |-> polls.waiting, answers |-> polls.answers]
  BY LiveStreamConstants
<1>1. ASSUME NEW u \in Upstreams, ChangeTopology(u)
      PROVE  PollTypes'
  BY <1>1 DEF ChangeTopology, fetched
<1>2. CASE Refresh
  <2>1. Cardinality(polls.answers) \in Nat
    BY <1>0, FS_CardinalityType
  <2>2. polls.waiting + Cardinality(polls.answers) < MaxPolls
    BY <1>2 DEF Refresh
  <2>3. polls' = [waiting |-> polls.waiting + 1, answers |-> polls.answers]
    BY <1>0, <1>2 DEF Refresh
  <2>4. polls.waiting + 1 \in 0..MaxPolls
    BY <1>0, <2>1, <2>2
  <2>5. UNCHANGED <<topology, displayed, changes, outages>>
    BY <1>2 DEF Refresh, server, counters
  <2> QED BY <1>0, <2>3, <2>4, <2>5
<1>3. CASE PollServed
  <2>1. polls' = [waiting |-> polls.waiting - 1, answers |-> polls.answers \cup {topology}]
    BY <1>3 DEF PollServed
  <2>2. polls.waiting - 1 \in 0..MaxPolls
    BY <1>0, <1>3 DEF PollServed
  <2>3. /\ polls.answers \cup {topology} \in SUBSET SUBSET Upstreams
        /\ IsFiniteSet(polls.answers \cup {topology})
    BY <1>0, FS_AddElement
  <2>4. UNCHANGED <<topology, displayed, changes, outages>>
    BY <1>3 DEF PollServed, server, counters
  <2> QED BY <2>1, <2>2, <2>3, <2>4
<1>4. CASE PollFailed
  <2>1. polls' = [waiting |-> polls.waiting - 1, answers |-> polls.answers]
    BY <1>0, <1>4 DEF PollFailed
  <2>2. polls.waiting - 1 \in 0..MaxPolls
    BY <1>0, <1>4 DEF PollFailed
  <2>3. UNCHANGED <<topology, displayed, changes>> /\ outages' \in Nat
    BY <1>4 DEF PollFailed, server
  <2> QED BY <1>0, <2>1, <2>2, <2>3
<1>5. ASSUME NEW answer \in SUBSET Upstreams, PollCame(answer)
      PROVE  PollTypes'
  <2>1. polls' = [waiting |-> polls.waiting, answers |-> polls.answers \ {answer}]
    BY <1>0, <1>5 DEF PollCame
  <2>2. IsFiniteSet(polls.answers \ {answer})
    BY <1>0, FS_Subset
  <2>3. displayed' = answer /\ UNCHANGED <<topology, changes, outages>>
    BY <1>5 DEF PollCame, server, counters
  <2> QED BY <1>0, <2>1, <2>2, <2>3
<1>6. ASSUME NEW p \in LivePages, Mount(p)
      PROVE  PollTypes'
  <2>1. polls' = [waiting |-> IF p = "traffic" THEN 0 ELSE 1, answers |-> {}]
    BY <1>6 DEF Mount, NoPolls
  <2>2. IsFiniteSet({})
    BY FS_EmptySet
  <2>3. UNCHANGED <<topology, displayed, changes, outages>>
    BY <1>6 DEF Mount, server, counters
  <2> QED BY <1>0, <2>1, <2>2, <2>3
<1>7. CASE outages' = outages + 1 /\ UNCHANGED <<topology, polls, displayed, changes>>
  BY <1>7
<1>8. CASE UNCHANGED <<topology, polls, displayed, changes, outages>>
  BY <1>8
<1> QED BY <1>1, <1>2, <1>3, <1>4, <1>5, <1>6, <1>7, <1>8 DEF PollStep

(***************************************************************************)
(* The steps of the graph.                                                 *)
(***************************************************************************)
PollOfGraph ==
  /\ fatalError' \in {fatalError, TRUE, FALSE}
  /\ pulses' \in {pulses, NoPulse}
  /\ UNCHANGED <<visible, pending, scheduled, frames, stats, seen>>

GraphStep ==
  \/ \E r \in Record : Push(r) /\ UNCHANGED <<visible, stats, pulses, fatalError>>
  \/ flushPending
  \/ \E u \in Upstreams, s \in Statuses : PulseEnds(u, s)
  \/ \E w \in Windows : Decay(w)
  \/ HideOrReturn
  \/ PollOfGraph
  \/ UNCHANGED graphVars

LEMMA GraphSteps ==
  ASSUME [ViewsNext]_viewVars
  PROVE  GraphStep
<1>1. CASE GraphNext
  <2>1. CASE AcceptRecord
    BY <2>1 DEF AcceptRecord, GraphStep, graphVars
  <2>2. CASE GraphPoll \/ \E answer \in SUBSET Upstreams : ShowRoutes(answer)
    BY <2>2 DEF GraphPoll, ShowRoutes, PollOfGraph, GraphStep
  <2> QED BY <1>1, <2>1, <2>2 DEF GraphNext, OpenGraph, GraphSnapshot, GraphStep
<1>2. CASE ~GraphNext
  <2>1. UNCHANGED graphVars
    BY <1>2 DEF ViewsNext, Outside, OnTraffic, OnOverview, OnGraph, viewVars
  <2> QED BY <2>1 DEF GraphStep
<1> QED BY <1>1, <1>2

LEMMA GraphTypesKept ==
  ASSUME GraphTypes, GraphStep
  PROVE  GraphTypes'
<1>0. <<>> \in Seq(Record)
  OBVIOUS
<1>1. ASSUME NEW r \in Record, Push(r), UNCHANGED <<visible, stats, pulses, fatalError>>
      PROVE  GraphTypes'
  <2>1. pending' \in Seq(Record)
    BY <1>1 DEF Push, GraphTypes
  <2>2. seen' \in [Upstreams -> Int]
    BY <1>1, RecordFields DEF Push, GraphTypes
  <2>3. scheduled' \in BOOLEAN /\ frames' \in Nat
    BY <1>1 DEF Push, GraphTypes
  <2> QED BY <1>1, <2>1, <2>2, <2>3 DEF GraphTypes
<1>2. CASE flushPending
  <2>1. /\ frames' = frames - 1 /\ frames > 0 /\ scheduled' = FALSE /\ pending' = <<>> /\ stats' = Flushed
        /\ pulses' = [u \in Upstreams |-> [s \in Statuses |-> pulses[u][s] + Pulse(u, s)]]
        /\ UNCHANGED <<visible, fatalError, seen>>
    BY <1>2 DEF flushPending
  <2>2. pulses' \in [Upstreams -> [Statuses -> Nat]]
    <3>1. ASSUME NEW u \in Upstreams, NEW s \in Statuses
          PROVE  pulses[u][s] + Pulse(u, s) \in Nat
      BY <3>1, PulseFacts DEF GraphTypes
    <3> QED BY <2>1, <3>1
  <2>3. DOMAIN stats' \subseteq Upstreams /\ \A u \in DOMAIN stats' : stats'[u] \in Edge
    <3>1. DOMAIN Flushed \subseteq Upstreams /\ \A u \in DOMAIN Flushed : Flushed[u] \in Edge
      BY FlushedFacts
    <3>2. stats' = Flushed
      BY <2>1
    <3> QED BY <3>1, <3>2, Zenon
  <2>4. /\ visible' \in BOOLEAN /\ scheduled' \in BOOLEAN /\ fatalError' \in BOOLEAN
        /\ pending' \in Seq(Record) /\ frames' \in Nat /\ seen' \in [Upstreams -> Int]
    <3>1. /\ frames' = frames - 1 /\ frames > 0 /\ scheduled' = FALSE /\ pending' = <<>>
          /\ visible' = visible /\ fatalError' = fatalError /\ seen' = seen
      BY <2>1
    <3>2. frames' \in Nat
      BY <3>1 DEF GraphTypes
    <3> QED BY <1>0, <3>1, <3>2 DEF GraphTypes
  <2> QED BY <2>2, <2>3, <2>4 DEF GraphTypes
<1>3. ASSUME NEW u \in Upstreams, NEW s \in Statuses, PulseEnds(u, s)
      PROVE  GraphTypes'
  <2>1. pulses' \in [Upstreams -> [Statuses -> Nat]]
    <3>1. pulses[u][s] - 1 \in Nat
      BY <1>3 DEF PulseEnds, GraphTypes
    <3>2. pulses' = [pulses EXCEPT ![u][s] = pulses[u][s] - 1]
      BY <1>3 DEF PulseEnds
    <3> QED BY <3>1, <3>2 DEF GraphTypes
  <2> QED BY <1>3, <2>1 DEF PulseEnds, GraphTypes
<1>4. ASSUME NEW w \in Windows, Decay(w)
      PROVE  GraphTypes'
  <2>1. /\ stats' = [u \in {v \in DOMAIN stats : ~Faded(v, w)} |-> [stats[u] EXCEPT !.age = @ + 1]]
        /\ UNCHANGED <<visible, pending, scheduled, frames, pulses, fatalError>>
    BY <1>4 DEF Decay
  <2>2. ASSUME NEW u \in DOMAIN stats
        PROVE  [stats[u] EXCEPT !.age = @ + 1] \in Edge
    <3>1. stats[u] \in [ok : Nat, err : Nat, age : Nat]
      BY <2>2 DEF GraphTypes, Edge
    <3> QED BY <3>1 DEF Edge
  <2>3. seen' \in [Upstreams -> Int]
    <3>1. ASSUME NEW u \in Upstreams, u \in DOMAIN stats
          PROVE  seen[u] - stats[u].ok - stats[u].err \in Int
      BY <3>1 DEF GraphTypes, Edge
    <3> QED BY <1>4, <3>1 DEF Decay, GraphTypes
  <2> QED BY <2>1, <2>2, <2>3 DEF GraphTypes
<1>5. CASE HideOrReturn
  BY <1>5 DEF HideOrReturn, GraphTypes
<1>6. CASE PollOfGraph
  <2>1. NoPulse \in [Upstreams -> [Statuses -> Nat]]
    BY DEF NoPulse
  <2> QED BY <1>6, <2>1 DEF PollOfGraph, GraphTypes
<1>7. CASE UNCHANGED graphVars
  BY <1>7 DEF graphVars, GraphTypes
<1> QED BY <1>1, <1>2, <1>3, <1>4, <1>5, <1>6, <1>7 DEF GraphStep

LEMMA OneFrameKept ==
  ASSUME GraphTypes, OneFrame, GraphStep
  PROVE  OneFrame'
<1>1. ASSUME NEW r \in Record, Push(r)
      PROVE  OneFrame'
  BY <1>1 DEF Push, OneFrame
<1>2. CASE flushPending
  BY <1>2 DEF flushPending, OneFrame
<1>3. CASE UNCHANGED <<pending, scheduled, frames>>
  BY <1>3 DEF OneFrame
<1> QED BY <1>1, <1>2, <1>3
        DEF GraphStep, PulseEnds, Decay, HideOrReturn, PollOfGraph, graphVars

LEMMA EdgesSummedKept ==
  ASSUME GraphTypes, EdgesSummed, GraphStep
  PROVE  EdgesSummed'
<1>0. \A u \in Upstreams : Drawn(u) \in Nat /\ Waiting(u) \in Nat /\ seen[u] = Drawn(u) + Waiting(u)
  BY EdgeSums DEF EdgesSummed
<1>1. ASSUME NEW r \in Record, Push(r), UNCHANGED stats
      PROVE  EdgesSummed'
  <2>1. ASSUME NEW u \in Upstreams
        PROVE  seen'[u] = Drawn(u)' + Waiting(u)'
    <3>1. pending' = Append(pending, r) /\ pending \in Seq(Record)
      BY <1>1 DEF Push, GraphTypes
    <3>2. Waiting(u)' = Waiting(u) + (IF r.upstream = u THEN 1 ELSE 0)
      BY <3>1, PlacesOfOneMore DEF Waiting
    <3>3. Drawn(u)' = Drawn(u)
      BY <1>1 DEF Drawn, Stat
    <3>4. seen'[u] = seen[u] + (IF r.upstream = u THEN 1 ELSE 0)
      BY <1>1, RecordFields DEF Push, GraphTypes
    <3> QED BY <1>0, <3>2, <3>3, <3>4
  <2> QED BY <2>1 DEF EdgesSummed
<1>2. CASE flushPending
  <2>1. pending' = <<>> /\ stats' = Flushed /\ seen' = seen
    BY <1>2 DEF flushPending
  <2>2. ASSUME NEW u \in Upstreams
        PROVE  seen'[u] = Drawn(u)' + Waiting(u)'
    <3>1. Waiting(u)' = 0
      BY <2>1, PlacesOfNone DEF Waiting
    <3>2. Drawn(u)' = IF u \in DOMAIN Flushed THEN Flushed[u].ok + Flushed[u].err ELSE 0
      BY <2>1 DEF Drawn, Stat
    <3>3. Drawn(u)' = Drawn(u) + Waiting(u)
      BY <3>2, FlushedFacts
    <3> QED BY <1>0, <2>1, <3>1, <3>3
  <2> QED BY <2>2 DEF EdgesSummed
<1>3. ASSUME NEW w \in Windows, Decay(w)
      PROVE  EdgesSummed'
  <2>1. /\ stats' = [u \in {v \in DOMAIN stats : ~Faded(v, w)} |-> [stats[u] EXCEPT !.age = @ + 1]]
        /\ pending' = pending
    BY <1>3 DEF Decay
  <2>2. ASSUME NEW u \in Upstreams
        PROVE  seen'[u] = Drawn(u)' + Waiting(u)'
    <3>1. Waiting(u)' = Waiting(u)
      BY <2>1 DEF Waiting
    <3>2. CASE u \in DOMAIN stats /\ Faded(u, w)
      <4>1. seen'[u] = seen[u] - stats[u].ok - stats[u].err
        BY <1>3, <3>2 DEF Decay
      <4>2. Drawn(u) = stats[u].ok + stats[u].err /\ Drawn(u)' = 0
        BY <2>1, <3>2 DEF Drawn, Stat
      <4>3. stats[u].ok \in Nat /\ stats[u].err \in Nat
        BY <3>2 DEF GraphTypes, Edge
      <4> QED BY <1>0, <3>1, <4>1, <4>2, <4>3
    <3>3. CASE ~(u \in DOMAIN stats /\ Faded(u, w))
      <4>1. seen'[u] = seen[u]
        BY <1>3, <3>3 DEF Decay
      <4>2. Drawn(u)' = Drawn(u)
        BY <2>1, <3>3 DEF Drawn, Stat, GraphTypes, Edge
      <4> QED BY <1>0, <3>1, <4>1, <4>2
    <3> QED BY <3>2, <3>3
  <2> QED BY <2>2 DEF EdgesSummed
<1>4. CASE UNCHANGED <<pending, stats, seen>>
  BY <1>4 DEF EdgesSummed, Drawn, Waiting, Stat
<1> QED BY <1>1, <1>2, <1>3, <1>4 DEF GraphStep, PulseEnds, HideOrReturn, PollOfGraph, graphVars

\* No step of the graph starts two pulses on an edge.
LEMMA OneMorePulse ==
  ASSUME GraphTypes, GraphStep, NEW u \in Upstreams
  PROVE  pulses'[u]["ok"] + pulses'[u]["error"] <= pulses[u]["ok"] + pulses[u]["error"] + 1
<1>0. "ok" \in Statuses /\ "error" \in Statuses /\ pulses[u]["ok"] \in Nat /\ pulses[u]["error"] \in Nat
  BY DEF Statuses, GraphTypes
<1>1. CASE flushPending
  <2>1. /\ pulses'[u]["ok"] = pulses[u]["ok"] + Pulse(u, "ok")
        /\ pulses'[u]["error"] = pulses[u]["error"] + Pulse(u, "error")
    BY <1>0, <1>1 DEF flushPending
  <2>2. /\ Pulse(u, "ok") \in Nat /\ Pulse(u, "error") \in Nat
        /\ Pulse(u, "ok") + Pulse(u, "error") <= 1
    BY <1>0, PulseFacts
  <2> QED BY <1>0, <2>1, <2>2
<1>2. ASSUME NEW v \in Upstreams, NEW s \in Statuses, PulseEnds(v, s)
      PROVE  pulses'[u]["ok"] + pulses'[u]["error"] <= pulses[u]["ok"] + pulses[u]["error"] + 1
  <2>1. pulses[v][s] \in Nat /\ pulses' = [pulses EXCEPT ![v][s] = pulses[v][s] - 1]
    BY <1>2 DEF PulseEnds, GraphTypes
  <2>2. /\ pulses'[u]["ok"] = pulses[u]["ok"] \/ pulses'[u]["ok"] = pulses[u]["ok"] - 1
        /\ pulses'[u]["error"] = pulses[u]["error"] \/ pulses'[u]["error"] = pulses[u]["error"] - 1
    BY <1>0, <2>1 DEF GraphTypes
  <2> QED BY <1>0, <2>2
<1>3. CASE PollOfGraph
  BY <1>0, <1>3 DEF PollOfGraph, NoPulse
<1>4. CASE UNCHANGED pulses
  BY <1>0, <1>4
<1> QED BY <1>1, <1>2, <1>3, <1>4 DEF GraphStep, Decay, HideOrReturn, graphVars

(***************************************************************************)
(* The theorems about the live pages.                                      *)
(***************************************************************************)
LEMMA ViewsStart ==
  ASSUME ViewsInit
  PROVE  ViewsInv
<1>0. <<>> \in Seq(Record) /\ Len(<<>>) = 0
  BY EmptySeq
<1>1. /\ log = <<>> /\ topology = RegisteredFirst /\ dropped = 0
      /\ opened = "none" /\ polls = NoPolls /\ displayed = {}
      /\ changes = 0 /\ outages = 0 /\ stream = NoStream
  BY DEF ViewsInit, LiveInit
<1>2. /\ stream.at = "none" /\ stream.snapshot = <<>> /\ stream.queue = <<>>
      /\ stream \in Streams
  BY <1>0, <1>1 DEF NoStream, Streams
<1>3. StreamTypes
  <2>1. SnapshotLimit \in Nat /\ MaxRecords \in Nat
    BY LiveStreamConstants
  <2> QED BY <1>0, <1>1, <1>2, <2>1 DEF StreamTypes
<1>4. PollTypes
  <2>1. polls = [waiting |-> 0, answers |-> {}] /\ IsFiniteSet({})
    BY <1>1, FS_EmptySet DEF NoPolls
  <2>2. 0 \in 0..MaxPolls /\ RegisteredFirst \in SUBSET Upstreams
    BY LiveStreamConstants
  <2> QED BY <1>1, <2>1, <2>2 DEF PollTypes
<1>5. TableTypes
  <2>1. records = <<>> /\ paused = FALSE /\ list = "none" /\ listed = <<>> /\ touched = FALSE
    BY Zenon DEF ViewsInit, TrafficInit
  <2>2. records \in Seq(Record) /\ Len(records) = 0 /\ listed \in Seq(Record) /\ Len(listed) = 0
    BY <1>0, <2>1, Zenon
  <2>3. Len(records) <= TableMax /\ Len(listed) <= ListLimit
    BY <2>2, TableNumbers
  <2> QED BY <2>1, <2>2, <2>3, Zenon DEF TableTypes
<1>6. FilterType
  BY Zenon DEF ViewsInit, TrafficInit, FilterType
<1>7. now = 0 /\ buckets = Empty /\ arrivals = {}
  BY DEF ViewsInit, OverviewInit
<1> DEFINE begin(i) == (i - Buckets) * Width
<1>8. /\ Empty = [i \in 1..Buckets |-> [t |-> begin(i), ok |-> 0, err |-> 0]]
      /\ \A i \in 1..Buckets : begin(i) \in Int
      /\ begin(Buckets) = 0
      /\ \A i, j \in 1..Buckets : i < j => begin(i) + Width <= begin(j)
  <2>1. Empty = [i \in 1..Buckets |-> [t |-> begin(i), ok |-> 0, err |-> 0]]
    BY Zenon DEF Empty
  <2>2. \A i \in 1..Buckets : begin(i) \in Int
    BY ChartNumbers
  <2>3. begin(Buckets) = 0
    <3>1. Buckets - Buckets = 0 /\ 0 * Width = 0
      BY ChartNumbers
    <3> QED BY <3>1, Zenon
  <2>4. ASSUME NEW i \in 1..Buckets, NEW j \in 1..Buckets, i < j
        PROVE  begin(i) + Width <= begin(j)
    <3>1. Width \in Nat /\ i \in Int /\ j \in Int /\ Buckets \in Int /\ j - i >= 1
      BY <2>4, ChartNumbers
    <3>2. (j - Buckets) * Width = (i - Buckets) * Width + (j - i) * Width
      BY <3>1
    <3>3. (j - i) * Width = Width + (j - i - 1) * Width /\ (j - i - 1) * Width >= 0
      BY <3>1
    <3>4. (i - Buckets) * Width \in Int /\ (j - i) * Width \in Int /\ (j - i - 1) * Width \in Int
      BY <3>1
    <3> QED BY <3>1, <3>2, <3>3, <3>4
  <2> QED BY <2>1, <2>2, <2>3, <2>4
<1> HIDE DEF begin
<1>8a. \A i \in 1..Buckets : buckets[i].t = begin(i) /\ buckets[i].ok = 0 /\ buckets[i].err = 0
  BY <1>7, <1>8
<1>9. ChartTypes
  <2>1. buckets \in [1..Buckets -> [t : Int, ok : Nat, err : Nat]]
    BY <1>7, <1>8
  <2>2. IsFiniteSet({})
    BY FS_EmptySet
  <2> QED BY <1>7, <2>1, <2>2, ChartNumbers DEF ChartTypes
<1>10. GraphTypes
  <2>1. NoPulse \in [Upstreams -> [Statuses -> Nat]] /\ [u \in Upstreams |-> 0] \in [Upstreams -> Int]
    BY DEF NoPulse
  <2>2. /\ visible = TRUE /\ pending = <<>> /\ scheduled = FALSE /\ frames = 0 /\ stats = <<>>
        /\ pulses = NoPulse /\ fatalError = FALSE /\ seen = [u \in Upstreams |-> 0]
    BY Zenon DEF ViewsInit, GraphInit
  <2>3. DOMAIN stats \subseteq Upstreams /\ \A u \in DOMAIN stats : stats[u] \in Edge
    BY <2>2
  <2>4. /\ visible \in BOOLEAN /\ scheduled \in BOOLEAN /\ fatalError \in BOOLEAN
        /\ pending \in Seq(Record) /\ frames \in Nat
    BY <1>0, <2>2
  <2>5. pulses \in [Upstreams -> [Statuses -> Nat]] /\ seen \in [Upstreams -> Int]
    BY <2>1, <2>2, Zenon
  <2> QED BY <2>3, <2>4, <2>5, Zenon DEF GraphTypes
<1>11. TableInv
  BY <1>0, <1>1, <1>2 DEF TableInv, QueueInOrder, QueueIsComplete, RowsAreComplete
<1>12. Spaced
  BY <1>7, <1>8, <1>8a, ChartNumbers DEF Spaced, Last
<1>13. Counts
  <2>1. \A t, ok : ArrivedIn(arrivals, t, ok) = {}
    BY <1>7, Zenon DEF ArrivedIn
  <2>2. \A t, ok : Cardinality(ArrivedIn(arrivals, t, ok)) = 0
    <3>1. Cardinality({}) = 0
      BY FS_EmptySet
    <3> QED BY <2>1, <3>1, Zenon
  <2> QED BY <1>8a, <2>2, Zenon DEF Counts
<1>14. ArrivedBefore /\ Covers
  BY <1>7 DEF ArrivedBefore, Covers
<1>15. OneFrame
  BY DEF ViewsInit, GraphInit, OneFrame
<1>16. EdgesSummed
  <2>1. ASSUME NEW u \in Upstreams
        PROVE  seen[u] = Drawn(u) + Waiting(u)
    <3>1. pending = <<>> /\ stats = <<>> /\ seen[u] = 0
      <4>1. pending = <<>> /\ stats = <<>> /\ seen = [v \in Upstreams |-> 0]
        BY Zenon DEF ViewsInit, GraphInit
      <4> QED BY <4>1
    <3>2. Waiting(u) = 0
      BY <3>1, PlacesOfNone DEF Waiting
    <3>3. Drawn(u) = 0
      BY <3>1 DEF Drawn, Stat
    <3> QED BY <3>1, <3>2, <3>3
  <2> QED BY <2>1 DEF EdgesSummed
<1> QED BY <1>3, <1>4, <1>5, <1>6, <1>9, <1>10, <1>11, <1>12, <1>13, <1>14, <1>15, <1>16
        DEF ViewsInv, ViewsTypes, ChartInv, GraphInv

LEMMA ViewsStep ==
  ASSUME ViewsInv, [ViewsNext]_viewVars
  PROVE  ViewsInv'
<1>1. /\ StreamTypes /\ PollTypes /\ TableTypes /\ FilterType /\ ChartTypes /\ GraphTypes
      /\ QueueInOrder /\ QueueIsComplete /\ RowsAreComplete
      /\ ArrivedBefore /\ Spaced /\ Counts /\ Covers /\ OneFrame /\ EdgesSummed
  BY DEF ViewsInv, ViewsTypes, TableInv, ChartInv, GraphInv
<1>2. StreamStep /\ PollStep /\ GraphStep
  BY StreamSteps, PollSteps, GraphSteps
<1>3. ViewsTypes'
  BY <1>1, <1>2, StreamTypesKept, PollTypesKept, TableTypesKept, FilterTypeKept, ChartTypesKept,
     GraphTypesKept
     DEF ViewsTypes
<1>4. TableInv'
  BY <1>1, <1>2, QueueInOrderKept, QueueIsCompleteKept, RowsAreCompleteKept DEF TableInv
<1>5. ChartInv'
  BY <1>1, ArrivedBeforeKept, SpacedKept, HistogramKept DEF ChartInv
<1>6. GraphInv'
  BY <1>1, <1>2, OneFrameKept, EdgesSummedKept DEF GraphInv
<1> QED BY <1>3, <1>4, <1>5, <1>6 DEF ViewsInv

\* The invariant of the live pages is one: whatever the server records and
\* drops, however the stream, the polls, the frames and the clock interleave.
THEOREM ViewsInvariance == ViewsSpec => []ViewsInv
<1>1. ViewsInit => ViewsInv
  BY ViewsStart
<1>2. ViewsInv /\ [ViewsNext]_viewVars => ViewsInv'
  BY ViewsStep
<1> QED BY <1>1, <1>2, PTL DEF ViewsSpec

\* Every variable of the live pages keeps its type: no table outgrows its rows,
\* no more polls are in flight than the page may have, and the number of buckets
\* stays.
THEOREM ViewsTypeCorrect == ViewsSpec => []ViewsTypeOK
<1>1. ViewsInv => ViewsTypeOK
  <2> SUFFICES ASSUME ViewsInv PROVE ViewsTypeOK
    OBVIOUS
  <2>1. StreamTypes /\ PollTypes /\ TableTypes /\ FilterType /\ ChartTypes /\ GraphTypes
    BY DEF ViewsInv, ViewsTypes
  <2>2. LiveTypeOK
    BY <2>1 DEF StreamTypes, Streams, PollTypes, LiveTypeOK
  <2>3. /\ records \in Seq(Record) /\ Len(records) <= TableMax /\ paused \in BOOLEAN
        /\ list \in {"none", "asked", "served"} /\ listed \in Seq(Record) /\ touched \in BOOLEAN
    BY <2>1 DEF TableTypes
  <2>4. now \in 0..MaxTime /\ buckets \in [1..Buckets -> [t : Int, ok : Nat, err : Nat]]
    BY <2>1 DEF ChartTypes
  <2>5. /\ visible \in BOOLEAN /\ pending \in Seq(Record) /\ scheduled \in BOOLEAN
        /\ frames \in Nat /\ fatalError \in BOOLEAN
        /\ \A u \in DOMAIN stats : u \in Upstreams /\ stats[u] \in [ok : Nat, err : Nat, age : Nat]
        /\ pulses \in [Upstreams -> [Statuses -> Nat]]
    BY <2>1 DEF GraphTypes, Edge
  <2>6. upstreamFilter \in Upstreams \cup {""}
    BY <2>1, Zenon DEF FilterType
  <2> QED BY <2>2, <2>3, <2>4, <2>5, <2>6, Zenon DEF ViewsTypeOK
<1> QED BY <1>1, ViewsInvariance, PTL

\* The table of a connected Traffic page that nobody touched misses no more
\* records of its subscription than the server counted as dropped for its
\* subscribers, although the snapshot overlaps the queue and replaces the table.
THEOREM TableMissesOnlyDropped == ViewsSpec => []TableIsComplete
<1>1. ViewsInv => TableIsComplete
  BY CompleteTable DEF ViewsInv, ViewsTypes
<1> QED BY <1>1, ViewsInvariance, PTL

\* The chart of the Overview page is the histogram of the records that arrived
\* since its first bucket, although its buckets move only when a record comes.
THEOREM ChartCountsArrivals == ViewsSpec => []ChartIsHistogram
<1>1. ViewsInv => ChartIsHistogram
  BY HistogramParts DEF ViewsInv, ChartInv
<1> QED BY <1>1, ViewsInvariance, PTL

\* The Graph page asks for one animation frame at a time, and has asked for one
\* while a record waits.
THEOREM FrameIsAsked == ViewsSpec => []OneFrame
<1>1. ViewsInv => OneFrame
  BY DEF ViewsInv, GraphInv
<1> QED BY <1>1, ViewsInvariance, PTL

\* Each record that the Graph page accepted counts once, in the statistics of its
\* edge or among those that wait for the frame, until the entry fades.
THEOREM NoRecordCountsTwice == ViewsSpec => []EdgesCountRecords
<1>1. ViewsInv => EdgesCountRecords
  BY EdgesCountSums DEF ViewsInv, ViewsTypes, GraphInv
<1> QED BY <1>1, ViewsInvariance, PTL

\* However frames, records, fades and visits of a hidden tab interleave, no record
\* that the page accepted is lost, drawn twice or left without a frame.
THEOREM GraphCountsExactly == ViewsSpec => []GraphIsExact
BY FrameIsAsked, NoRecordCountsTwice, PTL DEF GraphIsExact

\* No step of the Graph page starts two pulses on one edge, however many records
\* a frame draws.
THEOREM PulseRateIsBounded == ViewsSpec => OnePulsePerFrame
<1>1. ASSUME ViewsInv, [ViewsNext]_viewVars
      PROVE  [\A u \in Upstreams :
                pulses'[u]["ok"] + pulses'[u]["error"]
                  <= pulses[u]["ok"] + pulses[u]["error"] + 1]_pulses
  BY <1>1, GraphSteps, OneMorePulse DEF ViewsInv, ViewsTypes
<1>2. ViewsSpec => [][ViewsNext]_viewVars
  BY DEF ViewsSpec
<1> QED BY <1>1, <1>2, ViewsInvariance, PTL DEF OnePulsePerFrame
================================================================================
