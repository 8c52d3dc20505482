------------------------------- MODULE LiveViews -------------------------------
(***************************************************************************)
(* The live pages together, of which one is opened.                        *)
(***************************************************************************)
EXTENDS Traffic, Overview, Graph

viewVars == <<liveVars, trafficVars, overviewVars, graphVars>>

ViewsInit == LiveInit /\ TrafficInit /\ OverviewInit /\ GraphInit

OnGraph(A) == A /\ UNCHANGED <<trafficVars, overviewVars>>
OnOverview(A) == A /\ UNCHANGED <<trafficVars, graphVars>>
OnTraffic(A) == A /\ UNCHANGED <<overviewVars, graphVars>>

Outside ==
  /\ \/ \E k \in Kinds : NewRecord(k)
     \/ \E u \in Upstreams : ChangeTopology(u)
     \/ Subscribe \/ SendSnapshot \/ StreamEnds
  /\ UNCHANGED <<trafficVars, overviewVars, graphVars>>

ViewsNext ==
  \/ Outside
  \/ OnTraffic(TrafficNext)
  \/ OnOverview(OverviewNext)
  \/ OnGraph(GraphNext)

ViewsSpec == ViewsInit /\ [][ViewsNext]_viewVars

\* The browser draws frames and ends animations, polls repeat, and their
\* requests are answered or fail.
ViewsFairness ==
  /\ WF_viewVars(OnGraph(flushPending))
  /\ \A u \in Upstreams, s \in Statuses : WF_viewVars(OnGraph(PulseEnds(u, s)))
  /\ WF_viewVars(OnGraph(GraphPoll)) /\ WF_viewVars(OnOverview(OverviewPoll))
  /\ \A answer \in SUBSET Upstreams :
       WF_viewVars(OnGraph(ShowRoutes(answer))) /\ WF_viewVars(OnOverview(ShowCounters(answer)))

FairViews == ViewsSpec /\ ViewsFairness

ViewsTypeOK ==
  /\ LiveTypeOK
  /\ records \in Seq(Record) /\ Len(records) <= TableMax
  /\ paused \in BOOLEAN /\ upstreamFilter \in Upstreams \cup {""}
  /\ list \in {"none", "asked", "served"} /\ listed \in Seq(Record) /\ touched \in BOOLEAN
  /\ now \in 0..MaxTime
  /\ buckets \in [1..Buckets -> [t : Int, ok : Nat, err : Nat]]
  /\ visible \in BOOLEAN /\ pending \in Seq(Record) /\ scheduled \in BOOLEAN
  /\ frames \in Nat
  /\ \A u \in DOMAIN stats : u \in Upstreams /\ stats[u] \in [ok : Nat, err : Nat, age : Nat]
  /\ pulses \in [Upstreams -> [Statuses -> Nat]]
  /\ fatalError \in BOOLEAN

\* A page that polls comes to show the upstreams there are, whatever polls
\* failed or were overtaken.
TopologyCatchesUp ==
  \A T \in SUBSET Upstreams :
    <>[](opened \in {"overview", "graph"} /\ topology = T) => <>[](displayed = T)

\* What the server has comes to be on the page: the records that wait to be
\* drawn, and the upstreams.
PageCatchesUp == RecordsAreDrawn /\ TopologyCatchesUp
===============================================================================
