--------------------------------- MODULE Graph ---------------------------------
(***************************************************************************)
(* The Graph page (pages/Graph.tsx, components/TrafficGraph.tsx).  Records *)
(* of the stream wait in pendingRef for the next animation frame; the      *)
(* frame adds them to the statistics of their edges and starts a pulse on  *)
(* each edge it touched; a tick every second fades the statistics.         *)
(***************************************************************************)
EXTENDS LiveStream

CONSTANTS
  Windows,      \* the windows to choose from (60, 300 and 900 s)
  Fade          \* of a window: the ticks until a record is below the noise floor

ASSUME GraphConstants == Fade \in [Windows -> Nat \ {0}]

VARIABLES
  visible,      \* the tab is
  pending, scheduled,
  frames,       \* calls of flushPending that the browser has been asked for
  stats,        \* of the edges that have an entry: records, and ticks since the last
  pulses,       \* pulses on the way, by upstream and colour
  fatalError,   \* the last poll failed
  seen          \* the records of each edge accepted since its entry last faded

graphVars == <<visible, pending, scheduled, frames, stats, pulses, fatalError, seen>>

Statuses == {"ok", "error"}
NoPulse == [u \in Upstreams |-> [s \in Statuses |-> 0]]

GraphInit ==
  /\ visible = TRUE /\ pending = <<>> /\ scheduled = FALSE /\ frames = 0
  /\ stats = <<>> /\ pulses = NoPulse /\ fatalError = FALSE
  /\ seen = [u \in Upstreams |-> 0]

OpenGraph == Mount("graph") /\ UNCHANGED graphVars

GraphSnapshot == opened = "graph" /\ SnapshotCame /\ UNCHANGED graphVars

\* Seeded fault: a frame for each record.
PushUnguarded(r) ==
  /\ pending' = Append(pending, r)
  /\ seen' = [seen EXCEPT ![r.upstream] = @ + 1]
  /\ scheduled' = TRUE
  /\ frames' = frames + 1

\* The loop over the stream: a hidden tab drops its records.
Push(r) ==
  /\ pending' = Append(pending, r)
  /\ seen' = [seen EXCEPT ![r.upstream] = @ + 1]
  /\ scheduled' = TRUE
  /\ frames' = IF scheduled THEN frames ELSE frames + 1

AcceptRecord ==
  /\ opened = "graph"
  /\ \E r \in Record :
       /\ RecordCame(r)
       /\ IF visible THEN Push(r) ELSE UNCHANGED <<pending, seen, scheduled, frames>>
  /\ UNCHANGED <<visible, stats, pulses, fatalError>>

CountOf(u, s) ==
  Cardinality({i \in DOMAIN pending : pending[i].upstream = u /\ (pending[i].status = "ok") = s})

Touched == {pending[i].upstream : i \in DOMAIN pending}

Stat(u) == IF u \in DOMAIN stats THEN stats[u] ELSE [ok |-> 0, err |-> 0, age |-> 0]

\* The status of the first record of an edge in this frame.
FirstStatus(u) ==
  LET first == CHOOSE i \in DOMAIN pending :
                 /\ pending[i].upstream = u
                 /\ \A j \in 1..i - 1 : pending[j].upstream # u
  IN pending[first].status

\* Seeded fault: a pulse for each record.
PulsePerRecord(u, s) == IF u \in displayed THEN CountOf(u, s = "ok") ELSE 0

\* spawnPulse: not without the layer, which an empty graph does not have, nor
\* without the position of the upstream, which the last render computed.
Pulse(u, s) == IF u \in Touched \cap displayed /\ s = FirstStatus(u) THEN 1 ELSE 0

Flushed ==
  [u \in DOMAIN stats \cup Touched |->
     IF u \notin Touched THEN stats[u]
     ELSE [ok |-> Stat(u).ok + CountOf(u, TRUE),
           err |-> Stat(u).err + CountOf(u, FALSE), age |-> 0]]

\* Seeded fault: the frame leaves its records in the buffer.
flushPendingKeeping ==
  /\ opened = "graph" /\ visible /\ frames > 0
  /\ frames' = frames - 1
  /\ scheduled' = FALSE
  /\ stats' = Flushed
  /\ pulses' = [u \in Upstreams |-> [s \in Statuses |-> pulses[u][s] + Pulse(u, s)]]
  /\ UNCHANGED <<liveVars, visible, pending, fatalError, seen>>

\* The browser draws no frames of a hidden tab.
flushPending ==
  /\ opened = "graph" /\ visible /\ frames > 0
  /\ frames' = frames - 1
  /\ scheduled' = FALSE
  /\ pending' = <<>>
  /\ stats' = Flushed
  /\ pulses' = [u \in Upstreams |-> [s \in Statuses |-> pulses[u][s] + Pulse(u, s)]]
  /\ UNCHANGED <<liveVars, visible, fatalError, seen>>

\* The animation of a pulse is over, or canceled.
PulseEnds(u, s) ==
  /\ pulses[u][s] > 0
  /\ pulses' = [pulses EXCEPT ![u][s] = @ - 1]
  /\ UNCHANGED <<liveVars, visible, pending, scheduled, frames, stats, fatalError, seen>>

\* The tick, under the window that is selected by then: an entry that has faded
\* below the noise floor is removed.
Faded(u, w) == stats[u].age >= Fade[w]

Decay(w) ==
  /\ opened = "graph"
  /\ stats # <<>>
  /\ stats' = [u \in {v \in DOMAIN stats : ~Faded(v, w)} |-> [stats[u] EXCEPT !.age = @ + 1]]
  /\ seen' = [u \in Upstreams |->
                IF u \in DOMAIN stats /\ Faded(u, w) THEN seen[u] - stats[u].ok - stats[u].err
                ELSE seen[u]]
  /\ UNCHANGED <<liveVars, visible, pending, scheduled, frames, pulses, fatalError>>

\* The user hides the tab, or comes back to it.
HideOrReturn ==
  /\ opened = "graph"
  /\ visible' = ~visible
  /\ UNCHANGED <<liveVars, pending, scheduled, frames, stats, pulses, fatalError, seen>>

GraphPoll ==
  /\ opened = "graph"
  /\ \/ (Refresh \/ PollServed) /\ UNCHANGED fatalError
     \/ PollFailed /\ fatalError' = TRUE
  /\ UNCHANGED <<visible, pending, scheduled, frames, stats, pulses, seen>>

\* With its last upstream the graph loses its drawing, and the pulses on it.
ShowRoutes(answer) ==
  /\ opened = "graph"
  /\ PollCame(answer)
  /\ fatalError' = FALSE
  /\ pulses' = IF answer = {} THEN NoPulse ELSE pulses
  /\ UNCHANGED <<visible, pending, scheduled, frames, stats, seen>>

GraphNext ==
  \/ OpenGraph \/ GraphSnapshot \/ AcceptRecord \/ flushPending
  \/ \E u \in Upstreams, s \in Statuses : PulseEnds(u, s)
  \/ (\E w \in Windows : Decay(w)) \/ HideOrReturn \/ GraphPoll
  \/ \E answer \in SUBSET Upstreams : ShowRoutes(answer)

(***************************************************************************)
(* Properties.                                                             *)
(***************************************************************************)
\* "Guard so we schedule exactly one rAF per frame regardless of rps": there is
\* a frame to come whenever a record waits, and never more than one.
OneFrame ==
  /\ frames = IF scheduled THEN 1 ELSE 0
  /\ pending # <<>> => scheduled

\* The statistics of an edge and the records that wait for the frame count each
\* record that the page accepted exactly once, until the entry fades.
EdgesCountRecords ==
  \A u \in Upstreams :
    seen[u] = Stat(u).ok + Stat(u).err + CountOf(u, TRUE) + CountOf(u, FALSE)

\* No record that the page accepted is lost, drawn twice or left without a frame.
GraphIsExact == OneFrame /\ EdgesCountRecords

\* "We only spawn one pulse per edge per frame regardless of how many records
\* land": no step starts two, whatever the stream delivered.
OnePulsePerFrame ==
  [][\A u \in Upstreams :
       pulses'[u]["ok"] + pulses'[u]["error"] <= pulses[u]["ok"] + pulses[u]["error"] + 1]_pulses

\* A record that waits is drawn, unless the tab is hidden.
RecordsAreDrawn == pending # <<>> ~> (pending = <<>> \/ ~visible)
===============================================================================
