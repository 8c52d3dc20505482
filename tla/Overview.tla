------------------------------- MODULE Overview -------------------------------
(***************************************************************************)
(* The chart of the Overview page (pages/Overview.tsx): a fixed number of  *)
(* buckets that move on only when a record arrives.                        *)
(***************************************************************************)
EXTENDS LiveStream

CONSTANTS
  Buckets,      \* their number (30)
  Width,        \* of a bucket (2000 ms), in the unit of the clock
  MaxTime

ASSUME OverviewConstants ==
  /\ Buckets \in Nat \ {0} /\ Width \in Nat \ {0} /\ MaxTime \in Nat

VARIABLES
  now,          \* the clock, from the start of the chart
  buckets,
  arrivals      \* when the records arrived, and whether each was ok

overviewVars == <<now, buckets, arrivals>>

Empty == [i \in 1..Buckets |-> [t |-> (i - Buckets) * Width, ok |-> 0, err |-> 0]]

OverviewInit == now = 0 /\ buckets = Empty /\ arrivals = {}

OpenOverview == Mount("overview") /\ UNCHANGED overviewVars

Last == buckets[Buckets]

Counted(b, r) ==
  IF r.status = "ok" THEN [b EXCEPT !.ok = @ + 1] ELSE [b EXCEPT !.err = @ + 1]

\* Seeded fault: a bucket takes a record that is a full bucket late.
CountOrShiftLate(r) ==
  IF now - Last.t <= Width
  THEN [buckets EXCEPT ![Buckets] = Counted(@, r)]
  ELSE Append(Tail(buckets), Counted([t |-> now, ok |-> 0, err |-> 0], r))

CountOrShift(r) ==
  IF now - Last.t < Width
  THEN [buckets EXCEPT ![Buckets] = Counted(@, r)]
  ELSE Append(Tail(buckets), Counted([t |-> now, ok |-> 0, err |-> 0], r))

\* The loop over the stream.
ChartSnapshot == opened = "overview" /\ SnapshotCame /\ UNCHANGED overviewVars

ChartRecord ==
  /\ opened = "overview"
  /\ \E r \in Record :
       /\ RecordCame(r)
       /\ buckets' = CountOrShift(r)
       /\ arrivals' = arrivals \cup {[n |-> r.n, at |-> now, ok |-> r.status = "ok"]}
  /\ UNCHANGED now

\* The counters of the poll; a poll that failed changes nothing.
OverviewPoll ==
  /\ opened = "overview"
  /\ Refresh \/ PollServed \/ PollFailed
  /\ UNCHANGED overviewVars

ShowCounters(answer) ==
  opened = "overview" /\ PollCame(answer) /\ UNCHANGED overviewVars

Clock ==
  /\ opened = "overview"
  /\ now < MaxTime
  /\ now' = now + 1
  /\ UNCHANGED <<liveVars, buckets, arrivals>>

OverviewNext ==
  OpenOverview \/ ChartSnapshot \/ ChartRecord \/ OverviewPoll \/ Clock
  \/ \E answer \in SUBSET Upstreams : ShowCounters(answer)

(***************************************************************************)
(* Properties.                                                             *)
(***************************************************************************)
\* The chart is the histogram of the arrivals: a bucket counts the records that
\* arrived within its two seconds, ok or not, and whatever arrived since the
\* first bucket is in one.
ChartIsHistogram ==
  LET In(b, ok) == {a \in arrivals : a.ok = ok /\ a.at \in b.t..b.t + Width - 1} IN
  /\ \A i \in 1..Buckets :
       /\ buckets[i].ok = Cardinality(In(buckets[i], TRUE))
       /\ buckets[i].err = Cardinality(In(buckets[i], FALSE))
  /\ \A a \in arrivals : a.at >= buckets[1].t =>
       \E i \in 1..Buckets : a.at \in buckets[i].t..buckets[i].t + Width - 1
===============================================================================
