------------------------------ MODULE LiveStream ------------------------------
(***************************************************************************)
(* What the live pages of the dashboard (Overview, Traffic, Graph) read:   *)
(* the stream of traffic records, through subscribeTraffic of api/sse.ts,  *)
(* and a poll that repeats.  This is one visit of one page: to leave it    *)
(* aborts its stream, makes it ignore the answers to come and forgets its  *)
(* state, so that the next visit starts like the first.                    *)
(*                                                                         *)
(* A record is its number, its upstream and its status.  The text of the   *)
(* stream, cut into chunks anywhere, is the sequence of its events: the    *)
(* parser keeps a partial block until its end arrives, and skips           *)
(* heartbeats and malformed data.                                          *)
(***************************************************************************)
EXTENDS Integers, Sequences, FiniteSets

CONSTANTS
  Upstreams,
  RegisteredFirst,  \* those there are at the start
  Kinds,          \* [upstream, status] of a record, status "ok" or any other
  SnapshotLimit,  \* records of the snapshot a stream starts with (100)
  QueueMax,       \* records that wait for one subscriber (256)
  MaxRecords, MaxChanges, MaxPolls, MaxOutages

LivePages == {"overview", "traffic", "graph"}

ASSUME LiveStreamConstants ==
  /\ RegisteredFirst \subseteq Upstreams
  /\ Kinds \subseteq [upstream : Upstreams, status : {"ok", "error"}]
  /\ {SnapshotLimit, QueueMax, MaxRecords, MaxChanges, MaxOutages} \subseteq Nat
  /\ MaxPolls \in Nat \ {0}

VARIABLES
  log,        \* the recorder's records, oldest first
  topology,   \* the upstreams registered
  dropped,    \* dropped_for_subscribers
  opened,     \* the page mounted, or "none"
  stream,     \* of this page: how far it is, its snapshot and the queue of its
              \* subscriber; since and lossy are log and dropped at the start
  polls,      \* polls in flight: those that wait, and the answers of the others,
              \* of which equal ones are one
  displayed,  \* the upstreams that the last poll returned
  changes, outages

server == <<log, topology, dropped>>
fetched == <<opened, stream, polls, displayed>>
counters == <<changes, outages>>
liveVars == <<server, fetched, counters>>

Record ==
  {[n |-> n, upstream |-> k.upstream, status |-> k.status] :
     n \in 1..MaxRecords, k \in Kinds}

NoStream == [at |-> "none", snapshot |-> <<>>, queue |-> <<>>, since |-> 0, lossy |-> 0]
NoPolls == [waiting |-> 0, answers |-> {}]
Connecting == [NoStream EXCEPT !.at = "connecting"]

LiveInit ==
  /\ log = <<>> /\ topology = RegisteredFirst /\ dropped = 0
  /\ opened = "none" /\ stream = NoStream /\ polls = NoPolls /\ displayed = {}
  /\ changes = 0 /\ outages = 0

(***************************************************************************)
(* The server.                                                             *)
(***************************************************************************)
\* TrafficRecorder.recent: the newest records first.
Recent(limit) ==
  [i \in 1..(IF Len(log) < limit THEN Len(log) ELSE limit) |-> log[Len(log) + 1 - i]]

Subscribed == stream.at \in {"subscribed", "snapshot", "open"}

\* TrafficRecorder.record: a full queue loses the record for its subscriber.
NewRecord(k) ==
  LET r == [n |-> Len(log) + 1, upstream |-> k.upstream, status |-> k.status]
      full == Len(stream.queue) >= QueueMax IN
  /\ Len(log) < MaxRecords
  /\ log' = Append(log, r)
  /\ stream' = IF Subscribed /\ ~full THEN [stream EXCEPT !.queue = Append(@, r)]
               ELSE stream
  /\ dropped' = IF Subscribed /\ full THEN dropped + 1 ELSE dropped
  /\ UNCHANGED <<topology, opened, polls, displayed, counters>>

\* Someone registers or removes an upstream.
ChangeTopology(u) ==
  /\ changes < MaxChanges
  /\ topology' = IF u \in topology THEN topology \ {u} ELSE topology \cup {u}
  /\ changes' = changes + 1
  /\ UNCHANGED <<log, dropped, fetched, outages>>

\* The handler of the stream registers its queue before the body starts ...
Subscribe ==
  /\ stream.at = "connecting"
  /\ stream' = [stream EXCEPT !.at = "subscribed", !.since = Len(log), !.lossy = dropped]
  /\ UNCHANGED <<server, opened, polls, displayed, counters>>

\* ... and the body sends the latest records first.
SendSnapshot ==
  /\ stream.at = "subscribed"
  /\ stream' = [stream EXCEPT !.at = "snapshot", !.snapshot = Recent(SnapshotLimit)]
  /\ UNCHANGED <<server, opened, polls, displayed, counters>>

(***************************************************************************)
(* subscribeTraffic.  No page connects again when it throws or returns.    *)
(***************************************************************************)
StreamEnds ==
  /\ stream.at \notin {"none", "over"}
  /\ outages < MaxOutages
  /\ stream' = [NoStream EXCEPT !.at = "over"]
  /\ outages' = outages + 1
  /\ UNCHANGED <<server, opened, polls, displayed, changes>>

\* The next event is the snapshot, or the oldest record of the queue.
SnapshotCame ==
  /\ stream.at = "snapshot"
  /\ stream' = [stream EXCEPT !.at = "open", !.snapshot = <<>>]
  /\ UNCHANGED <<server, opened, polls, displayed, counters>>

RecordCame(r) ==
  /\ stream.at = "open"
  /\ stream.queue # <<>>
  /\ r = Head(stream.queue)
  /\ stream' = [stream EXCEPT !.queue = Tail(@)]
  /\ UNCHANGED <<server, opened, polls, displayed, counters>>

(***************************************************************************)
(* The poll: at once, then every five seconds, whatever became of the      *)
(* earlier ones; two requests, of which the slower one completes it.       *)
(***************************************************************************)
Refresh ==
  /\ opened \in {"overview", "graph"}
  /\ polls.waiting + Cardinality(polls.answers) < MaxPolls
  /\ polls' = [polls EXCEPT !.waiting = @ + 1]
  /\ UNCHANGED <<server, opened, stream, displayed, counters>>

PollServed ==
  /\ polls.waiting > 0
  /\ polls' = [waiting |-> polls.waiting - 1, answers |-> polls.answers \cup {topology}]
  /\ UNCHANGED <<server, opened, stream, displayed, counters>>

\* Seeded fault: what the page shows already is kept.
PollCameOnce(answer) ==
  /\ answer \in polls.answers
  /\ polls' = [polls EXCEPT !.answers = @ \ {answer}]
  /\ displayed' = IF displayed = {} THEN answer ELSE displayed
  /\ UNCHANGED <<server, opened, stream, counters>>

\* Answers come in any order.
PollCame(answer) ==
  /\ answer \in polls.answers
  /\ polls' = [polls EXCEPT !.answers = @ \ {answer}]
  /\ displayed' = answer
  /\ UNCHANGED <<server, opened, stream, counters>>

PollFailed ==
  /\ polls.waiting > 0
  /\ outages < MaxOutages
  /\ polls' = [polls EXCEPT !.waiting = @ - 1]
  /\ outages' = outages + 1
  /\ UNCHANGED <<server, opened, stream, displayed, changes>>

(***************************************************************************)
(* The effects of the page that is opened.                                 *)
(***************************************************************************)
Mount(p) ==
  /\ opened = "none"
  /\ opened' = p
  /\ stream' = Connecting
  /\ polls' = [NoPolls EXCEPT !.waiting = IF p = "traffic" THEN 0 ELSE 1]
  /\ UNCHANGED <<server, displayed, counters>>

LiveTypeOK ==
  /\ log \in Seq(Record) /\ Len(log) <= MaxRecords
  /\ topology \in SUBSET Upstreams
  /\ dropped \in Nat
  /\ opened \in LivePages \cup {"none"}
  /\ stream \in [at : {"none", "connecting", "subscribed", "snapshot", "open", "over"},
                 snapshot : Seq(Record), queue : Seq(Record), since : Nat, lossy : Nat]
  /\ polls \in [waiting : 0..MaxPolls, answers : SUBSET SUBSET Upstreams]
  /\ displayed \in SUBSET Upstreams
  /\ {changes, outages} \subseteq Nat
===============================================================================
