-------------------------------- MODULE Traffic --------------------------------
(***************************************************************************)
(* The Traffic page (pages/Traffic.tsx): a table of the newest records     *)
(* first.  A list request fills it at first, then the snapshot of the      *)
(* stream replaces it, then each record of the stream goes on top.         *)
(***************************************************************************)
EXTENDS LiveStream

CONSTANTS
  ListLimit,      \* records of the first list (200)
  TableMax        \* rows of the table (500)

ASSUME TrafficConstants ==
  /\ {ListLimit, TableMax} \subseteq Nat
  /\ ListLimit <= TableMax /\ SnapshotLimit <= TableMax

VARIABLES
  records, paused,
  upstreamFilter,   \* an upstream, or "" for all
  list,             \* the request for the first list: "none", "asked", "served"
  listed,           \* the records it was served
  touched           \* since the snapshot came, someone paused or cleared the table,
                    \* or the list came late and replaced it

trafficVars == <<records, paused, upstreamFilter, list, listed, touched>>

TrafficInit ==
  /\ records = <<>> /\ paused = FALSE /\ upstreamFilter = ""
  /\ list = "none" /\ listed = <<>> /\ touched = FALSE

OpenTraffic ==
  /\ Mount("traffic")
  /\ list' = "asked"
  /\ UNCHANGED <<records, paused, upstreamFilter, listed, touched>>

ListServed ==
  /\ list = "asked"
  /\ list' = "served"
  /\ listed' = Recent(ListLimit)
  /\ UNCHANGED <<liveVars, records, paused, upstreamFilter, touched>>

\* It replaces the table, also a paused one, whatever the stream has added.
ListCame ==
  /\ list = "served"
  /\ list' = "none"
  /\ records' = listed
  /\ listed' = <<>>
  /\ touched' = (touched \/ stream.at = "open")
  /\ UNCHANGED <<liveVars, paused, upstreamFilter>>

ListFailed ==
  /\ list # "none"
  /\ outages < MaxOutages
  /\ list' = "none"
  /\ listed' = <<>>
  /\ outages' = outages + 1
  /\ UNCHANGED <<server, fetched, changes, records, paused, upstreamFilter,
                 touched>>

\* The loop over the stream.  While the table is paused its events are lost.
TakeSnapshot ==
  /\ opened = "traffic"
  /\ records' = IF paused THEN records ELSE stream.snapshot
  /\ touched' = paused
  /\ SnapshotCame
  /\ UNCHANGED <<paused, upstreamFilter, list, listed>>

\* Seeded fault: the slice keeps the oldest rows.
OnTopOfOldest(r) ==
  LET rows == <<r>> \o records IN
  SubSeq(rows, IF Len(rows) > TableMax THEN 2 ELSE 1, Len(rows))

OnTop(r) ==
  LET rows == <<r>> \o records IN
  SubSeq(rows, 1, IF Len(rows) > TableMax THEN TableMax ELSE Len(rows))

TakeRecord ==
  /\ opened = "traffic"
  /\ \E r \in Record :
       /\ RecordCame(r)
       /\ records' = IF paused THEN records ELSE OnTop(r)
  /\ UNCHANGED <<paused, upstreamFilter, list, listed, touched>>

Pause ==
  /\ opened = "traffic"
  /\ paused' = ~paused
  /\ touched' = TRUE
  /\ UNCHANGED <<liveVars, records, upstreamFilter, list, listed>>

Clear ==
  /\ opened = "traffic"
  /\ records' = <<>>
  /\ touched' = TRUE
  /\ UNCHANGED <<liveVars, paused, upstreamFilter, list, listed>>

\* The filter offers the upstreams of the table; it stays when they are gone.
UniqueUpstreams == {records[i].upstream : i \in DOMAIN records}

Filter(u) ==
  /\ opened = "traffic"
  /\ u \in UniqueUpstreams \cup {""}
  /\ upstreamFilter' = u
  /\ UNCHANGED <<liveVars, records, paused, list, listed, touched>>

Filtered ==
  SelectSeq(records, LAMBDA r : upstreamFilter \in {"", r.upstream})

TrafficNext ==
  \/ OpenTraffic
  \/ ListServed \/ ListCame \/ ListFailed
  \/ TakeSnapshot \/ TakeRecord
  \/ Pause \/ Clear \/ \E u \in Upstreams \cup {""} : Filter(u)

(***************************************************************************)
(* Properties.                                                             *)
(***************************************************************************)
Numbers(s) == {s[i].n : i \in DOMAIN s}

\* The table of a connected stream that nobody touched misses no more records
\* of its subscription than the server counted as dropped for subscribers: the
\* rows, the snapshot and the queue hold all others, unless newer rows pushed
\* them off the end.  A record between the subscription and the snapshot is in
\* both (server.py: "so we cannot miss records").
TableIsComplete ==
  (opened = "traffic" /\ stream.at \in {"snapshot", "open"} /\ ~touched)
    => LET there == Numbers(stream.snapshot) \cup Numbers(stream.queue) \cup
                      (IF stream.at = "open" THEN Numbers(records) ELSE {})
           due == {n \in stream.since + 1..Len(log) :
                     Len(records) < TableMax
                       \/ \E m \in Numbers(records) : m < n} IN
       Cardinality(due \ there) <= dropped - stream.lossy
===============================================================================
