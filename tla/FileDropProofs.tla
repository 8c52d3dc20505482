--------------------------- MODULE FileDropProofs ----------------------------
(***************************************************************************)
(* Whatever the number of upstreams, files and calls: a registration is    *)
(* lost only to a configuration that was made before it was applied, and a *)
(* file that the watcher takes for done is in force.                       *)
(***************************************************************************)
EXTENDS FileDrop, SequenceTheorems, TLAPS

Typing ==
  /\ upstreams \in Config
  /\ files \in [Names -> File \cup {NoFile}]
  /\ writes \in 0..MaxWrites
  /\ known \in [Names -> 0..MaxWrites]
  /\ watcher \in {"idle", "scanning", "removing", "adding", "dead"}
  /\ present \in [Names -> 0..MaxWrites]
  /\ gone \subseteq Names /\ todo \subseteq Names
  /\ turn \in Names \cup {NoName}
  /\ pc \in [Calls -> {"new", "applying", "done"}]
  /\ about \in [Actors -> SUBSET Names]
  /\ candidate \in [Actors -> Config]
  /\ restarts \in 0..MaxRestarts
  /\ missed \in [Actors -> SUBSET Names]
  /\ touched \subseteq Names

\* An actor waits in apply() at most once, and only an actor that is there is
\* about a name.
Queued ==
  /\ queue \in Seq(Actors)
  /\ \A i \in 1..Len(queue) : about[queue[i]] # {}
  /\ \A i, j \in 1..Len(queue) : queue[i] = queue[j] => i = j

Outside ==
  /\ \A c \in Calls : pc[c] # "applying" => about[c] = {}
  /\ watcher \in {"idle", "scanning", "dead"} => about[Watcher] = {}

\* What waits differs from what is in force in the names it is about, and in
\* those that others have changed in the meantime.
Overlap ==
  \A a \in Actors, n \in Names :
    about[a] # {} /\ candidate[a][n] # upstreams[n] => n \in about[a] \cup missed[a]

\* Times of modification that were seen are of the past.
Past ==
  \A s \in Names :
    /\ known[s] <= writes /\ present[s] <= writes
    /\ files[s] # NoFile => files[s].mtime <= writes

\* The file whose definition waits, as long as it is not written again.
Reading ==
  /\ watcher = "adding" => \A s \in Names :
       turn = s /\ files[s] # NoFile /\ files[s].mtime = present[s] =>
         about[Watcher] = {files[s].name} /\ candidate[Watcher][files[s].name] = files[s].def
  /\ watcher = "removing" => turn \in Names /\ known[turn] = 0

Inv == Typing /\ Queued /\ Outside /\ Overlap /\ Past /\ Reading /\ DoneFilesAreInForce

LEMMA WatcherActs == Watcher \in Actors /\ Calls \subseteq Actors /\ NoDef \notin Defs
  BY FileDropAssumption DEF Actors

\* An actor that is about nothing enters apply() about some names.
LEMMA SubmitQueued ==
  ASSUME Typing, Queued, NEW a \in Actors, about[a] = {},
         NEW names \in SUBSET Names, names # {}, NEW k, Submit(a, names, k)
  PROVE  Queued'
  <1>1. /\ queue' \in Seq(Actors) /\ Len(queue') = Len(queue) + 1 /\ Len(queue) \in Nat
        /\ \A i \in 1..Len(queue) : queue'[i] = queue[i]
        /\ queue'[Len(queue) + 1] = a
    BY DEF Submit, Queued
  <1>2. \A i \in 1..Len(queue) : queue[i] \in Actors /\ queue[i] # a
    BY ElementOfSeq DEF Queued
  <1>3. \A b \in Actors : about'[b] = IF b = a THEN names ELSE about[b]
    BY DEF Typing, Submit
  <1>4. \A i \in 1..Len(queue') : i \in 1..Len(queue) \/ i = Len(queue) + 1
    BY <1>1
  <1>5. \A i \in 1..Len(queue') : about'[queue'[i]] # {}
    BY <1>1, <1>2, <1>3, <1>4 DEF Queued
  <1>6. ASSUME NEW i \in 1..Len(queue'), NEW j \in 1..Len(queue'), queue'[i] = queue'[j]
        PROVE  i = j
    BY <1>1, <1>2, <1>4, <1>6 DEF Queued
  <1> QED
    BY <1>1, <1>5, <1>6 DEF Queued

LEMMA SubmitTyping ==
  ASSUME Typing, NEW a \in Actors, NEW names \in SUBSET Names, NEW k \in Config,
         Submit(a, names, k)
  PROVE  /\ about' \in [Actors -> SUBSET Names]
         /\ candidate' \in [Actors -> Config]
         /\ missed' \in [Actors -> SUBSET Names]
  BY DEF Typing, Submit

\* What it submits is what is in force but for those names.
LEMMA SubmitOverlap ==
  ASSUME Typing, Overlap, NEW a \in Actors, NEW names \in SUBSET Names,
         NEW d \in Defs \cup {NoDef}, Submit(a, names, With(names, d)), UNCHANGED upstreams
  PROVE  Overlap'
  <1>1. \A n \in Names : With(names, d)[n] # upstreams[n] => n \in names
    BY DEF With
  <1> QED
    BY <1>1 DEF Overlap, Typing, Submit

LEMMA WithConfig ==
  ASSUME Typing, NEW names \in SUBSET Names, NEW d \in Defs \cup {NoDef}
  PROVE  With(names, d) \in Config
  BY DEF With, Typing, Config

\* The actor that has the lock leaves.
LEMMA LeaveQueued ==
  ASSUME Typing, Queued, NEW a \in Actors, Leave(a)
  PROVE  /\ Queued'
         /\ queue # <<>> /\ a = Head(queue) /\ about[a] # {}
  <1>1. queue # <<>> /\ a = Head(queue) /\ a = queue[1] /\ Len(queue) \in Nat /\ Len(queue) >= 1
    BY EmptySeq DEF Leave, Queued
  <1>2. /\ queue' \in Seq(Actors) /\ Len(queue') = Len(queue) - 1
        /\ \A i \in 1..Len(queue') : queue'[i] = queue[i + 1]
    BY <1>1, HeadTailProperties DEF Leave, Queued
  <1>3. \A i \in 1..Len(queue') : i + 1 \in 1..Len(queue) /\ i + 1 # 1
    BY <1>1, <1>2
  <1>4. \A i \in 1..Len(queue) : queue[i] \in Actors
    BY ElementOfSeq DEF Queued
  <1>5. \A b \in Actors : b # a => about'[b] = about[b]
    BY DEF Typing, Leave
  <1>6. \A i \in 1..Len(queue') : queue[i + 1] # a
    BY <1>1, <1>3 DEF Queued
  <1>7. \A i \in 1..Len(queue') : about'[queue'[i]] # {}
    <2> SUFFICES ASSUME NEW i \in 1..Len(queue') PROVE about'[queue'[i]] # {}
      OBVIOUS
    <2>1. i + 1 \in 1..Len(queue) /\ queue'[i] = queue[i + 1]
      BY <1>2, <1>3
    <2>2. queue[i + 1] \in Actors /\ queue[i + 1] # a /\ about[queue[i + 1]] # {}
      BY <2>1, <1>4, <1>6 DEF Queued
    <2> QED
      BY <2>1, <2>2, <1>5
  <1>8. ASSUME NEW i \in 1..Len(queue'), NEW j \in 1..Len(queue'), queue'[i] = queue'[j]
        PROVE  i = j
    <2>1. queue[i + 1] = queue[j + 1] /\ i \in Int /\ j \in Int
      BY <1>2, <1>8
    <2>2. i + 1 = j + 1
      BY <2>1, <1>3 DEF Queued
    <2> QED
      BY <2>1, <2>2
  <1>9. about[a] # {}
    BY <1>1 DEF Queued
  <1> QED
    BY <1>1, <1>2, <1>7, <1>8, <1>9 DEF Queued

LEMMA LeaveOutside ==
  ASSUME Typing, Outside, NEW a \in Actors, Leave(a)
  PROVE  /\ Outside'
         /\ watcher' \in {"idle", "scanning", "removing", "adding", "dead"}
         /\ turn' \in Names \cup {NoName}
         /\ pc' \in [Calls -> {"new", "applying", "done"}]
         /\ about' \in [Actors -> SUBSET Names]
         /\ candidate' \in [Actors -> Config]
  <1>1. about' \in [Actors -> SUBSET Names] /\ \A b \in Actors :
          about'[b] = IF b = a THEN {} ELSE about[b]
    BY DEF Typing, Leave
  <1>2. candidate' \in [Actors -> Config]
    BY DEF Typing, Leave, Empty, Config
  <1>3. CASE a = Watcher
    BY <1>1, <1>2, <1>3, WatcherActs DEF Typing, Leave, Outside
  <1>4. CASE a # Watcher
    <2>1. /\ a \in Calls /\ UNCHANGED <<watcher, turn>>
          /\ pc' = [pc EXCEPT ![a] = "done"]
      BY <1>4 DEF Leave, Actors, Ends
    <2>2. pc' \in [Calls -> {"new", "applying", "done"}]
      BY <2>1 DEF Typing
    <2>3. \A c \in Calls : pc'[c] # "applying" => about'[c] = {}
      BY <1>1, <2>1, WatcherActs DEF Typing, Outside
    <2>4. watcher' \in {"idle", "scanning", "dead"} => about'[Watcher] = {}
      BY <1>1, <1>4, <2>1, WatcherActs DEF Outside
    <2> QED
      BY <1>1, <1>2, <2>1, <2>2, <2>3, <2>4 DEF Typing, Outside
  <1> QED
    BY <1>3, <1>4

(***************************************************************************)
(* Each action keeps the invariant.                                        *)
(***************************************************************************)
LEMMA InitInv == Init => Inv
  <1> SUFFICES ASSUME Init PROVE Inv
    OBVIOUS
  <1>1. Typing
    BY FileDropAssumption DEF Init, Typing, Config, Empty
  <1>2. Queued /\ Outside
    BY WatcherActs DEF Init, Queued, Outside
  <1>3. Overlap /\ Past /\ Reading /\ DoneFilesAreInForce
    BY DEF Init, Overlap, Past, Reading, DoneFilesAreInForce
  <1> QED
    BY <1>1, <1>2, <1>3 DEF Inv

LEMMA WriteInv ==
  ASSUME Inv, NEW s \in Names, NEW n \in Names, NEW d \in Contents, Write(s, n, d)
  PROVE  Inv'
  <1> DEFINE f == [mtime |-> writes + 1, name |-> n, def |-> d]
  <1>1. writes + 1 \in 1..MaxWrites /\ writes \in Nat /\ writes' = writes + 1
    BY FileDropAssumption DEF Inv, Typing, Write
  <1>2. f \in File /\ f.mtime = writes + 1
    BY <1>1 DEF File
  <1> HIDE DEF f
  <1>3. \A t \in Names : files'[t] = IF t = s THEN f ELSE files[t]
    BY DEF Inv, Typing, Write, f
  <1>4. Typing'
    BY <1>1, <1>2 DEF Inv, Typing, Write, scan, calls, history, f
  <1>5. Queued' /\ Outside' /\ Overlap'
    BY DEF Inv, Write, Queued, Outside, Overlap, scan, calls, history
  <1>6. \A t \in Names : known[t] \in Nat /\ present[t] \in Nat /\ known[t] <= writes
                         /\ present[t] <= writes /\ (files[t] # NoFile => files[t].mtime <= writes)
    BY FileDropAssumption DEF Inv, Typing, Past
  <1>7. \A t \in Names : files[t] # NoFile => files[t].mtime \in Nat
    BY DEF Inv, Typing, File
  <1>8. Past'
    BY <1>1, <1>2, <1>3, <1>6, <1>7 DEF Past, Write, scan
  <1>9. \A t \in Names : files'[t] # NoFile
                         /\ (files'[t].mtime = present[t] \/ files'[t].mtime = known[t])
                         => files'[t] = files[t]
    BY <1>1, <1>2, <1>3, <1>6
  <1>10. Reading'
    BY <1>9 DEF Inv, Reading, Write, scan, calls
  <1>11. DoneFilesAreInForce'
    BY <1>9 DEF Inv, DoneFilesAreInForce, Write, history
  <1> QED
    BY <1>4, <1>5, <1>8, <1>10, <1>11 DEF Inv

LEMMA DeleteInv ==
  ASSUME Inv, NEW s \in Names, Delete(s)
  PROVE  Inv'
  <1>1. \A t \in Names : files'[t] = IF t = s THEN NoFile ELSE files[t]
    BY DEF Inv, Typing, Delete
  <1>2. Typing'
    BY DEF Inv, Typing, Delete, scan, calls, history
  <1>3. Queued' /\ Outside' /\ Overlap'
    BY DEF Inv, Delete, Queued, Outside, Overlap, scan, calls, history
  <1>4. Past' /\ Reading' /\ DoneFilesAreInForce'
    BY <1>1 DEF Inv, Delete, Past, Reading, DoneFilesAreInForce, scan, calls, history
  <1> QED
    BY <1>2, <1>3, <1>4 DEF Inv

\* A call enters apply() or is refused.
LEMMA CallSubmits ==
  ASSUME Inv, NEW c \in Calls, NEW names \in SUBSET Names, names # {},
         NEW d \in Defs \cup {NoDef}, pc[c] = "new",
         \/ Submit(c, names, With(names, d)) /\ pc' = [pc EXCEPT ![c] = "applying"]
         \/ Ends(c) /\ UNCHANGED <<about, candidate, missed, queue>>,
         UNCHANGED <<upstreams, directory, known, scan, restarts, touched>>
  PROVE  Inv'
  <1>1. c \in Actors /\ c # Watcher /\ about[c] = {} /\ With(names, d) \in Config
    BY WatcherActs, WithConfig, FileDropAssumption DEF Inv, Outside
  <1>2. about'[Watcher] = about[Watcher] /\ candidate'[Watcher] = candidate[Watcher]
    BY <1>1, WatcherActs DEF Inv, Typing, Submit
  <1>3. Past' /\ Reading' /\ DoneFilesAreInForce'
    BY <1>2 DEF Inv, Past, Reading, DoneFilesAreInForce, directory, scan
  <1>4. CASE Submit(c, names, With(names, d)) /\ pc' = [pc EXCEPT ![c] = "applying"]
    <2>1. Typing'
      BY <1>1, <1>4, SubmitTyping DEF Inv, Typing, directory, scan
    <2>2. Queued' /\ Overlap'
      BY <1>1, <1>4, SubmitQueued, SubmitOverlap DEF Inv
    <2>3. Outside'
      BY <1>1, <1>2, <1>4, WatcherActs DEF Inv, Typing, Outside, Submit, scan
    <2> QED
      BY <1>3, <2>1, <2>2, <2>3 DEF Inv
  <1>5. CASE Ends(c) /\ UNCHANGED <<about, candidate, missed, queue>>
    <2>1. Typing' /\ Outside'
      BY <1>1, <1>5 DEF Inv, Typing, Outside, Ends, directory, scan
    <2>2. Queued' /\ Overlap'
      BY <1>5 DEF Inv, Queued, Overlap
    <2> QED
      BY <1>3, <2>1, <2>2 DEF Inv
  <1> QED
    BY <1>4, <1>5

LEMMA AddInv ==
  ASSUME Inv, NEW c \in Calls, NEW names \in SUBSET Names, names # {}, NEW d \in Defs,
         NEW replace \in BOOLEAN, Add(c, names, d, replace)
  PROVE  Inv'
  BY CallSubmits DEF Add

LEMMA RemoveInv ==
  ASSUME Inv, NEW c \in Calls, NEW n \in Names, Remove(c, n)
  PROVE  Inv'
  <1>1. {n} \in SUBSET Names /\ {n} # {}
    OBVIOUS
  <1> QED
    BY <1>1, CallSubmits DEF Remove

LEMMA ScanInv ==
  ASSUME Inv, Scan
  PROVE  Inv'
  <1>1. present' = [t \in Names |-> IF files[t] = NoFile THEN 0 ELSE files[t].mtime]
    BY DEF Scan
  <1>2. \A t \in Names : files[t] # NoFile => files[t].mtime \in 1..MaxWrites
    BY DEF Inv, Typing, File
  <1>3. present' \in [Names -> 0..MaxWrites] /\ \A t \in Names : present'[t] <= writes
    BY <1>1, <1>2, FileDropAssumption DEF Inv, Typing, Past, Scan
  <1>4. Typing'
    BY <1>3 DEF Inv, Typing, Scan, directory, calls, history
  <1>5. Queued' /\ Outside' /\ Overlap'
    BY DEF Inv, Scan, Queued, Outside, Overlap, calls, history
  <1>6. Past' /\ Reading' /\ DoneFilesAreInForce'
    BY <1>3 DEF Inv, Scan, Past, Reading, DoneFilesAreInForce, directory, history
  <1> QED
    BY <1>4, <1>5, <1>6 DEF Inv

LEMMA ScanEndsInv ==
  ASSUME Inv, ScanEnds
  PROVE  Inv'
  <1>1. \A t \in Names : present'[t] = 0
    BY DEF ScanEnds
  <1>2. Typing'
    BY FileDropAssumption DEF Inv, Typing, ScanEnds, directory, calls, history
  <1>3. Queued' /\ Outside' /\ Overlap'
    BY DEF Inv, ScanEnds, Queued, Outside, Overlap, calls, history
  <1>4. Past' /\ Reading' /\ DoneFilesAreInForce'
    BY <1>1 DEF Inv, Typing, ScanEnds, Past, Reading, DoneFilesAreInForce, directory, history
  <1> QED
    BY <1>2, <1>3, <1>4 DEF Inv

LEMMA RemoveNextInv ==
  ASSUME Inv, NEW s \in Names, RemoveNext(s)
  PROVE  Inv'
  <1> DEFINE k == With({s}, NoDef)
  <1>1. /\ Watcher \in Actors /\ about[Watcher] = {} /\ {s} \in SUBSET Names /\ {s} # {}
        /\ k \in Config
    BY WatcherActs, WithConfig DEF Inv, Outside, RemoveNext
  <1>2. \A t \in Names : known'[t] = IF t = s THEN 0 ELSE known[t]
    BY DEF Inv, Typing, RemoveNext
  <1>3. known' \in [Names -> 0..MaxWrites]
    BY FileDropAssumption DEF Inv, Typing, RemoveNext
  <1>4. Past'
    BY <1>2 DEF Inv, Typing, Past, RemoveNext, directory
  <1>5. \A t \in Names : files[t] # NoFile => files[t].mtime # 0
    BY DEF Inv, Typing, File
  <1>6. DoneFilesAreInForce'
    BY <1>2, <1>5 DEF Inv, DoneFilesAreInForce, RemoveNext, directory
  <1> HIDE DEF k
  <1>7. CASE Submit(Watcher, {s}, k) /\ watcher' = "removing" /\ turn' = s
    <2>1. Typing'
      BY <1>1, <1>3, <1>7, SubmitTyping DEF Inv, Typing, RemoveNext, directory
    <2>2. Queued'
      BY <1>1, <1>7, SubmitQueued DEF Inv
    <2>3. Overlap'
      BY <1>1, <1>7, SubmitOverlap DEF Inv, RemoveNext, k
    <2>4. Outside'
      BY <1>7, WatcherActs, FileDropAssumption
         DEF Inv, Typing, Outside, Submit, RemoveNext
    <2>5. Reading'
      BY <1>2, <1>7 DEF Reading
    <2> QED
      BY <1>4, <1>6, <2>1, <2>2, <2>3, <2>4, <2>5 DEF Inv
  <1>8. CASE UNCHANGED <<watcher, turn, about, candidate, missed, queue>>
    <2>1. Typing'
      BY <1>3, <1>8 DEF Inv, Typing, RemoveNext, directory
    <2>2. Queued' /\ Outside' /\ Overlap'
      BY <1>8 DEF Inv, RemoveNext, Queued, Outside, Overlap
    <2>3. Reading'
      BY <1>8 DEF Reading, RemoveNext
    <2> QED
      BY <1>4, <1>6, <2>1, <2>2, <2>3 DEF Inv
  <1> QED
    BY <1>7, <1>8 DEF RemoveNext, k

LEMMA AddNextInv ==
  ASSUME Inv, NEW s \in Names, AddNext(s)
  PROVE  Inv'
  <1> DEFINE n == files[s].name
             d == files[s].def
  <1>1. Past' /\ DoneFilesAreInForce'
    BY DEF Inv, Past, DoneFilesAreInForce, AddNext, directory
  <1>2. CASE /\ files[s] # NoFile /\ Submit(Watcher, {n}, With({n}, d))
             /\ watcher' = "adding" /\ turn' = s
    <2>1. /\ n \in Names /\ d \in Defs \cup {NoDef} /\ {n} \in SUBSET Names /\ {n} # {}
          /\ Watcher \in Actors /\ about[Watcher] = {}
      BY <1>2, WatcherActs DEF Inv, Typing, File, Contents, Outside, AddNext, MayRead, IsGarbled
    <2> HIDE DEF n, d
    <2>2. With({n}, d) \in Config /\ With({n}, d)[n] = d
      BY <2>1, WithConfig DEF Inv, With
    <2>3. Typing'
      BY <1>2, <2>1, <2>2, SubmitTyping DEF Inv, Typing, AddNext, directory
    <2>4. Queued'
      BY <1>2, <2>1, SubmitQueued DEF Inv
    <2>5. Overlap'
      BY <1>2, <2>1, SubmitOverlap DEF Inv, AddNext
    <2>6. Outside'
      BY <1>2, <2>1, WatcherActs, FileDropAssumption
         DEF Inv, Typing, Outside, Submit, AddNext
    <2>7. about'[Watcher] = {n} /\ candidate'[Watcher][n] = d
      BY <1>2, <2>1, <2>2 DEF Inv, Typing, Submit
    <2>8. Reading'
      BY <1>2, <2>7 DEF Reading, AddNext, directory, n, d
    <2> QED
      BY <1>1, <2>3, <2>4, <2>5, <2>6, <2>8 DEF Inv
  <1>3. CASE UNCHANGED <<watcher, turn, about, candidate, missed, queue>>
    <2>1. Typing'
      BY <1>3 DEF Inv, Typing, AddNext, directory
    <2>2. Queued' /\ Outside' /\ Overlap'
      BY <1>3 DEF Inv, AddNext, Queued, Outside, Overlap
    <2>3. Reading'
      BY <1>3 DEF Inv, Reading, AddNext, directory
    <2> QED
      BY <1>1, <2>1, <2>2, <2>3 DEF Inv
  <1> QED
    BY <1>2, <1>3 DEF AddNext

LEMMA ReadRaisesInv ==
  ASSUME Inv, NEW s \in Names, ReadRaises(s)
  PROVE  Inv'
  <1>1. (\A t \in Names : present'[t] = 0) /\ watcher' = "dead"
    BY DEF ReadRaises
  <1>2. Typing'
    BY FileDropAssumption DEF Inv, Typing, ReadRaises, directory, calls, history
  <1>3. Queued' /\ Outside' /\ Overlap'
    BY DEF Inv, ReadRaises, Queued, Outside, Overlap, calls, history
  <1>4. Past' /\ Reading' /\ DoneFilesAreInForce'
    BY <1>1 DEF Inv, Typing, ReadRaises, Past, Reading, DoneFilesAreInForce, directory, history
  <1> QED
    BY <1>2, <1>3, <1>4 DEF Inv

\* What remains in apply() lacks the changes of a configuration that is applied.
LEMMA AppliedOverlap ==
  ASSUME Inv, NEW a \in Actors, Applied(a)
  PROVE  Overlap'
  <1>1. \A b \in Actors : about'[b] = IF b = a THEN {} ELSE about[b]
    BY DEF Inv, Typing, Applied, Leave
  <1>2. \A b \in Actors : b # a => candidate'[b] = candidate[b]
    BY DEF Inv, Typing, Applied, Leave
  <1>3. \A b \in Actors : b # a /\ about[b] # {} => missed'[b] = missed[b] \cup Changes(a)
    BY DEF Applied, Accounted
  <1>4. \A n \in Names : upstreams'[n] = candidate[a][n]
    BY DEF Applied
  <1> SUFFICES ASSUME NEW b \in Actors, NEW n \in Names, about'[b] # {},
                      candidate'[b][n] # upstreams'[n]
               PROVE  n \in about'[b] \cup missed'[b]
    BY DEF Overlap
  <1>5. b # a /\ about[b] # {} /\ candidate[b][n] # candidate[a][n]
    BY <1>1, <1>2, <1>4
  <1>6. CASE candidate[b][n] # upstreams[n]
    BY <1>1, <1>3, <1>5, <1>6 DEF Inv, Overlap
  <1>7. CASE candidate[a][n] # upstreams[n]
    BY <1>3, <1>5, <1>7 DEF Changes
  <1> QED
    BY <1>5, <1>6, <1>7

\* A file that is done, or is done now, is in force unless its upstream was
\* touched.
LEMMA AppliedInForce ==
  ASSUME Inv, NEW a \in Actors, Applied(a), Typing'
  PROVE  DoneFilesAreInForce'
  <1>1. UNCHANGED files /\ \A n \in Names : upstreams'[n] = candidate[a][n]
    BY DEF Applied, Leave, directory
  <1> SUFFICES ASSUME NEW s \in Names, s \notin touched', files[s] # NoFile,
                      files[s].mtime = known'[s], files[s].name = s
               PROVE  candidate[a][s] = files[s].def
    BY <1>1 DEF DoneFilesAreInForce
  <1>2. s \notin touched /\ (s \in Changes(a) => ForFile(a, s))
    BY DEF Applied, Accounted
  <1>3. CASE a = Watcher /\ watcher = "adding" /\ turn = s
    <2>1. known'[s] = present[s]
      BY <1>3 DEF Inv, Typing, Applied
    <2> QED
      BY <1>3, <2>1 DEF Inv, Reading
  <1>4. CASE ~(a = Watcher /\ watcher = "adding" /\ turn = s)
    <2>1. known'[s] = known[s]
      BY <1>4 DEF Inv, Typing, Applied
    <2>2. upstreams[s] = files[s].def
      BY <1>2, <2>1 DEF Inv, DoneFilesAreInForce
    <2>3. files[s].mtime # 0
      BY DEF Inv, Typing, File
    <2>4. ~ForFile(a, s)
      <3> SUFFICES ASSUME a = Watcher, turn = s, about[a] = {s} PROVE FALSE
        BY DEF ForFile
      <3>1. watcher \notin {"idle", "scanning", "dead"}
        BY DEF Inv, Outside
      <3>2. watcher = "removing"
        BY <1>4, <3>1 DEF Inv, Typing
      <3> QED
        BY <2>1, <2>3, <3>2 DEF Inv, Reading
    <2> QED
      BY <1>2, <2>2, <2>4 DEF Changes
  <1> QED
    BY <1>3, <1>4

\* Once an actor has left, no other's file is affected.
LEMMA LeaveReading ==
  ASSUME Inv, NEW a \in Actors, Leave(a), a # Watcher => UNCHANGED known
  PROVE  Reading'
  <1>1. CASE a = Watcher
    BY <1>1 DEF Leave, Reading
  <1>2. CASE a # Watcher
    <2>1. UNCHANGED <<watcher, turn, known, files, present>>
          /\ about'[Watcher] = about[Watcher] /\ candidate'[Watcher] = candidate[Watcher]
      BY <1>2, WatcherActs DEF Inv, Typing, Leave, directory
    <2> QED
      BY <2>1 DEF Inv, Reading
  <1> QED
    BY <1>1, <1>2

LEMMA AppliedInv ==
  ASSUME Inv, NEW a \in Actors, Applied(a)
  PROVE  Inv'
  <1>1. Leave(a) /\ (a # Watcher => UNCHANGED known)
    BY DEF Applied
  <1>2. upstreams' \in Config /\ UNCHANGED <<files, writes, present>>
    BY DEF Inv, Typing, Applied, Leave, directory
  <1>3. known' \in [Names -> 0..MaxWrites] /\ \A s \in Names : known'[s] <= writes
    BY DEF Inv, Typing, Past, Applied
  <1>4. missed' \in [Actors -> SUBSET Names] /\ touched' \subseteq Names
    BY DEF Inv, Typing, Applied, Accounted, Changes
  <1>5. Outside' /\ Typing'
    BY <1>1, <1>2, <1>3, <1>4, LeaveOutside DEF Inv, Typing, Leave
  <1>6. Queued' /\ Reading'
    BY <1>1, LeaveQueued, LeaveReading DEF Inv
  <1>7. Past'
    BY <1>2, <1>3 DEF Inv, Past
  <1> QED
    BY <1>5, <1>6, <1>7, AppliedOverlap, AppliedInForce DEF Inv

LEMMA FailedInv ==
  ASSUME Inv, NEW a \in Actors, Failed(a)
  PROVE  Inv'
  <1>1. Leave(a) /\ UNCHANGED known
    BY DEF Failed
  <1>2. UNCHANGED <<upstreams, touched, files, writes, present>>
    BY DEF Failed, Leave, directory
  <1>3. missed' \in [Actors -> SUBSET Names] /\ \A b \in Actors : b # a => missed'[b] = missed[b]
    BY DEF Inv, Typing, Failed
  <1>4. Outside' /\ Typing'
    BY <1>1, <1>2, <1>3, LeaveOutside DEF Inv, Typing, Leave
  <1>5. Queued' /\ Reading'
    BY <1>1, LeaveQueued, LeaveReading DEF Inv
  <1>6. \A b \in Actors : /\ about'[b] = IF b = a THEN {} ELSE about[b]
                          /\ b # a => candidate'[b] = candidate[b]
    BY <1>1 DEF Inv, Typing, Leave
  <1>7. Overlap'
    BY <1>2, <1>3, <1>6 DEF Inv, Overlap
  <1>8. Past' /\ DoneFilesAreInForce'
    BY <1>1, <1>2 DEF Inv, Past, DoneFilesAreInForce
  <1> QED
    BY <1>4, <1>5, <1>7, <1>8 DEF Inv

LEMMA RestartInv ==
  ASSUME Inv, Restart
  PROVE  Inv'
  <1>1. Typing'
    BY FileDropAssumption DEF Inv, Typing, Restart, directory, Empty, Config
  <1>2. Queued' /\ Outside' /\ Overlap'
    BY WatcherActs DEF Inv, Typing, Restart, Queued, Outside, Overlap
  <1>3. \A s \in Names : files[s] # NoFile => files[s].mtime # 0
    BY DEF Inv, Typing, File
  <1>4. Past' /\ Reading' /\ DoneFilesAreInForce'
    BY <1>3 DEF Inv, Typing, Restart, Past, Reading, DoneFilesAreInForce, directory
  <1> QED
    BY <1>1, <1>2, <1>4 DEF Inv

LEMMA NextInv == Inv /\ [Next]_vars => Inv'
  <1> SUFFICES ASSUME Inv, [Next]_vars PROVE Inv'
    OBVIOUS
  <1>1. CASE Next
    <2>1. ASSUME NEW c \in Calls, Call(c) PROVE Inv'
      BY <2>1, AddInv, RemoveInv DEF Call
    <2>2. CASE WatcherGoesOn
      BY <2>2, ScanInv, ScanEndsInv, RemoveNextInv, AddNextInv, ReadRaisesInv DEF WatcherGoesOn
    <2>3. CASE Returns
      BY <2>3, AppliedInv, FailedInv DEF Returns
    <2> QED
      BY <1>1, <2>1, <2>2, <2>3, WriteInv, DeleteInv, RestartInv DEF Next
  <1>2. CASE UNCHANGED vars
    BY <1>2 DEF Inv, Typing, Queued, Outside, Overlap, Past, Reading, DoneFilesAreInForce,
                vars, directory, scan, calls, history
  <1> QED
    BY <1>1, <1>2

(***************************************************************************)
(* The registrations go from one configuration to the next as ConfigSwitch *)
(* says.                                                                   *)
(***************************************************************************)
\* No configuration in force or on its way has a definition that apply()
\* refuses: what is in the queue was checked when it was entered.
Accepted ==
  /\ Valid(upstreams)
  /\ \A a \in InApply : Valid(candidate[a])

\* Taking an upstream away leaves nothing that apply() refuses.
LEMMA WithoutIsValid ==
  ASSUME Valid(upstreams), NEW n \in Names
  PROVE  Valid(With({n}, NoDef))
  BY FileDropAssumption DEF Valid, With

LEMMA OutOfSight ==
  ASSUME Accepted, UNCHANGED <<upstreams, about, candidate>>
  PROVE  Accepted' /\ UNCHANGED Switch!switchVars
  <1>1. InApply' = InApply
    BY DEF InApply
  <1>2. Asked' = Asked
    BY <1>1 DEF Asked
  <1> QED
    BY <1>1, <1>2 DEF Accepted, Valid, Switch!switchVars

LEMMA SubmittingAsks ==
  ASSUME Inv, Accepted, NEW a \in Actors, about[a] = {}, NEW names \in SUBSET Names, names # {},
         NEW k \in Config, Valid(k), Submit(a, names, k), UNCHANGED upstreams
  PROVE  /\ Accepted'
         /\ Switch!Ask(a, [upstreams |-> k]) /\ [upstreams |-> k] \in ValidConfigs
  <1> DEFINE l == [upstreams |-> k]
  <1>1. /\ \A b \in Actors : about'[b] = IF b = a THEN names ELSE about[b]
        /\ \A b \in Actors : candidate'[b] = IF b = a THEN k ELSE candidate[b]
    BY DEF Inv, Typing, Submit
  <1>2. a \notin InApply /\ InApply' = InApply \cup {a}
    BY <1>1 DEF InApply
  <1>3. Accepted'
    BY <1>1, <1>2 DEF Accepted, Valid, InApply
  <1>4. l \in ValidConfigs
    BY DEF ValidConfigs
  <1>5. Asked' = [b \in InApply \cup {a} |-> IF b = a THEN l ELSE Asked[b]]
    <2>1. Asked' = [b \in InApply \cup {a} |-> [upstreams |-> candidate'[b]]]
      BY <1>2 DEF Asked
    <2>2. \A b \in InApply \cup {a} :
            [upstreams |-> candidate'[b]] = IF b = a THEN l ELSE Asked[b]
      BY <1>1 DEF Asked, InApply
    <2> QED
      BY <2>1, <2>2
  <1>6. DOMAIN Asked = InApply
    BY DEF Asked
  <1> QED
    BY <1>2, <1>3, <1>4, <1>5, <1>6 DEF Switch!Ask, Switch!InProgress

LEMMA LeavingEnds ==
  ASSUME Inv, Accepted, NEW a \in Actors, Leave(a)
  PROVE  /\ Switch!End(a) /\ Asked[a] = [upstreams |-> candidate[a]]
         /\ Valid(candidate[a]) /\ \A b \in InApply' : Valid(candidate'[b])
  <1>1. about[a] # {} /\ \A b \in Actors : /\ about'[b] = IF b = a THEN {} ELSE about[b]
                                           /\ b # a => candidate'[b] = candidate[b]
    BY LeaveQueued DEF Inv, Typing, Leave
  <1>2. a \in InApply /\ InApply' = InApply \ {a}
    BY <1>1 DEF InApply
  <1>3. Asked' = [b \in InApply \ {a} |-> Asked[b]]
    BY <1>1, <1>2 DEF Asked, InApply
  <1>4. DOMAIN Asked = InApply /\ Asked[a] = [upstreams |-> candidate[a]]
    BY <1>2 DEF Asked
  <1>5. \A b \in InApply' : Valid(candidate'[b])
    BY <1>1, <1>2 DEF Accepted, InApply
  <1> QED
    BY <1>2, <1>3, <1>4, <1>5 DEF Accepted, Switch!End, Switch!InProgress

LEMMA SwitchInitially == Init => Accepted /\ Switch!SwitchInit
  <1> SUFFICES ASSUME Init PROVE Accepted /\ Switch!SwitchInit
    OBVIOUS
  <1>1. upstreams \in Config /\ Valid(upstreams)
    BY FileDropAssumption DEF Init, Config, Valid
  <1>2. InApply = {}
    BY DEF Init, InApply
  <1>3. DOMAIN Asked = {}
    BY <1>2 DEF Asked
  <1>4. [upstreams |-> upstreams] \in ValidConfigs
    BY <1>1 DEF ValidConfigs
  <1> QED
    BY <1>1, <1>2, <1>3, <1>4 DEF Accepted, Switch!SwitchInit, Switch!InProgress

\* What a step of the service or the watcher does to the abstract state.
Switches == Accepted' /\ [Switch!SwitchNext]_(Switch!switchVars)

LEMMA AddSwitches ==
  ASSUME Inv, Accepted, NEW c \in Calls, NEW names \in SUBSET Names, names # {}, NEW d \in Defs,
         NEW replace \in BOOLEAN, Add(c, names, d, replace)
  PROVE  Switches
  <1>1. c \in Actors /\ about[c] = {} /\ With(names, d) \in Config /\ upstreams' = upstreams
    BY WatcherActs, WithConfig, FileDropAssumption DEF Inv, Outside, Add
  <1>2. CASE Valid(With(names, d)) /\ Submit(c, names, With(names, d))
    BY <1>1, <1>2, SubmittingAsks DEF Switches, Switch!SwitchNext
  <1>3. CASE UNCHANGED <<about, candidate>>
    BY <1>1, <1>3, OutOfSight DEF Switches
  <1> QED
    BY <1>2, <1>3 DEF Add

LEMMA RemoveSwitches ==
  ASSUME Inv, Accepted, NEW c \in Calls, NEW n \in Names, Remove(c, n)
  PROVE  Switches
  <1>1. /\ c \in Actors /\ about[c] = {} /\ {n} \in SUBSET Names /\ {n} # {}
        /\ With({n}, NoDef) \in Config /\ upstreams' = upstreams
    BY WatcherActs, WithConfig, FileDropAssumption DEF Inv, Outside, Remove
  <1>2. Valid(With({n}, NoDef))
    BY WithoutIsValid DEF Accepted
  <1>3. CASE Submit(c, {n}, With({n}, NoDef))
    BY <1>1, <1>2, <1>3, SubmittingAsks DEF Switches, Switch!SwitchNext
  <1>4. CASE UNCHANGED <<about, candidate>>
    BY <1>1, <1>4, OutOfSight DEF Switches
  <1> QED
    BY <1>3, <1>4 DEF Remove

LEMMA RemoveNextSwitches ==
  ASSUME Inv, Accepted, NEW s \in Names, RemoveNext(s)
  PROVE  Switches
  <1>1. /\ Watcher \in Actors /\ about[Watcher] = {} /\ {s} \in SUBSET Names /\ {s} # {}
        /\ With({s}, NoDef) \in Config /\ upstreams' = upstreams
    BY WatcherActs, WithConfig DEF Inv, Outside, RemoveNext
  <1>2. Valid(With({s}, NoDef))
    BY WithoutIsValid DEF Accepted
  <1>3. CASE Submit(Watcher, {s}, With({s}, NoDef))
    BY <1>1, <1>2, <1>3, SubmittingAsks DEF Switches, Switch!SwitchNext
  <1>4. CASE UNCHANGED <<about, candidate>>
    BY <1>1, <1>4, OutOfSight DEF Switches
  <1> QED
    BY <1>3, <1>4 DEF RemoveNext

LEMMA AddNextSwitches ==
  ASSUME Inv, Accepted, NEW s \in Names, AddNext(s)
  PROVE  Switches
  <1> DEFINE n == files[s].name
             d == files[s].def
  <1>1. Watcher \in Actors /\ about[Watcher] = {} /\ upstreams' = upstreams
    BY WatcherActs DEF Inv, Outside, AddNext, MayRead
  <1>2. CASE /\ files[s] # NoFile /\ Valid(With({n}, d))
             /\ Submit(Watcher, {n}, With({n}, d))
    <2>1. n \in Names /\ d \in Defs \cup {NoDef} /\ {n} \in SUBSET Names /\ {n} # {}
      BY <1>2 DEF Inv, Typing, File, Contents, AddNext, MayRead, IsGarbled
    <2> HIDE DEF n, d
    <2>2. With({n}, d) \in Config
      BY <2>1, WithConfig DEF Inv
    <2> QED
      BY <1>1, <1>2, <2>1, <2>2, SubmittingAsks DEF Switches, Switch!SwitchNext
  <1>3. CASE UNCHANGED <<about, candidate>>
    BY <1>1, <1>3, OutOfSight DEF Switches
  <1> QED
    BY <1>2, <1>3 DEF AddNext

LEMMA ReturnSwitches ==
  ASSUME Inv, Accepted, NEW a \in Actors, Applied(a) \/ Failed(a)
  PROVE  Switches
  <1>1. Leave(a)
    BY DEF Applied, Failed
  <1>2. CASE Applied(a)
    <2>1. upstreams' = candidate[a]
      BY <1>2 DEF Applied
    <2>2. Valid(upstreams')
      BY <1>1, <2>1, LeavingEnds
    <2>3. Accepted'
      BY <1>1, <2>2, LeavingEnds DEF Accepted
    <2>4. Switch!Succeed(a)
      BY <1>1, <2>1, LeavingEnds DEF Switch!Succeed
    <2> QED
      BY <2>3, <2>4 DEF Switches, Switch!SwitchNext
  <1>3. CASE Failed(a)
    <2>1. upstreams' = upstreams
      BY <1>3 DEF Failed
    <2>2. Accepted'
      BY <1>1, <2>1, LeavingEnds DEF Accepted, Valid
    <2>3. Switch!Fail(a)
      BY <1>1, <2>1, LeavingEnds DEF Switch!Fail
    <2> QED
      BY <2>2, <2>3 DEF Switches, Switch!SwitchNext
  <1> QED
    BY <1>2, <1>3

LEMMA RestartSwitches ==
  ASSUME Accepted, Restart
  PROVE  Switches
  <1>1. upstreams' = upstreams /\ about' = [a \in Actors |-> {}]
    BY DEF Restart
  <1>2. InApply' = {}
    BY <1>1 DEF InApply
  <1>3. Asked' = [a \in {} |-> Asked[a]]
    BY <1>2 DEF Asked
  <1>4. Accepted'
    BY <1>1, <1>2 DEF Accepted, Valid
  <1>5. Switch!Restart
    BY <1>1, <1>3 DEF Switch!Restart
  <1> QED
    BY <1>4, <1>5 DEF Switches, Switch!SwitchNext

LEMMA SwitchStep == Inv /\ Accepted /\ [Next]_vars => Switches
  <1> SUFFICES ASSUME Inv, Accepted, [Next]_vars PROVE Switches
    OBVIOUS
  <1>1. CASE \/ \E s, n \in Names, d \in Contents : Write(s, n, d)
             \/ \E s \in Names : Delete(s)
             \/ Scan \/ ScanEnds \/ (\E s \in Names : ReadRaises(s)) \/ UNCHANGED vars
    <2>1. UNCHANGED <<upstreams, about, candidate>>
      BY <1>1 DEF Write, Delete, Scan, ScanEnds, ReadRaises, calls, vars
    <2> QED
      BY <2>1, OutOfSight DEF Switches
  <1>2. ASSUME NEW c \in Calls, Call(c) PROVE Switches
    BY <1>2, AddSwitches, RemoveSwitches DEF Call
  <1>3. ASSUME NEW s \in Names, RemoveNext(s) \/ AddNext(s) PROVE Switches
    BY <1>3, RemoveNextSwitches, AddNextSwitches
  <1>4. CASE Returns
    BY <1>4, ReturnSwitches DEF Returns
  <1> QED
    BY <1>1, <1>2, <1>3, <1>4, RestartSwitches DEF Next, WatcherGoesOn

(***************************************************************************)
(* The theorems.                                                           *)
(***************************************************************************)
\* However calls, scans, writes of files and restarts interleave, each actor is
\* in apply() at most once and knows how what it submits is out of date.
THEOREM Invariance == Spec => []Inv
  BY InitInv, NextInv, PTL DEF Spec

\* Every variable keeps its type: nobody is in apply() who is about nothing.
THEOREM TypeCorrectness == Spec => []TypeOK
  <1>1. Inv => TypeOK
    <2> SUFFICES ASSUME Inv PROVE queue \in Seq({a \in Actors : about[a] # {}})
      BY DEF Inv, Typing, TypeOK
    <2> DEFINE S == {a \in Actors : about[a] # {}}
    <2>1. Len(queue) \in Nat /\ queue \in [1..Len(queue) -> Actors]
      BY LenProperties DEF Inv, Queued
    <2>2. queue \in [1..Len(queue) -> S]
      BY <2>1 DEF Inv, Queued
    <2> QED
      BY <2>1, <2>2, SeqDef
  <1> QED
    BY <1>1, Invariance, PTL

\* A file whose time of modification the watcher knows is in force as it is
\* now, unless something else touched its upstream.
THEOREM DoneFilesStayInForce == Spec => []DoneFilesAreInForce
  <1>1. Inv => DoneFilesAreInForce
    BY DEF Inv
  <1> QED
    BY <1>1, Invariance, PTL

\* Only an apply() about an upstream, or one whose configuration was made
\* before another was applied, changes that upstream.
THEOREM OnlyOverlapsLose == Spec => OnlyOverlapLoses
  <1> DEFINE Changed == \A n \in Names : upstreams'[n] # upstreams[n] =>
                          queue # <<>> /\ n \in about[Head(queue)] \cup missed[Head(queue)]
  <1>1. Inv /\ [Next]_vars => [Changed]_vars
    <2> SUFFICES ASSUME Inv, Next, NEW n \in Names, upstreams'[n] # upstreams[n]
                 PROVE  queue # <<>> /\ n \in about[Head(queue)] \cup missed[Head(queue)]
      OBVIOUS
    <2>1. PICK a \in Actors : Applied(a)
      BY DEF Next, Write, Delete, Call, Add, Remove, WatcherGoesOn, Scan, ScanEnds, RemoveNext,
             AddNext, ReadRaises, Returns, Failed, Restart
    <2>2. queue # <<>> /\ a = Head(queue) /\ about[a] # {}
      BY <2>1, LeaveQueued DEF Inv, Applied
    <2>3. candidate[a][n] # upstreams[n]
      BY <2>1 DEF Applied
    <2> QED
      BY <2>2, <2>3 DEF Inv, Overlap
  <1> QED
    BY <1>1, Invariance, PTL DEF Spec, OnlyOverlapLoses

\* The service and the watcher use no more of apply() than its contract: the
\* upstreams change at one moment of an apply(), to what was asked for when it
\* was entered, and nothing that apply() refuses is ever in force.
THEOREM RegistrationsSwitch == Spec => UsesSwitch
  <1>1. Init => Inv /\ Accepted /\ Switch!SwitchInit
    BY InitInv, SwitchInitially
  <1>2. Inv /\ Accepted /\ [Next]_vars => Inv' /\ Accepted'
    BY NextInv, SwitchStep DEF Switches
  <1>3. Inv /\ Accepted /\ [Next]_vars => [Switch!SwitchNext]_(Switch!switchVars)
    BY SwitchStep DEF Switches
  <1> QED
    BY <1>1, <1>2, <1>3, PTL DEF Spec, UsesSwitch, Switch!SwitchSpec
==============================================================================
