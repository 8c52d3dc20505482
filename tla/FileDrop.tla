------------------------------- MODULE FileDrop ------------------------------
(***************************************************************************)
(* RegistrationService and FileDropWatcher: administrators register and    *)
(* unregister upstreams, and a task polls a directory of definitions that  *)
(* other processes write.  Each builds a whole configuration from the one  *)
(* in force and waits for apply(), whose lock is first come, first served. *)
(* apply() itself is RuntimeConfig: here it is applied or not, in a step.  *)
(*                                                                         *)
(* An action is the code between two awaits, except that the watcher takes *)
(* its files one at a time also where nothing is awaited in between.  A    *)
(* time of modification is the number of the write.                        *)
(***************************************************************************)
EXTENDS Naturals, Sequences

CONSTANTS
  Names,        \* names of upstreams, and stems of files
  Defs,         \* definitions of upstreams
  Refused,      \* those that no configuration may contain, as apply() finds
  Calls,        \* calls of the administrators
  MaxWrites,    \* how often a file is written
  MaxRestarts,  \* how often the process is restarted
  Watcher, NoDef, NoFile, NoName,
  Garbled       \* in the place of a definition: the file is not UTF-8

ASSUME FileDropAssumption ==
  /\ Refused \subseteq Defs
  /\ NoDef \notin Defs /\ NoName \notin Names
  /\ Garbled \notin Defs \cup {NoDef}
  /\ Watcher \notin Calls
  /\ MaxWrites \in Nat /\ MaxRestarts \in Nat

Actors == Calls \cup {Watcher}
Config == [Names -> Defs \cup {NoDef}]
Empty == [n \in Names |-> NoDef]

\* What a file says: the upstream it names and its definition, which is NoDef
\* where the file cannot be opened, is not JSON or has none.
Contents == Defs \cup {NoDef, Garbled}
File == [mtime : 1..MaxWrites, name : Names, def : Contents]
ASSUME NoFileAssumption == NoFile \notin File

VARIABLES
  upstreams,  \* RuntimeConfigManager.raw_config["upstreams"]
  files,      \* the directory
  writes,
  known,      \* known[s]: FileDropWatcher._known, 0 where s is not in it
  watcher,    \* where _scan_once is, "dead" when the task has ended
  present,    \* the times of modification it has seen, 0 for no file
  gone, todo, \* what it has still to remove and to read
  turn,       \* the file it awaits apply() for, else NoName
  pc,         \* where each call is
  about,      \* the names that an actor in the queue is about, else {}
  candidate,  \* what it applies, else Empty
  queue,      \* the actors in apply(), in the order of its lock
  restarts,
  missed,     \* names that others have changed since it made its candidate
  touched     \* names that were changed for another reason than the file
              \* of that name

directory == <<files, writes>>
scan == <<watcher, present, gone, todo, turn>>
calls == <<pc, about>>
history == <<missed, touched>>
vars == <<upstreams, directory, known, scan, calls, candidate, queue, restarts, history>>

Init ==
  /\ upstreams \in [Names -> (Defs \ Refused) \cup {NoDef}]
  /\ files = [s \in Names |-> NoFile]
  /\ writes = 0
  /\ known = [s \in Names |-> 0]
  /\ watcher = "idle"
  /\ present = [s \in Names |-> 0]
  /\ gone = {} /\ todo = {}
  /\ turn = NoName
  /\ pc = [c \in Calls |-> "new"]
  /\ about = [a \in Actors |-> {}]
  /\ candidate = [a \in Actors |-> Empty]
  /\ queue = <<>>
  /\ restarts = 0
  /\ missed = [a \in Actors |-> {}]
  /\ touched = {n \in Names : upstreams[n] # NoDef}

(***************************************************************************)
(* Other processes write and delete files.                                 *)
(***************************************************************************)
Write(s, n, d) ==
  /\ writes < MaxWrites
  /\ writes' = writes + 1
  /\ files' = [files EXCEPT ![s] = [mtime |-> writes + 1, name |-> n, def |-> d]]
  /\ UNCHANGED <<upstreams, known, scan, calls, candidate, queue, restarts, history>>

Delete(s) ==
  /\ files[s] # NoFile
  /\ files' = [files EXCEPT ![s] = NoFile]
  /\ UNCHANGED <<upstreams, writes, known, scan, calls, candidate, queue, restarts, history>>

(***************************************************************************)
(* RegistrationService.                                                    *)
(***************************************************************************)
\* apply() validates before it waits for its lock.
Valid(k) == \A n \in Names : k[n] \notin Refused

\* Seeded fault: the configuration has nothing but what was asked for.
WithAlone(names, d) == [n \in Names |-> IF n \in names THEN d ELSE NoDef]

With(names, d) == [n \in Names |-> IF n \in names THEN d ELSE upstreams[n]]

\* apply() is entered with a configuration about these names.
Submit(a, names, k) ==
  /\ about' = [about EXCEPT ![a] = names]
  /\ candidate' = [candidate EXCEPT ![a] = k]
  /\ UNCHANGED missed
  /\ queue' = Append(queue, a)

Ends(c) == pc' = [pc EXCEPT ![c] = "done"]

\* add, and bulk_add for more than one name.
Add(c, names, d, replace) ==
  /\ pc[c] = "new"
  /\ IF (replace \/ \A n \in names : upstreams[n] = NoDef) /\ Valid(With(names, d))
     THEN Submit(c, names, With(names, d)) /\ pc' = [pc EXCEPT ![c] = "applying"]
     ELSE Ends(c) /\ UNCHANGED <<about, candidate, missed, queue>>
  /\ UNCHANGED <<upstreams, directory, known, scan, restarts, touched>>

Remove(c, n) ==
  /\ pc[c] = "new"
  /\ IF upstreams[n] # NoDef
     THEN Submit(c, {n}, With({n}, NoDef)) /\ pc' = [pc EXCEPT ![c] = "applying"]
     ELSE Ends(c) /\ UNCHANGED <<about, candidate, missed, queue>>
  /\ UNCHANGED <<upstreams, directory, known, scan, restarts, touched>>

(***************************************************************************)
(* _scan_once.                                                             *)
(***************************************************************************)
\* Seeded fault: a file that has changed is not read again.
ScanOnlyNew ==
  /\ watcher = "idle"
  /\ present' = [s \in Names |-> IF files[s] = NoFile THEN 0 ELSE files[s].mtime]
  /\ gone' = {s \in Names : known[s] # 0 /\ present'[s] = 0}
  /\ todo' = {s \in Names : present'[s] # 0 /\ known[s] = 0}
  /\ gone' \cup todo' # {}
  /\ watcher' = "scanning"
  /\ UNCHANGED <<upstreams, directory, known, turn, calls, candidate, queue, restarts,
                 history>>

\* The directory is listed.  What is still to be done of it is known at once:
\* only this task changes _known.
Scan ==
  /\ watcher = "idle"
  /\ present' = [s \in Names |-> IF files[s] = NoFile THEN 0 ELSE files[s].mtime]
  /\ gone' = {s \in Names : known[s] # 0 /\ present'[s] = 0}
  /\ todo' = {s \in Names : present'[s] # 0 /\ present'[s] # known[s]}
  /\ gone' \cup todo' # {}
  /\ watcher' = "scanning"
  /\ UNCHANGED <<upstreams, directory, known, turn, calls, candidate, queue, restarts,
                 history>>

\* A file that is gone: it is forgotten, then the upstream of its stem removed.
RemoveNext(s) ==
  /\ watcher = "scanning" /\ s \in gone
  /\ gone' = gone \ {s}
  /\ known' = [known EXCEPT ![s] = 0]
  /\ IF upstreams[s] # NoDef
     THEN Submit(Watcher, {s}, With({s}, NoDef)) /\ watcher' = "removing" /\ turn' = s
     ELSE UNCHANGED <<watcher, turn, about, candidate, missed, queue>>
  /\ UNCHANGED <<upstreams, directory, present, todo, pc, restarts, touched>>

\* What follows the removals of a scan: a file that can be decoded is read.
IsGarbled(s) == files[s] # NoFile /\ files[s].def = Garbled
MayRead(s) == watcher = "scanning" /\ gone = {} /\ s \in todo /\ ~IsGarbled(s)

\* Seeded fault: apply() does not look at what a file defines.
AddNextUnvalidated(s) ==
  /\ MayRead(s)
  /\ todo' = todo \ {s}
  /\ LET f == files[s] IN
     IF f # NoFile /\ f.def # NoDef
     THEN /\ Submit(Watcher, {f.name}, With({f.name}, f.def))
          /\ watcher' = "adding" /\ turn' = s
     ELSE UNCHANGED <<watcher, turn, about, candidate, missed, queue>>
  /\ UNCHANGED <<upstreams, directory, known, present, gone, pc, restarts, touched>>

\* A file that is new or has changed: it is read as it is now.
AddNext(s) ==
  /\ MayRead(s)
  /\ todo' = todo \ {s}
  /\ LET f == files[s] IN
     IF f # NoFile /\ f.def # NoDef /\ Valid(With({f.name}, f.def))
     THEN /\ Submit(Watcher, {f.name}, With({f.name}, f.def))
          /\ watcher' = "adding" /\ turn' = s
     ELSE UNCHANGED <<watcher, turn, about, candidate, missed, queue>>
  /\ UNCHANGED <<upstreams, directory, known, present, gone, pc, restarts, touched>>

\* Only OSError and JSONDecodeError are caught: a file that is not UTF-8 ends
\* the task, and nothing starts it again but the process.
ReadRaises(s) ==
  /\ watcher = "scanning" /\ gone = {} /\ s \in todo /\ IsGarbled(s)
  /\ watcher' = "dead"
  /\ todo' = {}
  /\ present' = [n \in Names |-> 0]
  /\ UNCHANGED <<upstreams, directory, known, gone, turn, calls, candidate, queue, restarts,
                 history>>

ScanEnds ==
  /\ watcher = "scanning" /\ gone = {} /\ todo = {}
  /\ watcher' = "idle"
  /\ present' = [s \in Names |-> 0]
  /\ UNCHANGED <<upstreams, directory, known, gone, todo, turn, calls, candidate, queue,
                 restarts, history>>

(***************************************************************************)
(* apply() returns to the actor that has the lock.                         *)
(***************************************************************************)
Leave(a) ==
  /\ queue # <<>> /\ a = Head(queue)
  /\ queue' = Tail(queue)
  /\ IF a = Watcher
     THEN watcher' = "scanning" /\ turn' = NoName /\ UNCHANGED pc
     ELSE Ends(a) /\ UNCHANGED <<watcher, turn>>
  /\ about' = [about EXCEPT ![a] = {}]
  /\ candidate' = [candidate EXCEPT ![a] = Empty]
  /\ UNCHANGED <<directory, present, gone, todo, restarts>>

\* The names that a's configuration changes.
Changes(a) == {n \in Names : candidate[a][n] # upstreams[n]}

\* Whether a is the watcher, at work for the file that has this name.
ForFile(a, n) == a = Watcher /\ turn = n /\ about[a] = {n}

Accounted(a) ==
  /\ missed' = [b \in Actors |-> IF b = a \/ about[b] = {} THEN {}
                                 ELSE missed[b] \cup Changes(a)]
  /\ touched' = touched \cup {n \in Changes(a) : ~ForFile(a, n)}

\* Seeded fault: the time of modification is read again when apply() is over.
AppliedLate(a) ==
  /\ Leave(a)
  /\ upstreams' = candidate[a]
  /\ known' = IF a = Watcher /\ watcher = "adding"
              THEN [known EXCEPT ![turn] = IF files[turn] = NoFile THEN 0
                                           ELSE files[turn].mtime]
              ELSE known
  /\ Accounted(a)

Applied(a) ==
  /\ Leave(a)
  /\ upstreams' = candidate[a]
  /\ known' = IF a = Watcher /\ watcher = "adding"
              THEN [known EXCEPT ![turn] = present[turn]] ELSE known
  /\ Accounted(a)

\* A transport does not start, or the configuration cannot be written.
Failed(a) ==
  /\ Leave(a)
  /\ missed' = [missed EXCEPT ![a] = {}]
  /\ UNCHANGED <<upstreams, known, touched>>

(***************************************************************************)
(* The process ends and starts again with the configuration it had.        *)
(***************************************************************************)
Restart ==
  /\ restarts < MaxRestarts
  /\ restarts' = restarts + 1
  /\ known' = [s \in Names |-> 0]
  /\ watcher' = "idle" /\ turn' = NoName
  /\ present' = [s \in Names |-> 0]
  /\ gone' = {} /\ todo' = {}
  /\ pc' = [c \in Calls |-> IF pc[c] = "new" THEN "new" ELSE "done"]
  /\ queue' = <<>>
  /\ about' = [a \in Actors |-> {}]
  /\ candidate' = [a \in Actors |-> Empty]
  /\ missed' = [a \in Actors |-> {}]
  /\ UNCHANGED <<upstreams, directory, touched>>

WatcherGoesOn ==
  \/ Scan \/ ScanEnds
  \/ \E s \in Names : RemoveNext(s) \/ AddNext(s) \/ ReadRaises(s)

Returns == \E a \in Actors : Applied(a) \/ Failed(a)

Call(c) ==
  \/ \E names \in SUBSET Names, d \in Defs, replace \in BOOLEAN :
       names # {} /\ Add(c, names, d, replace)
  \/ \E n \in Names : Remove(c, n)

Next ==
  \/ \E s, n \in Names, d \in Contents : Write(s, n, d)
  \/ \E s \in Names : Delete(s)
  \/ \E c \in Calls : Call(c)
  \/ WatcherGoesOn \/ Returns \/ Restart

Spec == Init /\ [][Next]_vars

\* The watcher is scheduled and polls, apply() returns, and an apply() that
\* is tried for a file again and again is applied at some time.
FairSpec ==
  /\ Spec
  /\ WF_vars(WatcherGoesOn) /\ WF_vars(Returns)
  /\ \A s \in Names : SF_vars(watcher = "adding" /\ turn = s /\ Applied(Watcher))

(***************************************************************************)
(* Properties.                                                             *)
(***************************************************************************)
TypeOK ==
  /\ upstreams \in Config
  /\ files \in [Names -> File \cup {NoFile}]
  /\ writes \in 0..MaxWrites
  /\ known \in [Names -> 0..MaxWrites]
  /\ watcher \in {"idle", "scanning", "removing", "adding", "dead"}
  /\ present \in [Names -> 0..MaxWrites]
  /\ gone \subseteq Names /\ todo \subseteq Names
  /\ turn \in Names \cup {NoName}
  /\ pc \in [Calls -> {"new", "applying", "done"}]
  /\ about \in [Actors -> SUBSET Names]
  /\ candidate \in [Actors -> Config]
  /\ queue \in Seq({a \in Actors : about[a] # {}})
  /\ restarts \in 0..MaxRestarts
  /\ missed \in [Actors -> SUBSET Names]
  /\ touched \subseteq Names

\* A file the watcher takes for done is in force as it is now: writes that
\* come while it is read or applied are not missed.
DoneFilesAreInForce ==
  \A s \in Names \ touched :
    LET f == files[s] IN
    f # NoFile /\ f.mtime = known[s] /\ f.name = s => upstreams[s] = f.def

\* A registration that was applied is changed only by a call about it, or by
\* one whose configuration was made before it was applied.
OnlyOverlapLoses ==
  [][\A n \in Names : upstreams'[n] # upstreams[n] =>
       queue # <<>> /\ n \in about[Head(queue)] \cup missed[Head(queue)]]_vars

\* The registrations go from one configuration to the next as ConfigSwitch
\* promises of apply(), and none of them has a definition that apply() refuses.
InApply == {a \in Actors : about[a] # {}}
Asked == [a \in InApply |-> [upstreams |-> candidate[a]]]
ValidConfigs == {k \in [upstreams : Config] : Valid(k.upstreams)}
Switch == INSTANCE ConfigSwitch WITH
  Configs <- ValidConfigs, Callers <- Actors,
  current <- [upstreams |-> upstreams], serving <- upstreams, asked <- Asked
UsesSwitch == Switch!SwitchSpec

\* A definition in the directory is picked up, through failed applies,
\* calls that intervene and restarts, unless the file is changed again or the
\* watcher dies of another file.
FilesArePickedUp ==
  \A s \in Names, v \in 1..MaxWrites :
    LET As(f) == f # NoFile /\ f.mtime = v /\ f.def \in Defs \ Refused IN
    As(files[s]) ~> (known[s] = v \/ ~As(files[s]) \/ watcher = "dead")
==============================================================================
