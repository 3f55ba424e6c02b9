------------------------ MODULE StorageFiles_proofs -------------------------
(***************************************************************************)
(* OpenedIsMigrated, SnapshotRemembers and NothingTaken for every number   *)
(* of programs of whatever versions, files and keys, when the operator     *)
(* keeps to the procedure of docs/operations.md.                           *)
(***************************************************************************)
EXTENDS StorageFiles, TLAPS

ProgramRow ==
    [pc : {"idle", "copy", "check"} \cup OpenSteps \cup OpenedSteps,
     path : AllPaths, applied : Seq(Nat), then : {"idle"} \cup TaskSteps]

\* A migration history and the schema it stands for.
Matches(db) ==
    /\ db.applied = Versions(Len(db.applied))
    /\ db.schema = 1..Len(db.applied)

\* What a step leaves of a file another program may have open.
Kept(path) ==
    Usable(path) => Usable(path)' /\ Len(file[path].applied) <= Len(file'[path].applied)

----------------------------------------------------------------------------
\* Histories.

\* identifiers[:n] of apply_migrations.
LEMMA VersionsFacts ==
    /\ \A n \in Nat : Versions(n) \in Seq(Nat) /\ Len(Versions(n)) = n
    /\ \A n \in Nat : Append(Versions(n), n + 1) = Versions(n + 1)
    /\ Versions(0) = <<>>
  <1>1. \A n \in Nat : Versions(n) \in Seq(Nat) /\ Len(Versions(n)) = n
    BY DEF Versions
  <1>2. ASSUME NEW n \in Nat
        PROVE  Append(Versions(n), n + 1) = Versions(n + 1)
    BY <1>1 DEF Versions
  <1>3. Versions(0) = <<>>
    BY <1>1
  <1> QED
    BY <1>1, <1>2, <1>3

\* What the history check accepts is an initial part of the versions known.
LEMMA PrefixFacts ==
    ASSUME NEW s \in Seq(Nat), NEW n \in Nat
    PROVE  IsPrefix(s, Versions(n)) <=> s = Versions(Len(s)) /\ Len(s) <= n
  <1> DEFINE m == Len(s)
  <1>0. m \in Nat
    OBVIOUS
  <1> HIDE DEF m
  <1>1. m \in Nat /\ Len(Versions(n)) = n /\ Len(Versions(m)) = m
    BY <1>0, VersionsFacts, Zenon
  <1>2. SubSeq(s, 1, m) = s
    BY DEF m
  <1>3. ASSUME m <= n PROVE SubSeq(Versions(n), 1, m) = Versions(m)
    <2>1. SubSeq(Versions(n), 1, m) = [i \in 1..m |-> Versions(n)[i]]
      BY <1>1, <1>3, VersionsFacts
    <2>2. \A i \in 1..m : Versions(n)[i] = i
      BY <1>1, <1>3 DEF Versions
    <2> QED
      BY <2>1, <2>2 DEF Versions
  <1> QED
    BY <1>1, <1>2, <1>3 DEF IsPrefix, m

\* The rows of files and programs.
LEMMA Rows ==
    /\ Absent.kind = "absent" /\ Damaged.kind = "damaged" /\ Absent # Damaged
    /\ Absent \notin Database /\ Damaged \notin Database
    /\ \A db \in Database :
          /\ db.kind = "database" /\ db.table \in BOOLEAN /\ db.applied \in Seq(Nat)
          /\ db.schema \in SUBSET Nat /\ db.keys \in SUBSET Keys /\ db.past \in SUBSET Nat
    /\ Empty \in Database /\ Empty.applied = <<>> /\ Empty.schema = {} /\ Empty.keys = {}
    /\ Empty.past = {} /\ ~Empty.table
  BY DEF Absent, Damaged, Database, Empty

LEMMA UsableIs ==
    ASSUME TypeOK, NEW path \in AllPaths
    PROVE  /\ file[path] \in Database \cup {Absent, Damaged}
           /\ Usable(path) <=> file[path] \in Database
  BY Rows DEF TypeOK, Usable

LEMMA HistoryIs ==
    ASSUME TypeOK
    PROVE  SchemaMatchesHistory <=>
              \A path \in AllPaths : Usable(path) => Matches(file[path])
  <1>1. ASSUME NEW path \in AllPaths, Usable(path)
        PROVE  IsPrefix(file[path].applied, Versions(Len(file[path].applied))) <=>
                  file[path].applied = Versions(Len(file[path].applied))
    <2>1. file[path].applied \in Seq(Nat)
      BY <1>1, UsableIs, Rows
    <2> QED
      BY <2>1, PrefixFacts
  <1> QED
    BY <1>1 DEF SchemaMatchesHistory, Matches

\* The primed forms of the last two.
LEMMA HistoryNext ==
    ASSUME TypeOK',
           \A path \in AllPaths : file'[path].kind = "database" => Matches(file'[path])
    PROVE  SchemaMatchesHistory'
  <1>1. ASSUME NEW path \in AllPaths, file'[path].kind = "database"
        PROVE  IsPrefix(file'[path].applied, Versions(Len(file'[path].applied)))
    <2>1. file'[path] \in Database
      BY <1>1, Rows DEF TypeOK
    <2>2. file'[path].applied \in Seq(Nat) /\ Matches(file'[path])
      BY <1>1, <2>1, Rows
    <2> QED
      BY <2>2, PrefixFacts DEF Matches
  <1> QED
    BY <1>1 DEF SchemaMatchesHistory, Usable, Matches

----------------------------------------------------------------------------
\* One step.

\* A program that has a file open.
On(q, path) == prog[q].pc \in OpenSteps \cup OpenedSteps /\ prog[q].path = path

\* It is its own file, or the temporary one nobody else has.
LEMMA OwnFile ==
    ASSUME StorageFilesAssumption, StorageInv, NEW q \in Programs, NEW path, On(q, path)
    PROVE  path \in AllPaths /\ (path = q \/ (path = PathOf[q] /\ path \notin Programs))
  <1>1. path = q \/ path = PathOf[q]
    BY DEF On, StorageInv, PlaceInv
  <1>2. PathOf[q] \in Paths /\ PathOf[q] \notin Programs
    BY DEF StorageFilesAssumption
  <1> QED
    BY <1>1, <1>2 DEF AllPaths

\* Lengths of histories are numbers, whatever the step did.
LEMMA Lengths ==
    ASSUME TypeOK, NEW path \in AllPaths, Usable(path)
    PROVE  file[path] \in Database /\ Len(file[path].applied) \in Nat
  BY UsableIs, Rows

LEMMA LengthsNext ==
    ASSUME TypeOK', NEW path \in AllPaths, file'[path].kind = "database"
    PROVE  file'[path] \in Database /\ Len(file'[path].applied) \in Nat
  <1>1. file'[path] \in Database \cup {Absent, Damaged}
    BY DEF TypeOK
  <1>2. file'[path] \in Database
    BY <1>1, Rows
  <1> QED
    BY <1>2, Rows

\* A program that has not seen its file changed finds it as it left it.
LEMMA OtherOpens ==
    ASSUME StorageFilesAssumption, StorageInv, TypeOK', NEW q \in Programs,
           prog'[q] = prog[q], On(q, prog[q].path) => Kept(prog[q].path)
    PROVE  OpenInv(q)'
  <1> DEFINE path == prog[q].path
             Busy == prog[q].pc \in {"history", "migrate"} \cup OpenedSteps
  <1>1. OpenInv(q)
    BY DEF StorageInv
  <1>2. Busy => Usable(path) /\ On(q, path)
    BY <1>1 DEF OpenInv, On, OpenSteps, OpenedSteps
  <1>3. Busy => /\ file'[path].kind = "database"
                /\ Len(file[path].applied) <= Len(file'[path].applied)
    BY <1>2 DEF Kept, Usable
  <1>4. Busy => path \in AllPaths
    BY <1>2, OwnFile
  <1>5. Busy => Len(file[path].applied) \in Nat /\ Len(file'[path].applied) \in Nat
    BY <1>2, <1>3, <1>4, Lengths, LengthsNext DEF StorageInv
  <1>6. prog[q].applied \in Seq(Nat) /\ CodeVersion[q] \in Nat
    BY DEF StorageInv, TypeOK, StorageFilesAssumption
  <1>7. Len(prog[q].applied) \in Nat
    BY <1>6
  <1>8. Busy => Usable(path)'
    BY <1>3 DEF Usable
  <1> QED
    <2>1. prog[q].pc \in {"history", "migrate"} \cup OpenedSteps => file'[path].kind = "database"
      BY <1>3
    <2>2. prog[q].pc = "migrate" =>
             /\ prog[q].applied = Versions(Len(prog[q].applied))
             /\ Len(prog[q].applied) <= Len(file'[path].applied)
      <3> SUFFICES ASSUME prog[q].pc = "migrate"
                   PROVE  /\ prog[q].applied = Versions(Len(prog[q].applied))
                          /\ Len(prog[q].applied) <= Len(file'[path].applied)
        OBVIOUS
      <3>1. /\ prog[q].applied = Versions(Len(prog[q].applied))
            /\ Len(prog[q].applied) <= Len(file[path].applied)
        BY <1>1, Zenon DEF OpenInv
      <3>2. PICK k \in Nat, n \in Nat, m \in Nat :
                /\ k = Len(prog[q].applied) /\ n = Len(file[path].applied)
                /\ m = Len(file'[path].applied)
        BY <1>5, <1>7, Zenon
      <3>3. k <= n /\ n <= m
        BY <1>3, <3>1, <3>2, Zenon
      <3>4. k <= m
        BY <3>3
      <3> QED
        BY <3>1, <3>2, <3>4, Zenon
    <2>3. prog[q].pc \in OpenedSteps => CodeVersion[q] <= Len(file'[path].applied)
      <3> SUFFICES ASSUME prog[q].pc \in OpenedSteps
                   PROVE  CodeVersion[q] <= Len(file'[path].applied)
        OBVIOUS
      <3>1. CodeVersion[q] <= Len(file[path].applied)
        BY <1>1, Zenon DEF OpenInv
      <3>2. PICK k \in Nat, n \in Nat, m \in Nat :
                /\ k = CodeVersion[q] /\ n = Len(file[path].applied)
                /\ m = Len(file'[path].applied)
        BY <1>5, <1>6, Zenon
      <3>3. k <= n /\ n <= m
        BY <1>3, <3>1, <3>2, Zenon
      <3>4. k <= m
        BY <3>3
      <3> QED
        BY <3>2, <3>4, Zenon
    <2> QED
      BY <2>1, <2>2, <2>3 DEF OpenInv, Usable

\* One program goes on, and the files others have open are kept.
LEMMA StepKeeps ==
    ASSUME StorageFilesAssumption, StorageInv, NEW p \in Programs, NEW r \in ProgramRow,
           prog' = [prog EXCEPT ![p] = r],
           file' \in [AllPaths -> Database \cup {Absent, Damaged}],
           starts' \in [Programs -> Nat], sent' \in Seq([key : Keys, path : AllPaths]),
           done' = done \/ done' = done \cup {p},
           \A path \in AllPaths : file'[path].kind = "database" => Matches(file'[path]),
           \A path \in AllPaths \ {p} :
              \/ Kept(path)
              \/ /\ file'[path].kind = "database"
                 /\ \A q \in Programs \ {p} : ~On(q, path)
              \/ path \in Paths /\ \A q \in Programs : PathOf[q] # path,
           PlaceInv(p)', OpenInv(p)', DoneInv(p)'
    PROVE  StorageInv'
  <1>1. prog \in [Programs -> ProgramRow] /\ done \subseteq Programs
    BY DEF StorageInv, TypeOK, ProgramRow
  <1>2. TypeOK'
    BY <1>1 DEF TypeOK, ProgramRow
  <1>3. SchemaMatchesHistory'
    BY <1>2, HistoryNext
  <1>4. ASSUME NEW q \in Programs, q # p
        PROVE  PlaceInv(q)' /\ OpenInv(q)' /\ DoneInv(q)'
    <2>1. prog'[q] = prog[q]
      BY <1>1, <1>4
    <2>2. PlaceInv(q)'
      <3>1. PlaceInv(q)
        BY DEF StorageInv
      <3> QED
        BY <2>1, <3>1 DEF PlaceInv, Task
    <2>3. OpenInv(q)'
      <3>1. ASSUME On(q, prog[q].path) PROVE Kept(prog[q].path)
        <4>1. PICK path : path = prog[q].path /\ On(q, path)
          BY <3>1
        <4>2. path \in AllPaths /\ (path = q \/ (path = PathOf[q] /\ path \notin Programs))
          BY <4>1, OwnFile
        <4>3. path # p /\ ~(path \in Paths /\ \A x \in Programs : PathOf[x] # path)
          BY <1>4, <4>2 DEF StorageFilesAssumption
        <4>4. Kept(path)
          BY <1>4, <4>1, <4>2, <4>3
        <4> QED
          BY <4>1, <4>4
      <3> QED
        BY <1>2, <2>1, <3>1, OtherOpens
    <2>4. DoneInv(q)'
      <3> SUFFICES ASSUME q \in done', Role[q] = "restore"
                   PROVE  prog'[q].pc = "idle" /\ file'[PathOf[q]].kind = "database"
        BY DEF DoneInv, Usable
      <3>1. prog[q].pc = "idle" /\ Usable(PathOf[q])
        BY <1>4 DEF StorageInv, DoneInv
      <3>2. PathOf[q] \in AllPaths \ {p}
        BY DEF StorageFilesAssumption, AllPaths
      <3>3. Kept(PathOf[q]) \/ file'[PathOf[q]].kind = "database"
        BY <3>2
      <3> QED
        BY <2>1, <3>1, <3>3 DEF Kept, Usable
    <2> QED
      BY <2>2, <2>3, <2>4
  <1> QED
    BY <1>2, <1>3, <1>4 DEF StorageInv

\* One program changes one file.
LEMMA FileStep ==
    ASSUME StorageFilesAssumption, StorageInv, NEW p \in Programs, NEW r \in ProgramRow,
           NEW x \in AllPaths, NEW row \in Database \cup {Absent, Damaged},
           prog' = [prog EXCEPT ![p] = r], file' = [file EXCEPT ![x] = row],
           starts' \in [Programs -> Nat], sent' \in Seq([key : Keys, path : AllPaths]),
           done' = done \/ done' = done \cup {p},
           row.kind = "database" => Matches(row),
           \/ x = p
           \/ x \in Paths /\ \A q \in Programs : PathOf[q] # x
           \/ Usable(x) => row.kind = "database" /\ Len(file[x].applied) <= Len(row.applied),
           PlaceInv(p)', OpenInv(p)', DoneInv(p)'
    PROVE  StorageInv'
  <1>1. file \in [AllPaths -> Database \cup {Absent, Damaged}]
    BY DEF StorageInv, TypeOK
  <1>2. file' \in [AllPaths -> Database \cup {Absent, Damaged}]
    BY <1>1
  <1>3. \A path \in AllPaths : file'[path] = IF path = x THEN row ELSE file[path]
    BY <1>1
  <1>4. \A path \in AllPaths : file'[path].kind = "database" => Matches(file'[path])
    BY <1>3, HistoryIs DEF StorageInv, Usable
  <1>5. ASSUME NEW path \in AllPaths \ {p}
        PROVE  \/ Kept(path)
               \/ path \in Paths /\ \A q \in Programs : PathOf[q] # path
    <2>1. CASE path = x
      BY <1>3, <2>1 DEF Kept, Usable
    <2>2. CASE path # x
      <3>1. file'[path] = file[path]
        BY <1>3, <2>2
      <3>2. Usable(path) => Len(file[path].applied) \in Nat
        BY Lengths DEF StorageInv
      <3> QED
        BY <3>1, <3>2 DEF Kept, Usable
    <2> QED
      BY <2>1, <2>2
  <1> QED
    BY <1>2, <1>4, <1>5, StepKeeps

\* One program goes on and the files stay as they are.
LEMMA ProgramStep ==
    ASSUME StorageFilesAssumption, StorageInv, NEW p \in Programs, NEW r \in ProgramRow,
           prog' = [prog EXCEPT ![p] = r], file' = file,
           starts' \in [Programs -> Nat], sent' = sent,
           done' = done \/ done' = done \cup {p},
           PlaceInv(p)', OpenInv(p)', DoneInv(p)'
    PROVE  StorageInv'
  <1>1. file \in [AllPaths -> Database \cup {Absent, Damaged}]
    BY DEF StorageInv, TypeOK
  <1>2. p \in AllPaths
    BY DEF AllPaths
  <1>3. file' = [file EXCEPT ![p] = file[p]]
    BY <1>1
  <1>4. file[p] \in Database \cup {Absent, Damaged}
    BY <1>1, <1>2
  <1>5. file[p].kind = "database" => Matches(file[p])
    BY <1>2, HistoryIs DEF StorageInv, Usable
  <1>6. sent' \in Seq([key : Keys, path : AllPaths])
    BY DEF StorageInv, TypeOK
  <1> QED
    BY <1>2, <1>3, <1>4, <1>5, <1>6, FileStep

\* The frame of a step that reserves nothing and reports nothing.
LEMMA Frame ==
    ASSUME StorageInv
    PROVE  /\ starts \in [Programs -> Nat] /\ sent \in Seq([key : Keys, path : AllPaths])
           /\ prog \in [Programs -> ProgramRow]
           /\ file \in [AllPaths -> Database \cup {Absent, Damaged}]
  BY DEF StorageInv, TypeOK, ProgramRow

\* A restore that is at work has not reported success.
LEMMA NotDone ==
    ASSUME StorageInv, NEW p \in Programs, prog[p].pc # "idle", done' = done
    PROVE  DoneInv(p)'
  BY DEF StorageInv, DoneInv

\* A program at rest has nothing to keep.
LEMMA Rests ==
    ASSUME StorageFilesAssumption, NEW p \in Programs
    PROVE  /\ Idle \in ProgramRow
           /\ prog'[p] = Idle => PlaceInv(p)' /\ OpenInv(p)'
  <1>1. PathOf[p] \in Paths
    BY DEF StorageFilesAssumption
  <1>2. (CHOOSE path \in Paths : TRUE) \in AllPaths
    BY <1>1 DEF AllPaths
  <1>3. Idle \in ProgramRow /\ Idle.pc = "idle"
    BY <1>2 DEF Idle, ProgramRow
  <1>4. ASSUME prog'[p] = Idle PROVE PlaceInv(p)' /\ OpenInv(p)'
    BY <1>3, <1>4 DEF PlaceInv, OpenInv, Task, Tasks, OpenSteps, OpenedSteps
  <1> QED
    BY <1>3, <1>4

\* A program that begins to open a file.
LEMMA OpensRow ==
    ASSUME NEW p \in Programs, NEW path \in AllPaths, NEW then \in TaskSteps,
           prog'[p] = Opens(path, then)
    PROVE  /\ Opens(path, then) \in ProgramRow
           /\ Task(p)' = then /\ prog'[p].pc = "open" /\ prog'[p].path = path
           /\ OpenInv(p)'
  <1>1. Opens(path, then) \in ProgramRow
    BY DEF Opens, ProgramRow, OpenSteps, TaskSteps
  <1>2. prog'[p].pc = "open" /\ prog'[p].path = path /\ prog'[p].then = then
    BY DEF Opens
  <1>3. Task(p)' = then
    BY <1>2 DEF Task, OpenSteps
  <1>4. OpenInv(p)'
    BY <1>2 DEF OpenInv, OpenedSteps
  <1> QED
    BY <1>1, <1>2, <1>3, <1>4

----------------------------------------------------------------------------
\* The actions.

LEMMA InitStorage ==
    ASSUME StorageFilesAssumption, Init
    PROVE  StorageInv
  <1>1. Absent.kind = "absent"
    BY Rows
  <1>2. \A path \in AllPaths : file[path] = Absent
    BY DEF Init
  <1>3. TypeOK
    BY Rests DEF Init, TypeOK, ProgramRow
  <1>4. SchemaMatchesHistory
    BY <1>1, <1>2 DEF SchemaMatchesHistory, Usable
  <1>5. ASSUME NEW p \in Programs PROVE PlaceInv(p) /\ OpenInv(p) /\ DoneInv(p)
    <2>1. prog[p].pc = "idle" /\ done = {}
      BY DEF Init, Idle
    <2> QED
      BY <2>1 DEF PlaceInv, OpenInv, DoneInv, Task, Tasks, OpenSteps, OpenedSteps
  <1> QED
    BY <1>3, <1>4, <1>5 DEF StorageInv

\* A program that fails leaves its own temporary file.
LEMMA FailsKeeps ==
    ASSUME StorageFilesAssumption, StorageInv, NEW p \in Programs, prog[p].pc # "idle",
           Fails(p), UNCHANGED <<starts, done, sent>>
    PROVE  StorageInv'
  <1>1. /\ prog' = [prog EXCEPT ![p] = Idle] /\ file' = [file EXCEPT ![p] = Absent]
        /\ UNCHANGED <<starts, done, sent>>
    BY DEF Fails, Stops
  <1>2. prog'[p] = Idle
    BY <1>1, Frame
  <1>3. p \in AllPaths /\ Absent.kind # "database"
    BY Rows DEF AllPaths
  <1>4. DoneInv(p)'
    BY NotDone
  <1>5. PlaceInv(p)' /\ OpenInv(p)' /\ Idle \in ProgramRow
    BY <1>2, Rests
  <1> QED
    BY <1>1, <1>3, <1>4, <1>5, Frame, FileStep

\* The restore or the file a step goes on with is the one it had.
LEMMA SameTask ==
    ASSUME StorageInv, NEW p \in Programs, prog[p].pc \in OpenSteps \cup OpenedSteps,
           prog'[p].pc \in OpenSteps \cup OpenedSteps, prog'[p].path = prog[p].path,
           Task(p)' = Task(p), done' = done,
           prog'[p].pc \in OpenSteps => prog'[p].then = prog[p].then,
           prog[p].pc \in OpenedSteps => prog'[p].pc \in OpenedSteps
    PROVE  PlaceInv(p)'
  <1>1. PlaceInv(p)
    BY DEF StorageInv
  <1>2. prog[p].pc # "idle"
    BY DEF OpenSteps, OpenedSteps
  <1>3. prog'[p].pc \in OpenSteps => prog[p].pc \in OpenSteps
    BY DEF OpenSteps, OpenedSteps
  <1> QED
    BY <1>1, <1>2, <1>3 DEF PlaceInv

LEMMA EnsureTableKeeps ==
    ASSUME StorageFilesAssumption, StorageInv, NEW p \in Programs, EnsureTable(p)
    PROVE  StorageInv'
  <1> DEFINE path == prog[p].path
             old == file[path]
             r == [prog[p] EXCEPT !.pc = "history"]
             row == IF Usable(path) THEN [old EXCEPT !.table = TRUE]
                    ELSE [Empty EXCEPT !.table = TRUE]
  <1>1. prog[p].pc = "open" /\ UNCHANGED <<starts, done, sent>>
    BY DEF EnsureTable
  <1>2. CASE old.kind = "damaged"
    BY <1>1, <1>2, FailsKeeps DEF EnsureTable
  <1>3. CASE old.kind # "damaged"
    <2>1. /\ file' = [file EXCEPT ![path] = row]
          /\ prog' = [prog EXCEPT ![p] = r]
      BY <1>3, Frame DEF EnsureTable, Goto
    <2>2. On(p, path) /\ path \in AllPaths
      BY <1>1, OwnFile DEF On, OpenSteps
    <2>3. r \in ProgramRow /\ r.pc = "history" /\ r.path = path /\ r.then = prog[p].then
      BY Frame DEF ProgramRow, OpenSteps
    <2>4. /\ row \in Database /\ Matches(row)
          /\ Usable(path) => Len(old.applied) \in Nat /\ row.applied = old.applied
      <3>1. CASE Usable(path)
        <4>1. old \in Database /\ Matches(old) /\ Len(old.applied) \in Nat
          BY <2>2, <3>1, Lengths, HistoryIs DEF StorageInv
        <4>2. row = [old EXCEPT !.table = TRUE]
          BY <3>1
        <4> HIDE DEF old, row
        <4>3. row \in Database /\ row.applied = old.applied /\ row.schema = old.schema
          BY <4>1, <4>2 DEF Database
        <4> QED
          BY <4>1, <4>3 DEF Matches
      <3>2. CASE ~Usable(path)
        <4>1. row = [Empty EXCEPT !.table = TRUE]
          BY <3>2
        <4> HIDE DEF old, row
        <4>2. row \in Database /\ row.applied = <<>> /\ row.schema = {}
          BY <4>1, Rows DEF Database
        <4> QED
          BY <3>2, <4>2, VersionsFacts DEF Matches
      <3> QED
        BY <3>1, <3>2
    <2> HIDE DEF r, row
    <2>5. prog'[p] = r /\ file'[path] = row
      BY <2>1, <2>2, Frame
    <2>6. PlaceInv(p)'
      BY <1>1, <2>3, <2>5, SameTask DEF Task, OpenSteps, OpenedSteps
    <2>7. OpenInv(p)'
      BY <2>3, <2>4, <2>5, Rows DEF OpenInv, Usable, OpenedSteps
    <2>8. DoneInv(p)'
      BY <1>1, NotDone
    <2>9. row.kind = "database"
      BY <2>4, Rows
    <2>10. Usable(path) => Len(old.applied) <= Len(row.applied)
      BY <2>4
    <2> QED
      BY <1>1, <2>1, <2>2, <2>3, <2>4, <2>6, <2>7, <2>8, <2>9, <2>10, Frame, FileStep
  <1> QED
    BY <1>2, <1>3

LEMMA ReadHistoryKeeps ==
    ASSUME StorageFilesAssumption, StorageInv, NEW p \in Programs, ReadHistory(p)
    PROVE  StorageInv'
  <1> DEFINE path == prog[p].path
             r == [prog[p] EXCEPT !.pc = "migrate", !.applied = file[path].applied]
  <1>1. prog[p].pc = "history" /\ UNCHANGED <<starts, done, sent>>
    BY DEF ReadHistory
  <1>2. CASE ~(Usable(path) /\ KnownPrefix(file[path].applied, p))
    <2>1. Fails(p)
      BY <1>2, Zenon DEF ReadHistory
    <2> QED
      BY <1>1, <2>1, FailsKeeps
  <1>3. CASE Usable(path) /\ KnownPrefix(file[path].applied, p)
    <2>1. /\ prog' = [prog EXCEPT ![p].pc = "migrate", ![p].applied = file[path].applied]
          /\ UNCHANGED file
      BY <1>3, Zenon DEF ReadHistory
    <2>2. prog' = [prog EXCEPT ![p] = r]
      BY <2>1, Frame
    <2>3. On(p, path) /\ path \in AllPaths
      BY <1>1, OwnFile DEF On, OpenSteps
    <2>4. file[path] \in Database /\ Matches(file[path]) /\ Len(file[path].applied) \in Nat
      BY <1>3, <2>3, Lengths, HistoryIs DEF StorageInv
    <2>5. file[path].applied \in Seq(Nat)
      BY <2>4, Rows
    <2>6. /\ r \in ProgramRow /\ r.pc = "migrate" /\ r.path = path /\ r.then = prog[p].then
          /\ r.applied = file[path].applied
      BY <2>5, Frame DEF ProgramRow, OpenSteps
    <2> HIDE DEF r
    <2>7. prog'[p] = r
      BY <2>2, Frame
    <2>8. PlaceInv(p)'
      BY <1>1, <2>6, <2>7, SameTask DEF Task, OpenSteps, OpenedSteps
    <2>9. OpenInv(p)'
      BY <1>3, <2>1, <2>4, <2>6, <2>7 DEF OpenInv, Usable, OpenedSteps, Matches
    <2>10. DoneInv(p)'
      BY <1>1, NotDone
    <2> QED
      BY <1>1, <2>1, <2>2, <2>6, <2>8, <2>9, <2>10, Frame, ProgramStep
  <1> QED
    BY <1>2, <1>3

LEMMA MigratedRow ==
    ASSUME NEW old \in Database, NEW k \in Nat, old.applied = Versions(k), old.schema = 1..k,
           NEW row, row = [old EXCEPT !.schema = old.schema \cup {k + 1},
                                      !.applied = Append(old.applied, k + 1)]
    PROVE  /\ row \in Database
           /\ row.applied = Versions(k + 1) /\ Len(row.applied) = k + 1
           /\ row.schema = 1..(k + 1)
  <1>1. /\ Append(old.applied, k + 1) = Versions(k + 1)
        /\ Versions(k + 1) \in Seq(Nat) /\ Len(Versions(k + 1)) = k + 1
    BY VersionsFacts
  <1>2. (1..k) \cup {k + 1} = 1..(k + 1)
    OBVIOUS
  <1>3. old.schema \cup {k + 1} = 1..(k + 1)
    BY <1>2
  <1>4. 1..(k + 1) \in SUBSET Nat
    OBVIOUS
  <1>5. row = [old EXCEPT !.schema = 1..(k + 1), !.applied = Versions(k + 1)]
    BY <1>1, <1>3
  <1>6. row \in Database
    BY <1>1, <1>4, <1>5 DEF Database
  <1>7. row.applied = Versions(k + 1) /\ row.schema = 1..(k + 1)
    BY <1>5 DEF Database
  <1> QED
    BY <1>1, <1>6, <1>7

\* The transaction of a migration makes its file one longer, or fails: the
\* history may be longer than what the program has read, and then the
\* statements are there already.
LEMMA MigrateKeeps ==
    ASSUME StorageFilesAssumption, StorageInv, NEW p \in Programs, Migrate(p)
    PROVE  StorageInv'
  <1> DEFINE path == prog[p].path
             old == file[path]
             next == Len(prog[p].applied) + 1
             row == Migrated(old, next)
  <1>1. prog[p].pc = "migrate" /\ UNCHANGED <<starts, done, sent>>
    BY DEF Migrate
  <1>2. On(p, path) /\ path \in AllPaths /\ PlaceInv(p) /\ OpenInv(p)
    BY <1>1, OwnFile DEF On, OpenSteps, StorageInv
  <1>3. Usable(path) /\ old \in Database /\ Matches(old)
    BY <1>1, <1>2, Lengths, HistoryIs DEF OpenInv, StorageInv
  <1>4. PICK n \in Nat, k \in Nat : n = Len(old.applied) /\ k = Len(prog[p].applied)
    <2>1. Len(old.applied) \in Nat
      BY <1>2, <1>3, Lengths DEF StorageInv
    <2>2. prog[p].applied \in Seq(Nat)
      BY Frame DEF ProgramRow
    <2>3. Len(prog[p].applied) \in Nat
      BY <2>2
    <2> QED
      BY <2>1, <2>3, Zenon
  <1>5. prog[p].applied = Versions(k) /\ k <= n /\ old.applied = Versions(n) /\ old.schema = 1..n
    BY <1>1, <1>2, <1>3, <1>4 DEF OpenInv, Matches
  <1>6. next = k + 1
    BY <1>4
  <1>7. DoneInv(p)'
    BY <1>1, NotDone
  <1>8. prog[p].then \in TaskSteps /\ prog[p] \in ProgramRow /\ CodeVersion[p] \in Nat
    BY <1>1, <1>2, Frame DEF ProgramRow, PlaceInv, OpenSteps, StorageFilesAssumption
  <1>9. CASE next > CodeVersion[p]
    <2> DEFINE r == [prog[p] EXCEPT !.pc = prog[p].then]
    <2>1. prog' = [prog EXCEPT ![p] = r] /\ UNCHANGED file
      BY <1>9, Frame DEF Migrate, Goto
    <2>2. r \in ProgramRow /\ r.pc = prog[p].then /\ r.path = path /\ r.then = prog[p].then
      BY <1>8, Frame DEF ProgramRow, OpenSteps, OpenedSteps, TaskSteps
    <2> HIDE DEF r
    <2>3. prog'[p] = r
      BY <2>1, Frame
    <2>4. r.pc \in OpenedSteps /\ r.pc \notin OpenSteps
      BY <1>8, <2>2 DEF OpenSteps, OpenedSteps, TaskSteps, TaskSteps
    <2>5. Task(p)' = Task(p)
      BY <1>1, <2>2, <2>3, <2>4 DEF Task, OpenSteps
    <2>6. PlaceInv(p)'
      BY <1>1, <2>2, <2>3, <2>4, <2>5, SameTask DEF OpenSteps
    <2>7. CodeVersion[p] <= n
      BY <1>5, <1>6, <1>8, <1>9
    <2>8. OpenInv(p)'
      BY <1>3, <1>4, <2>1, <2>2, <2>3, <2>4, <2>7 DEF OpenInv, Usable, OpenedSteps
    <2> QED
      BY <1>1, <1>7, <2>1, <2>2, <2>6, <2>8, Frame, ProgramStep
  <1>10. CASE ~(next > CodeVersion[p]) /\ row = old
    <2>1. Fails(p)
      BY <1>10, Zenon DEF Migrate
    <2> QED
      BY <1>1, <2>1, FailsKeeps
  <1>11. CASE ~(next > CodeVersion[p]) /\ row # old
    <2> DEFINE r == [prog[p] EXCEPT !.applied = Append(prog[p].applied, next)]
    <2>1. /\ file' = [file EXCEPT ![path] = row]
          /\ prog' = [prog EXCEPT ![p] = r]
      BY <1>3, <1>11, Frame DEF Migrate
    <2>2. k + 1 \notin 1..n
      BY <1>5, <1>6, <1>11 DEF Migrated
    <2>3. n = k
      BY <1>5, <2>2
    <2>4. row = [old EXCEPT !.schema = old.schema \cup {k + 1}, !.applied = Append(old.applied, k + 1)]
      BY <1>5, <1>6, <2>2 DEF Migrated
    <2> HIDE DEF row
    <2>5. old.applied = Versions(k) /\ old.schema = 1..k
      BY <1>5, <2>3
    <2>6. /\ row \in Database
          /\ row.applied = Versions(k + 1) /\ Len(row.applied) = k + 1 /\ row.schema = 1..(k + 1)
      <3> HIDE DEF old
      <3> QED
        BY <1>3, <2>4, <2>5, MigratedRow
    <2>7. r.applied = Versions(k + 1) /\ Len(r.applied) = k + 1 /\ r.applied \in Seq(Nat)
      BY <1>5, <1>6, <1>8, VersionsFacts DEF ProgramRow
    <2>8. r \in ProgramRow /\ r.pc = "migrate" /\ r.path = path /\ r.then = prog[p].then
      BY <1>1, <1>8, <2>7 DEF ProgramRow
    <2> HIDE DEF r
    <2>9. prog'[p] = r /\ file'[path] = row
      BY <1>2, <2>1, Frame
    <2>10. row.kind = "database" /\ Matches(row)
      BY <2>6, Rows DEF Matches
    <2>11. PlaceInv(p)'
      BY <1>1, <2>8, <2>9, SameTask DEF Task, OpenSteps, OpenedSteps
    <2>12. OpenInv(p)'
      BY <2>6, <2>7, <2>8, <2>9, <2>10 DEF OpenInv, Usable, OpenedSteps
    <2>13. Len(old.applied) <= Len(row.applied)
      BY <1>4, <2>3, <2>6
    <2> QED
      BY <1>1, <1>2, <1>7, <2>1, <2>6, <2>8, <2>10, <2>11, <2>12, <2>13, Frame, FileStep
  <1> QED
    BY <1>9, <1>10, <1>11

LEMMA StartKeeps ==
    ASSUME StorageFilesAssumption, StorageInv, NEW p \in Programs, Start(p)
    PROVE  StorageInv'
  <1> DEFINE r == CASE Role[p] = "serve" -> Opens(PathOf[p], "serving")
                    [] Role[p] \in {"verify", "backup"} -> Opens(PathOf[p], "verify")
                    [] Role[p] = "restore" -> [Idle EXCEPT !.pc = "copy"]
  <1>1. /\ prog[p].pc = "idle" /\ Waits[p] \subseteq done /\ PathsAsExpected(p)
        /\ starts' = [starts EXCEPT ![p] = @ + 1]
        /\ prog' = [prog EXCEPT ![p] = r] /\ UNCHANGED <<file, done, sent>>
    BY DEF Start
  <1>2. /\ starts' \in [Programs -> Nat] /\ PathOf[p] \in AllPaths
        /\ Role[p] \in {"serve", "verify", "backup", "restore"}
    BY <1>1, Frame DEF StorageFilesAssumption, AllPaths
  <1>3. CASE Role[p] \in {"serve", "verify", "backup"}
    <2> DEFINE then == IF Role[p] = "serve" THEN "serving" ELSE "verify"
    <2>1. r = Opens(PathOf[p], then) /\ then \in TaskSteps \ {"integrity"}
          /\ then \in Tasks(Role[p])
      BY <1>3 DEF OpenedSteps, TaskSteps, Tasks
    <2> HIDE DEF r, then
    <2>2. prog'[p] = Opens(PathOf[p], then)
      BY <1>1, <2>1, Frame
    <2>3. /\ r \in ProgramRow /\ Task(p)' = then /\ prog'[p].pc = "open"
          /\ prog'[p].path = PathOf[p] /\ OpenInv(p)'
      BY <1>2, <2>1, <2>2, OpensRow
    <2>4. prog'[p].then = then
      BY <2>2 DEF Opens
    <2>5. PlaceInv(p)'
      BY <1>1, <2>1, <2>3, <2>4 DEF PlaceInv, OpenedSteps, TaskSteps, TaskSteps
    <2>6. DoneInv(p)'
      BY <1>3 DEF DoneInv
    <2> QED
      BY <1>1, <1>2, <2>3, <2>5, <2>6, ProgramStep
  <1>4. CASE Role[p] = "restore"
    <2>1. r = [Idle EXCEPT !.pc = "copy"]
      BY <1>4
    <2> HIDE DEF r
    <2>2. r \in ProgramRow /\ r.pc = "copy"
      BY <2>1, Rests DEF ProgramRow
    <2>3. prog'[p] = r
      BY <1>1, Frame
    <2>4. PlaceInv(p)'
      BY <1>1, <1>4, <2>2, <2>3 DEF PlaceInv, Task, Tasks, OpenSteps, OpenedSteps
    <2>5. OpenInv(p)'
      BY <2>2, <2>3 DEF OpenInv, OpenedSteps
    <2>6. file[PathOf[p]] = Absent
      BY <1>1, <1>4 DEF PathsAsExpected
    <2>7. DoneInv(p)'
      BY <1>1, <1>4, <2>6, Rows DEF DoneInv, StorageInv, Usable
    <2> QED
      BY <1>1, <1>2, <2>2, <2>4, <2>5, <2>7, ProgramStep
  <1> QED
    BY <1>2, <1>3, <1>4

\* A copy is the database it was taken from, but for what it is to remember.
LEMMA CopyFacts ==
    ASSUME StorageInv, NEW path \in AllPaths
    PROVE  /\ CopyOf(path) \in Database \cup {Absent, Damaged}
           /\ CopyOf(path).kind = "database" <=> Usable(path)
           /\ CopyOf(path).kind = "database" => Matches(CopyOf(path))
           /\ Usable(path) => /\ CopyOf(path) \in Database
                              /\ CopyOf(path).past = Past(path)
                              /\ CopyOf(path).keys = file[path].keys
                              /\ CopyOf(path).table = file[path].table
           /\ ~Usable(path) => CopyOf(path) = file[path]
  <1> DEFINE old == file[path]
             past == Past(path)
             new == CopyOf(path)
  <1>1. old \in Database \cup {Absent, Damaged} /\ (Usable(path) <=> old \in Database)
    BY UsableIs DEF StorageInv
  <1>2. CASE Usable(path)
    <2>1. old \in Database /\ Matches(old)
      BY <1>1, <1>2, HistoryIs DEF StorageInv
    <2>2. past \in SUBSET Nat
      <3>1. DOMAIN sent \subseteq Nat
        BY Frame
      <3> QED
        BY <2>1, <3>1, Rows DEF Past
    <2>3. new = [old EXCEPT !.past = past]
      BY <1>2 DEF CopyOf
    <2> HIDE DEF old, past, new
    <2>4. /\ new \in Database /\ new.past = past /\ new.keys = old.keys /\ new.table = old.table
          /\ new.applied = old.applied /\ new.schema = old.schema
      BY <2>1, <2>2, <2>3 DEF Database
    <2>5. Matches(new) /\ new.kind = "database"
      BY <2>1, <2>4, Rows DEF Matches
    <2> QED
      BY <1>2, <2>4, <2>5 DEF old, past, new
  <1>3. CASE ~Usable(path)
    <2>1. new = old
      BY <1>3 DEF CopyOf
    <2>2. new.kind # "database"
      BY <1>3, <2>1 DEF Usable
    <2> QED
      BY <1>1, <1>3, <2>1, <2>2
  <1> QED
    BY <1>2, <1>3

LEMMA CopyKeeps ==
    ASSUME StorageFilesAssumption, StorageInv, NEW p \in Programs, Copy(p)
    PROVE  StorageInv'
  <1> DEFINE r == [prog[p] EXCEPT !.pc = "check"]
             row == CopyOf(Source[p])
  <1>1. /\ prog[p].pc = "copy" /\ UNCHANGED <<starts, done, sent>>
        /\ file' = [file EXCEPT ![p] = row]
        /\ prog' = [prog EXCEPT ![p] = r]
    BY Frame DEF Copy, Goto
  <1>2. p \in AllPaths /\ Source[p] \in AllPaths
    BY DEF StorageFilesAssumption, AllPaths
  <1>3. row \in Database \cup {Absent, Damaged} /\ (row.kind = "database" => Matches(row))
    BY <1>2, CopyFacts
  <1>4. r \in ProgramRow /\ r.pc = "check"
    BY Frame DEF ProgramRow
  <1> HIDE DEF r, row
  <1>5. prog'[p] = r
    BY <1>1, Frame
  <1>6. PlaceInv(p)
    BY DEF StorageInv
  <1>7. Role[p] = "restore"
    BY <1>1, <1>6 DEF PlaceInv, Task, Tasks, OpenSteps, StorageFilesAssumption
  <1>8. PlaceInv(p)'
    BY <1>1, <1>4, <1>5, <1>6, <1>7 DEF PlaceInv, Task, Tasks, OpenSteps, OpenedSteps
  <1>9. OpenInv(p)'
    BY <1>4, <1>5 DEF OpenInv, OpenedSteps
  <1>10. DoneInv(p)'
    BY <1>1, NotDone
  <1> QED
    BY <1>1, <1>2, <1>3, <1>4, <1>8, <1>9, <1>10, Frame, FileStep

LEMMA CheckSourceKeeps ==
    ASSUME StorageFilesAssumption, StorageInv, NEW p \in Programs, CheckSource(p)
    PROVE  StorageInv'
  <1>1. prog[p].pc = "check" /\ UNCHANGED <<starts, done, sent>>
    BY DEF CheckSource
  <1>2. CASE ~SourceValid(p)
    BY <1>1, <1>2, FailsKeeps DEF CheckSource
  <1>3. CASE SourceValid(p)
    <2>1. prog' = [prog EXCEPT ![p] = Opens(p, "integrity")] /\ UNCHANGED file
      BY <1>3 DEF CheckSource
    <2>2. prog'[p] = Opens(p, "integrity") /\ p \in AllPaths /\ "integrity" \in TaskSteps
      BY <2>1, Frame DEF AllPaths, OpenedSteps, TaskSteps, TaskSteps
    <2>3. /\ Opens(p, "integrity") \in ProgramRow
          /\ Task(p)' = "integrity" /\ prog'[p].pc = "open" /\ prog'[p].path = p
          /\ OpenInv(p)'
      BY <2>2, OpensRow
    <2>4. prog'[p].then = "integrity"
      BY <2>2 DEF Opens
    <2>5. PlaceInv(p)
      BY DEF StorageInv
    <2>6. Role[p] = "restore"
      BY <1>1, <2>5 DEF PlaceInv, Task, Tasks, OpenSteps, StorageFilesAssumption
    <2>7. PlaceInv(p)'
      BY <1>1, <2>3, <2>4, <2>5, <2>6 DEF PlaceInv, Tasks
    <2>8. DoneInv(p)'
      BY <1>1, NotDone
    <2> QED
      BY <1>1, <2>1, <2>3, <2>7, <2>8, Frame, ProgramStep
  <1> QED
    BY <1>2, <1>3

LEMMA RejectKeeps ==
    ASSUME StorageFilesAssumption, StorageInv, NEW p \in Programs, Reject(p)
    PROVE  StorageInv'
  BY FailsKeeps DEF Reject

LEMMA ServeKeeps ==
    ASSUME StorageFilesAssumption, StorageInv, NEW p \in Programs, NEW k \in Keys, Serve(p, k)
    PROVE  StorageInv'
  <1> DEFINE path == prog[p].path
             old == file[path]
             row == [old EXCEPT !.keys = old.keys \cup {k}]
  <1>1. /\ prog[p].pc = "serving" /\ Usable(path) /\ UNCHANGED <<prog, starts, done>>
        /\ sent' = Append(sent, [key |-> k, path |-> path])
    BY DEF Serve
  <1>2. On(p, path) /\ path \in AllPaths
    BY <1>1, OwnFile DEF On, OpenedSteps
  <1>3. file' = [file EXCEPT ![path] = row]
    BY <1>2, Frame DEF Serve
  <1>4. old \in Database /\ Matches(old) /\ Len(old.applied) \in Nat
    BY <1>1, <1>2, Lengths, HistoryIs DEF StorageInv
  <1>5. row \in Database /\ row.applied = old.applied /\ row.schema = old.schema
    <2> HIDE DEF old
    <2> QED
      BY <1>4 DEF Database
  <1> HIDE DEF row
  <1>6. Matches(row) /\ row.kind = "database" /\ Len(old.applied) <= Len(row.applied)
    BY <1>4, <1>5, Rows DEF Matches
  <1>7. sent' \in Seq([key : Keys, path : AllPaths])
    BY <1>1, <1>2, Frame
  <1>8. prog[p] \in ProgramRow /\ prog' = [prog EXCEPT ![p] = prog[p]]
    BY <1>1, Frame
  <1>9. PlaceInv(p) /\ OpenInv(p)
    BY DEF StorageInv
  <1>10. PlaceInv(p)'
    BY <1>1, <1>9 DEF PlaceInv, Task
  <1>11. file'[path] = row
    BY <1>2, <1>3, Frame
  <1>12. OpenInv(p)'
    BY <1>1, <1>5, <1>6, <1>9, <1>11 DEF OpenInv, Usable
  <1>13. DoneInv(p)'
    BY <1>1, NotDone
  <1> QED
    BY <1>1, <1>2, <1>3, <1>5, <1>6, <1>7, <1>8, <1>10, <1>12, <1>13, Frame, FileStep

LEMMA VerifyKeeps ==
    ASSUME StorageFilesAssumption, StorageInv, NEW p \in Programs, Verify(p)
    PROVE  StorageInv'
  <1> DEFINE path == prog[p].path
  <1>1. prog[p].pc = "verify" /\ UNCHANGED <<file, starts, done, sent>>
    BY DEF Verify
  <1>2. prog' = [prog EXCEPT ![p] = Opens(path, "checked")]
    BY Frame DEF Verify
  <1>3. On(p, path) /\ path \in AllPaths /\ "checked" \in TaskSteps
    BY <1>1, OwnFile DEF On, OpenedSteps, TaskSteps, TaskSteps
  <1>4. prog'[p] = Opens(path, "checked")
    BY <1>2, Frame
  <1>5. /\ Opens(path, "checked") \in ProgramRow
        /\ Task(p)' = "checked" /\ prog'[p].pc = "open" /\ prog'[p].path = path
        /\ OpenInv(p)'
    BY <1>3, <1>4, OpensRow
  <1>6. prog'[p].then = "checked"
    BY <1>4 DEF Opens
  <1>7. PlaceInv(p)
    BY DEF StorageInv
  <1>8. path = PathOf[p] /\ "checked" \in Tasks(Role[p])
    BY <1>1, <1>7 DEF PlaceInv, Task, Tasks, OpenSteps, OpenedSteps, StorageFilesAssumption
  <1>9. PlaceInv(p)'
    BY <1>1, <1>5, <1>6, <1>7, <1>8 DEF PlaceInv
  <1>10. DoneInv(p)'
    BY <1>1, NotDone
  <1> QED
    BY <1>1, <1>2, <1>5, <1>9, <1>10, Frame, ProgramStep

LEMMA VerifyIntegrityKeeps ==
    ASSUME StorageFilesAssumption, StorageInv, NEW p \in Programs, VerifyIntegrity(p)
    PROVE  StorageInv'
  <1> DEFINE path == prog[p].path
  <1>1. prog[p].pc = "checked" /\ UNCHANGED <<starts, sent>>
    BY DEF VerifyIntegrity
  <1>2. PlaceInv(p) /\ OpenInv(p)
    BY DEF StorageInv
  <1>3. path = PathOf[p] /\ Role[p] # "serve"
    BY <1>1, <1>2 DEF PlaceInv, Task, Tasks, OpenSteps, OpenedSteps
  <1>4. CASE ~Usable(path)
    BY <1>1, <1>4, FailsKeeps DEF VerifyIntegrity
  <1>5. CASE Usable(path) /\ Role[p] = "backup"
    <2> DEFINE r == [prog[p] EXCEPT !.pc = "backup"]
    <2>1. prog' = [prog EXCEPT ![p] = r] /\ UNCHANGED <<file, done>>
      BY <1>5, Frame DEF VerifyIntegrity, Goto
    <2>2. r \in ProgramRow /\ r.pc = "backup" /\ r.path = path
      BY Frame DEF ProgramRow, OpenedSteps
    <2> HIDE DEF r
    <2>3. prog'[p] = r
      BY <2>1, Frame
    <2>4. PlaceInv(p)'
      BY <1>1, <1>2, <1>3, <1>5, <2>1, <2>2, <2>3
         DEF PlaceInv, Task, Tasks, OpenSteps, OpenedSteps
    <2>5. OpenInv(p)'
      BY <1>1, <1>2, <2>1, <2>2, <2>3 DEF OpenInv, Usable, OpenedSteps
    <2>6. DoneInv(p)'
      BY <1>1, <2>1, NotDone
    <2> QED
      BY <1>1, <2>1, <2>2, <2>4, <2>5, <2>6, Frame, ProgramStep
  <1>6. CASE Usable(path) /\ Role[p] # "backup"
    <2>1. prog' = [prog EXCEPT ![p] = Idle] /\ done' = done \cup {p} /\ file' = file
      BY <1>6 DEF VerifyIntegrity, Succeeds, Stops
    <2>2. prog'[p] = Idle
      BY <2>1, Frame
    <2>3. Idle \in ProgramRow /\ PlaceInv(p)' /\ OpenInv(p)'
      BY <2>2, Rests
    <2>4. DoneInv(p)'
      BY <1>3, <1>6, <2>1, <2>2 DEF DoneInv, Usable, Idle
    <2> QED
      BY <1>1, <2>1, <2>3, <2>4, Frame, ProgramStep
  <1> QED
    BY <1>4, <1>5, <1>6

\* Only a program that backs up backs up, and to where nobody opens anything.
LEMMA BacksUp ==
    ASSUME StorageFilesAssumption, StorageInv, NEW p \in Programs,
           prog[p].pc \in {"backup", "copying"}
    PROVE  /\ Role[p] = "backup" /\ prog[p].path = PathOf[p]
           /\ PathOf[p] \in AllPaths /\ Source[p] \in AllPaths /\ Source[p] \in Paths
           /\ SnapshotsUnopened => \A q \in Programs : PathOf[q] # Source[p]
  <1>1. PlaceInv(p)
    BY DEF StorageInv
  <1>2. Role[p] \in {"serve", "verify", "backup", "restore"}
    BY DEF StorageFilesAssumption
  <1>3. Role[p] = "backup" /\ prog[p].path = PathOf[p]
    BY <1>1, <1>2 DEF PlaceInv, Task, Tasks, OpenSteps, OpenedSteps
  <1> QED
    BY <1>3 DEF StorageFilesAssumption, AllPaths, SnapshotsUnopened

LEMMA BackupKeeps ==
    ASSUME StorageFilesAssumption, StorageInv, NEW p \in Programs, Backup(p)
    PROVE  StorageInv'
  <1> DEFINE r == [prog[p] EXCEPT !.pc = "copying"]
  <1>1. prog[p].pc = "backup" /\ UNCHANGED <<starts, done, sent>>
    BY DEF Backup
  <1>2. CASE file[Source[p]] # Absent
    BY <1>1, <1>2, FailsKeeps DEF Backup
  <1>3. CASE file[Source[p]] = Absent
    <2>1. prog' = [prog EXCEPT ![p] = r] /\ file' = file
      BY <1>3, Frame DEF Backup, Goto
    <2>2. r \in ProgramRow /\ r.pc = "copying" /\ r.path = prog[p].path
      BY Frame DEF ProgramRow, OpenedSteps
    <2> HIDE DEF r
    <2>3. prog'[p] = r
      BY <2>1, Frame
    <2>4. PlaceInv(p) /\ OpenInv(p) /\ Role[p] = "backup"
      BY <1>1, BacksUp DEF StorageInv
    <2>5. PlaceInv(p)'
      BY <1>1, <2>2, <2>3, <2>4 DEF PlaceInv, Task, Tasks, OpenSteps, OpenedSteps
    <2>6. OpenInv(p)'
      BY <1>1, <2>1, <2>2, <2>3, <2>4 DEF OpenInv, Usable, OpenedSteps
    <2>7. DoneInv(p)'
      BY <1>1, NotDone
    <2> QED
      BY <1>1, <2>1, <2>2, <2>5, <2>6, <2>7, Frame, ProgramStep
  <1> QED
    BY <1>2, <1>3

\* The copy, and what an exception removes, lie where nobody opens anything.
LEMMA BackupCopyKeeps ==
    ASSUME StorageFilesAssumption, SnapshotsUnopened, StorageInv, NEW p \in Programs,
           BackupCopy(p)
    PROVE  StorageInv'
  <1> DEFINE path == prog[p].path
             row == CopyOf(path)
  <1>1. prog[p].pc = "copying" /\ Usable(path) /\ UNCHANGED <<starts, sent>>
    BY DEF BackupCopy
  <1>2. /\ Role[p] = "backup" /\ path \in AllPaths
        /\ Source[p] \in AllPaths /\ Source[p] \in Paths
        /\ \A q \in Programs : PathOf[q] # Source[p]
    BY <1>1, BacksUp
  <1>3. /\ file' = [file EXCEPT ![Source[p]] = row]
        /\ prog' = [prog EXCEPT ![p] = Idle] /\ done' = done \cup {p}
    BY DEF BackupCopy, Succeeds, Stops
  <1>4. row \in Database /\ Matches(row)
    BY <1>1, <1>2, Rows, CopyFacts
  <1> HIDE DEF row
  <1>5. prog'[p] = Idle
    BY <1>3, Frame
  <1>6. Idle \in ProgramRow /\ PlaceInv(p)' /\ OpenInv(p)'
    BY <1>5, Rests
  <1>7. DoneInv(p)'
    BY <1>2 DEF DoneInv
  <1> QED
    BY <1>1, <1>2, <1>3, <1>4, <1>6, <1>7, Frame, FileStep

LEMMA BackupFailsKeeps ==
    ASSUME StorageFilesAssumption, SnapshotsUnopened, StorageInv, NEW p \in Programs,
           BackupFails(p)
    PROVE  StorageInv'
  <1>1. prog[p].pc = "copying" /\ UNCHANGED <<starts, done, sent>>
    BY DEF BackupFails
  <1>2. /\ Source[p] \in AllPaths /\ Source[p] \in Paths
        /\ \A q \in Programs : PathOf[q] # Source[p]
    BY <1>1, BacksUp
  <1>3. prog' = [prog EXCEPT ![p] = Idle]
    BY DEF BackupFails, Stops
  <1>4. prog'[p] = Idle
    BY <1>3, Frame
  <1>5. Idle \in ProgramRow /\ PlaceInv(p)' /\ OpenInv(p)'
    BY <1>4, Rests
  <1>6. DoneInv(p)'
    BY <1>1, NotDone
  <1>7. CASE file' = file
    BY <1>1, <1>3, <1>5, <1>6, <1>7, Frame, ProgramStep
  <1>8. CASE file' = [file EXCEPT ![Source[p]] = Absent]
    BY <1>1, <1>2, <1>3, <1>5, <1>6, <1>8, Rows, Frame, FileStep
  <1> QED
    BY <1>7, <1>8 DEF BackupFails

\* What a killed backup leaves is empty, if it is a database.
LEMMA UnfinishedFacts ==
    ASSUME StorageInv, NEW path \in AllPaths, Usable(path), NEW rest \in Unfinished(path)
    PROVE  /\ rest \in Database \cup {Damaged}
           /\ rest \in Database <=> rest.kind = "database"
           /\ rest.kind = "database" => /\ Matches(rest) /\ ~rest.table /\ rest.past = Past(path)
  <1> DEFINE past == Past(path)
  <1>1. past \in SUBSET Nat
    <2>1. DOMAIN sent \subseteq Nat
      BY Frame
    <2>2. file[path] \in Database
      BY UsableIs DEF StorageInv
    <2> QED
      BY <2>1, <2>2, Rows DEF Past
  <1>2. rest = [Empty EXCEPT !.past = past] \/ rest = Damaged
    BY DEF Unfinished
  <1> HIDE DEF past
  <1>3. CASE rest = [Empty EXCEPT !.past = past]
    <2>1. /\ rest \in Database /\ rest.applied = <<>> /\ rest.schema = {} /\ ~rest.table
          /\ rest.past = past
      BY <1>1, <1>3, Rows DEF Database
    <2>2. Matches(rest)
      BY <2>1, VersionsFacts DEF Matches
    <2> QED
      BY <2>1, <2>2, Rows DEF past
  <1>4. CASE rest = Damaged
    BY <1>4, Rows
  <1> QED
    BY <1>2, <1>3, <1>4

LEMMA KillKeeps ==
    ASSUME StorageFilesAssumption, StorageInv, NEW p \in Programs, Kill(p)
    PROVE  StorageInv'
  <1>1. /\ prog[p].pc # "idle" /\ prog' = [prog EXCEPT ![p] = Idle]
        /\ UNCHANGED <<starts, done, sent>>
    BY DEF Kill, Stops
  <1>2. prog'[p] = Idle
    BY <1>1, Frame
  <1>3. Idle \in ProgramRow /\ PlaceInv(p)' /\ OpenInv(p)'
    BY <1>2, Rests
  <1>4. DoneInv(p)'
    BY <1>1, NotDone
  <1>5. CASE UNCHANGED file
    BY <1>1, <1>3, <1>4, <1>5, Frame, ProgramStep
  <1>6. CASE ~(UNCHANGED file)
    <2>1. prog[p].pc = "copying" /\ file[Source[p]] = Absent
      BY <1>6 DEF Kill
    <2>2. PICK rest \in Unfinished(prog[p].path) : file' = [file EXCEPT ![Source[p]] = rest]
      BY <2>1 DEF Kill
    <2>3. Source[p] \in AllPaths /\ prog[p].path \in AllPaths /\ ~Usable(Source[p])
      BY <2>1, BacksUp, Rows DEF Usable
    <2>4. Usable(prog[p].path)
      BY <2>1 DEF StorageInv, OpenInv, OpenedSteps
    <2>5. rest \in Database \cup {Damaged} /\ (rest.kind = "database" => Matches(rest))
      BY <2>2, <2>3, <2>4, UnfinishedFacts
    <2> QED
      BY <1>1, <1>3, <1>4, <2>2, <2>3, <2>5, Frame, FileStep
  <1> QED
    BY <1>5, <1>6

\* While a restore runs nobody else works on its destination: who would waits
\* for the restore, which has not reported success.
LEMMA OneRestore ==
    ASSUME RestoresAwaited, StorageInv, NEW p \in Programs,
           Role[p] = "restore", prog[p].pc # "idle",
           NEW q \in Programs \ {p}, prog[q].pc # "idle"
    PROVE  PathOf[q] # PathOf[p]
  <1> SUFFICES ASSUME PathOf[q] = PathOf[p] PROVE FALSE
    OBVIOUS
  <1>1. p \in Waits[q]
    BY DEF RestoresAwaited
  <1>2. p \in done
    BY <1>1 DEF StorageInv, PlaceInv
  <1> QED
    BY <1>2 DEF StorageInv, DoneInv

LEMMA NobodyThere ==
    ASSUME StorageFilesAssumption, RestoresAwaited, StorageInv, NEW p \in Programs,
           Role[p] = "restore", prog[p].pc # "idle", NEW q \in Programs \ {p}
    PROVE  ~On(q, PathOf[p])
  <1> SUFFICES ASSUME On(q, PathOf[p]) PROVE FALSE
    OBVIOUS
  <1>1. PathOf[p] \notin Programs
    BY DEF StorageFilesAssumption
  <1>2. PathOf[q] = PathOf[p]
    BY <1>1, OwnFile
  <1>3. prog[q].pc # "idle"
    BY DEF On, OpenSteps, OpenedSteps
  <1> QED
    BY <1>2, <1>3, OneRestore

LEMMA ReplaceKeeps ==
    ASSUME StorageFilesAssumption, RestoresAwaited, StorageInv, NEW p \in Programs, Replace(p)
    PROVE  StorageInv'
  <1> DEFINE to == PathOf[p]
             row == file[p]
  <1>1. /\ prog[p].pc = "integrity" /\ UNCHANGED <<starts, done, sent>>
        /\ file' = [file EXCEPT ![to] = row, ![p] = Absent]
        /\ prog' = [prog EXCEPT ![p] = Opens(to, "verify")]
    BY DEF Replace
  <1>2. PlaceInv(p) /\ OpenInv(p)
    BY DEF StorageInv
  <1>3. prog[p].path = p /\ Role[p] = "restore" /\ prog[p].pc # "idle"
    BY <1>1, <1>2 DEF PlaceInv, Task, Tasks, OpenSteps, OpenedSteps, StorageFilesAssumption
  <1>4. to \in AllPaths /\ p \in AllPaths /\ to # p
    BY DEF StorageFilesAssumption, AllPaths
  <1>5. Usable(p) /\ row \in Database /\ Matches(row) /\ row.kind = "database"
    BY <1>1, <1>2, <1>3, <1>4, Lengths, HistoryIs DEF OpenInv, OpenedSteps, StorageInv, Usable
  <1>6. \A path \in AllPaths : file'[path] = IF path = p THEN Absent
                                             ELSE IF path = to THEN row ELSE file[path]
    BY <1>1, <1>4, Frame
  <1> HIDE DEF row
  <1>7. file' \in [AllPaths -> Database \cup {Absent, Damaged}]
    BY <1>1, <1>5, Frame
  <1>8. \A path \in AllPaths : file'[path].kind = "database" => Matches(file'[path])
    BY <1>5, <1>6, Rows, HistoryIs DEF StorageInv, Usable
  <1>9. ASSUME NEW path \in AllPaths \ {p}
        PROVE  \/ Kept(path)
               \/ /\ file'[path].kind = "database"
                  /\ \A q \in Programs \ {p} : ~On(q, path)
    <2>1. CASE path = to
      BY <1>3, <1>5, <1>6, <2>1, NobodyThere
    <2>2. CASE path # to
      <3>1. file'[path] = file[path]
        BY <1>6, <2>2
      <3>2. Usable(path) => Len(file[path].applied) \in Nat
        BY Lengths DEF StorageInv
      <3> QED
        BY <3>1, <3>2 DEF Kept, Usable
    <2> QED
      BY <2>1, <2>2
  <1>10. prog'[p] = Opens(to, "verify") /\ "verify" \in TaskSteps
    BY <1>1, Frame DEF OpenedSteps, TaskSteps, TaskSteps
  <1>11. /\ Opens(to, "verify") \in ProgramRow
         /\ Task(p)' = "verify" /\ prog'[p].pc = "open" /\ prog'[p].path = to
         /\ OpenInv(p)'
    BY <1>4, <1>10, OpensRow
  <1>12. prog'[p].then = "verify"
    BY <1>10 DEF Opens
  <1>13. PlaceInv(p)'
    BY <1>1, <1>2, <1>3, <1>11, <1>12 DEF PlaceInv, Tasks
  <1>14. DoneInv(p)'
    BY <1>1, <1>3, NotDone
  <1> QED
    BY <1>1, <1>7, <1>8, <1>9, <1>11, <1>13, <1>14, Frame, StepKeeps

LEMMA StorageStep ==
    ASSUME StorageFilesAssumption, RestoresAwaited, SnapshotsUnopened, StorageInv, [Next]_vars
    PROVE  StorageInv'
  <1>1. CASE UNCHANGED vars
    <2> USE <1>1 DEF vars
    <2>1. TypeOK' /\ SchemaMatchesHistory'
      BY DEF StorageInv, TypeOK, SchemaMatchesHistory, Usable
    <2>2. \A p \in Programs : PlaceInv(p)' /\ OpenInv(p)' /\ DoneInv(p)'
      BY DEF StorageInv, PlaceInv, OpenInv, DoneInv, Task, Usable
    <2> QED
      BY <2>1, <2>2 DEF StorageInv
  <1>2. ASSUME NEW p \in Programs, NEW k \in Keys, Serve(p, k) PROVE StorageInv'
    BY <1>2, ServeKeeps
  <1>3. ASSUME NEW p \in Programs,
               \/ Start(p) \/ EnsureTable(p) \/ ReadHistory(p) \/ Migrate(p)
               \/ Verify(p) \/ VerifyIntegrity(p) \/ Backup(p) \/ BackupCopy(p)
               \/ BackupFails(p) \/ Copy(p) \/ CheckSource(p) \/ Replace(p) \/ Reject(p)
               \/ Kill(p)
        PROVE  StorageInv'
    BY <1>3, StartKeeps, EnsureTableKeeps, ReadHistoryKeeps, MigrateKeeps, VerifyKeeps,
       VerifyIntegrityKeeps, BackupKeeps, BackupCopyKeeps, BackupFailsKeeps, CopyKeeps,
       CheckSourceKeeps, ReplaceKeeps, RejectKeeps, KillKeeps
  <1> QED
    BY <1>1, <1>2, <1>3 DEF Next

\* However many programs of whatever releases open, migrate, back up and
\* restore files and are killed: the schema of every file is what its history
\* says, and a program that has opened a file finds every migration its code
\* relies on, if nothing opens the destination of a restore before the restore
\* has succeeded, nor that of a backup (apply_migrations, Storage.open,
\* Storage.backup, Storage.restore).
THEOREM FilesAreMigrated ==
    ASSUME StorageFilesAssumption, RestoresAwaited, SnapshotsUnopened
    PROVE  Spec => [](SchemaMatchesHistory /\ OpenedIsMigrated)
  <1>1. Init => StorageInv
    BY InitStorage
  <1>2. StorageInv /\ [Next]_vars => StorageInv'
    BY StorageStep
  <1>3. StorageInv => SchemaMatchesHistory /\ OpenedIsMigrated
    BY DEF StorageInv, OpenInv, OpenedIsMigrated, OpenedSteps
  <1> QED
    BY <1>1, <1>2, <1>3, PTL DEF Spec

----------------------------------------------------------------------------
\* What files remember.

Restoring == {"copy", "check", "integrity"}

\* A step of p makes another file of a path, and what has to be seen of it.
Remade(p, path) ==
    /\ path \in Paths
    /\ TableInv(path)' /\ KeysInv(path)'
    /\ Usable(path) => /\ Usable(path)' /\ file'[path].past = file[path].past
                       /\ file[path].keys \subseteq file'[path].keys
    /\ \A q \in Programs \ {p} : Task(q) \in Restoring => PathOf[q] # path

\* A write goes through a file that stands where programs look for it.
LEMMA SentPaths ==
    ASSUME StorageFilesAssumption, SentInv, NEW i \in DOMAIN sent
    PROVE  /\ sent[i].path \in Paths /\ sent[i].path \in AllPaths
           /\ sent[i].path \notin Programs /\ Usable(sent[i].path)
  BY DEF SentInv, StorageFilesAssumption, AllPaths

LEMMA MemoryStep ==
    ASSUME StorageFilesAssumption, StorageInv, MemoryInv, NEW p \in Programs,
           NEW r \in ProgramRow, prog' = [prog EXCEPT ![p] = r], sent' = sent,
           \A path \in AllPaths \ {p} : file'[path] = file[path] \/ Remade(p, path),
           KeysInv(p)', RestoreInv(p)'
    PROVE  MemoryInv' /\ NothingTaken
  <1>1. \A q \in Programs \ {p} : prog'[q] = prog[q]
    BY Frame
  <1>2. ASSUME NEW q \in Programs, q # p PROVE RestoreInv(q)'
    <2>1. RestoreInv(q) /\ Task(q)' = Task(q)
      BY <1>1, <1>2 DEF MemoryInv, Task
    <2>2. /\ PathOf[q] \in AllPaths \ {p} /\ PathOf[q] \notin Programs
          /\ q \in AllPaths \ {p} /\ q \notin Paths
      BY <1>2 DEF StorageFilesAssumption, AllPaths
    <2>3. Task(q) \in Restoring => file'[PathOf[q]] = Absent
      BY <1>2, <2>1, <2>2 DEF RestoreInv, Restoring, Remade
    <2>4. file'[q] = file[q]
      BY <2>2 DEF Remade
    <2> QED
      BY <2>1, <2>3, <2>4 DEF RestoreInv, Restoring, Usable
  <1>3. ASSUME NEW path \in AllPaths PROVE TableInv(path)' /\ KeysInv(path)'
    <2>1. CASE path = p
      BY <2>1 DEF TableInv
    <2>2. CASE path # p /\ file'[path] = file[path]
      <3>1. TableInv(path) /\ KeysInv(path)
        BY DEF MemoryInv
      <3>2. TableInv(path)'
        BY <2>2, <3>1 DEF TableInv, Usable
      <3>3. KeysInv(path)'
        BY <2>2, <3>1 DEF KeysInv, Usable, Past
      <3> QED
        BY <3>2, <3>3
    <2>3. CASE path # p /\ file'[path] # file[path]
      BY <2>3 DEF Remade
    <2> QED
      BY <2>1, <2>2, <2>3
  <1>4. ASSUME NEW path \in Paths, Usable(path)
        PROVE  /\ Usable(path)' /\ file'[path].past = file[path].past
               /\ file[path].keys \subseteq file'[path].keys
    <2>1. path \in AllPaths \ {p}
      BY DEF AllPaths, StorageFilesAssumption
    <2> QED
      BY <1>4, <2>1 DEF Remade, Usable
  <1>5. SentInv
    BY DEF MemoryInv
  <1>6. SentInv'
    BY <1>4, <1>5, SentPaths DEF SentInv, Usable
  <1>7. SnapshotRemembers'
    <2> SUFFICES ASSUME NEW i \in DOMAIN sent, NEW j \in DOMAIN sent,
                        i < j, sent[i].key = sent[j].key
                 PROVE  /\ sent[i].path # sent[j].path
                        /\ i \notin file'[sent[j].path].past
      BY DEF SnapshotRemembers
    <2>1. file'[sent[j].path].past = file[sent[j].path].past
      BY <1>4, <1>5, SentPaths
    <2> QED
      BY <2>1 DEF MemoryInv, SnapshotRemembers
  <1>8. NothingTaken
    BY <1>4 DEF NothingTaken
  <1> QED
    BY <1>2, <1>3, <1>6, <1>7, <1>8 DEF MemoryInv

\* A step that changes at most one path that is not a temporary file.
LEMMA MemoryAt ==
    ASSUME StorageFilesAssumption, StorageInv, MemoryInv, NEW p \in Programs,
           NEW r \in ProgramRow, prog' = [prog EXCEPT ![p] = r], sent' = sent,
           NEW x \in Paths, NEW row, file' = [file EXCEPT ![x] = row],
           Remade(p, x), RestoreInv(p)'
    PROVE  MemoryInv' /\ NothingTaken
  <1>1. x \in AllPaths /\ p \in AllPaths /\ x # p
    BY DEF AllPaths, StorageFilesAssumption
  <1>2. \A path \in AllPaths : path # x => file'[path] = file[path]
    BY Frame
  <1>3. KeysInv(p)'
    <2>1. KeysInv(p)
      BY <1>1 DEF MemoryInv
    <2>2. file'[p] = file[p]
      BY <1>1, <1>2
    <2> QED
      BY <2>1, <2>2 DEF KeysInv, Usable, Past
  <1> QED
    BY <1>2, <1>3, MemoryStep

\* A step that changes at most the temporary file of its program.
LEMMA MemoryTemporary ==
    ASSUME StorageFilesAssumption, StorageInv, MemoryInv, NEW p \in Programs,
           NEW r \in ProgramRow, prog' = [prog EXCEPT ![p] = r], sent' = sent,
           NEW row, file' = [file EXCEPT ![p] = row], KeysInv(p)', RestoreInv(p)'
    PROVE  MemoryInv' /\ NothingTaken
  <1>1. \A path \in AllPaths \ {p} : file'[path] = file[path]
    BY Frame
  <1> QED
    BY <1>1, MemoryStep

\* A step that changes no file.
LEMMA MemorySame ==
    ASSUME StorageFilesAssumption, StorageInv, MemoryInv, NEW p \in Programs,
           NEW r \in ProgramRow, prog' = [prog EXCEPT ![p] = r], sent' = sent,
           file' = file, RestoreInv(p)'
    PROVE  MemoryInv' /\ NothingTaken
  <1>1. KeysInv(p)
    BY DEF MemoryInv, AllPaths
  <1>2. KeysInv(p)'
    BY <1>1 DEF KeysInv, Usable, Past
  <1> QED
    BY <1>2, MemoryStep

LEMMA InitMemory ==
    ASSUME Init
    PROVE  MemoryInv
  <1>1. sent = <<>> /\ \A path \in AllPaths : ~Usable(path)
    BY Rows DEF Init, Usable
  <1>2. \A path \in AllPaths : TableInv(path) /\ KeysInv(path)
    BY <1>1 DEF TableInv, KeysInv
  <1>3. SentInv /\ SnapshotRemembers
    BY <1>1 DEF SentInv, SnapshotRemembers
  <1>4. \A p \in Programs : Task(p) = "idle"
    BY DEF Init, Task, Idle, OpenSteps
  <1>5. \A p \in Programs : RestoreInv(p)
    BY <1>4 DEF RestoreInv
  <1> QED
    BY <1>2, <1>3, <1>5 DEF MemoryInv

LEMMA FailsRemembers ==
    ASSUME StorageFilesAssumption, StorageInv, MemoryInv, NEW p \in Programs, Fails(p),
           sent' = sent
    PROVE  MemoryInv' /\ NothingTaken
  <1>1. prog' = [prog EXCEPT ![p] = Idle] /\ file' = [file EXCEPT ![p] = Absent]
    BY DEF Fails, Stops
  <1>2. prog'[p] = Idle /\ file'[p] = Absent /\ Idle \in ProgramRow
    BY <1>1, Frame, Rests DEF AllPaths
  <1>3. KeysInv(p)'
    BY <1>2, Rows DEF KeysInv, Usable
  <1>4. RestoreInv(p)'
    BY <1>2 DEF RestoreInv, Task, Idle, OpenSteps
  <1> QED
    BY <1>1, <1>2, <1>3, <1>4, MemoryTemporary

\* The path a program has open, if it is not temporary: a restore whose
\* destination it is has not begun, or has succeeded.
LEMMA OpenPath ==
    ASSUME StorageFilesAssumption, RestoresAwaited, StorageInv, NEW p \in Programs,
           NEW path, On(p, path)
    PROVE  /\ \/ path = p /\ Task(p) = "integrity"
              \/ path = PathOf[p] /\ Task(p) # "integrity" /\ path \in Paths
           /\ path \in Paths =>
                 \A q \in Programs \ {p} : Task(q) \in Restoring => PathOf[q] # path
  <1>1. /\ PathOf[p] \in Paths /\ p \notin Paths /\ PlaceInv(p)
        /\ path = IF Task(p) = "integrity" THEN p ELSE PathOf[p]
    BY DEF StorageFilesAssumption, StorageInv, On, PlaceInv
  <1>2. ASSUME path \in Paths, NEW q \in Programs \ {p}, Task(q) \in Restoring
        PROVE  PathOf[q] # path
    <2>1. PlaceInv(q) /\ Role[q] \in {"serve", "verify", "backup", "restore"}
      BY DEF StorageInv, StorageFilesAssumption
    <2>2. Role[q] = "restore" /\ prog[q].pc # "idle"
      BY <1>2, <2>1 DEF PlaceInv, Task, Tasks, Restoring, OpenSteps
    <2> QED
      BY <2>2, NobodyThere
  <1> QED
    BY <1>1, <1>2

\* A program that opens a path finds a database with a table of migrations, or
\* none at all: no backup was left there.
LEMMA OpenedTable ==
    ASSUME StorageFilesAssumption, RestoresAwaited, SnapshotsUnopened, StorageInv, MemoryInv,
           NEW p \in Programs, NEW path, On(p, path), Usable(path)
    PROVE  file[path].table
  <1>1. CASE path = p /\ Task(p) = "integrity"
    BY <1>1 DEF MemoryInv, RestoreInv
  <1>2. CASE path = PathOf[p] /\ path \in Paths
    <2>1. path \in AllPaths /\ path \notin Programs
      BY <1>2 DEF StorageFilesAssumption, AllPaths
    <2>2. TableInv(path)
      BY <2>1 DEF MemoryInv
    <2>3. path \notin {Source[b] : b \in {q \in Programs : Role[q] = "backup"}}
      BY <1>2 DEF SnapshotsUnopened
    <2>4. file[path] \in Database
      BY <2>1, Lengths DEF StorageInv
    <2> QED
      BY <2>1, <2>2, <2>3, <2>4, Rows DEF TableInv
  <1> QED
    BY <1>1, <1>2, OpenPath

LEMMA EnsureTableRemembers ==
    ASSUME StorageFilesAssumption, RestoresAwaited, SnapshotsUnopened, StorageInv, MemoryInv,
           NEW p \in Programs, EnsureTable(p)
    PROVE  MemoryInv' /\ NothingTaken
  <1>0. PICK path : path = prog[p].path
    OBVIOUS
  <1> DEFINE old == file[path]
             r == [prog[p] EXCEPT !.pc = "history"]
  <1>1. prog[p].pc = "open" /\ sent' = sent
    BY DEF EnsureTable
  <1>2. CASE old.kind = "damaged"
    BY <1>0, <1>1, <1>2, FailsRemembers DEF EnsureTable
  <1>3. CASE old.kind # "damaged"
    <2>1. On(p, path) /\ path \in AllPaths
      BY <1>0, <1>1, OwnFile DEF On, OpenSteps
    <2>2. prog' = [prog EXCEPT ![p] = r]
      BY <1>0, <1>3, Frame DEF EnsureTable, Goto
    <2>3. r \in ProgramRow /\ r.pc = "history" /\ r.then = prog[p].then
      BY Frame DEF ProgramRow, OpenSteps
    <2> HIDE DEF r
    <2>4. Task(p)' = Task(p)
      BY <1>1, <2>2, <2>3, Frame DEF Task, OpenSteps
    <2>5. RestoreInv(p)
      BY DEF MemoryInv
    <2>6. CASE Usable(path)
      <3>1. old \in Database /\ old.table
        BY <2>1, <2>6, Lengths, OpenedTable DEF StorageInv
      <3>2. old.table = TRUE
        BY <3>1, Rows
      <3>3. [old EXCEPT !.table = TRUE] = old
        <4> HIDE DEF old
        <4> QED
          BY <3>1, <3>2 DEF Database
      <3>4. file' = [file EXCEPT ![path] = old]
        BY <1>0, <1>3, <2>6, <3>3, Frame DEF EnsureTable
      <3>5. file' = file
        BY <3>4, Frame
      <3>6. RestoreInv(p)'
        BY <2>4, <2>5, <3>5 DEF RestoreInv, Usable
      <3> QED
        BY <1>1, <2>2, <2>3, <3>5, <3>6, MemorySame
    <2>7. CASE ~Usable(path)
      <3> DEFINE row == [Empty EXCEPT !.table = TRUE]
      <3>1. file' = [file EXCEPT ![path] = row]
        BY <1>0, <1>3, <2>7, Frame DEF EnsureTable
      <3>2. row \in Database /\ row.table /\ row.past = {} /\ row.kind = "database"
        BY Rows DEF Database
      <3> HIDE DEF row
      <3>3. file'[path] = row
        BY <2>1, <3>1, Frame
      <3>4. path \in Paths /\ path = PathOf[p] /\ Task(p) # "integrity"
        BY <2>1, <2>5, <2>7, OpenPath DEF RestoreInv
      <3>5. \A i \in DOMAIN sent : sent[i].path # path
        BY <2>7, SentPaths DEF MemoryInv
      <3>6. KeysInv(path)'
        BY <1>1, <3>2, <3>3, <3>5 DEF KeysInv, Past
      <3>7. TableInv(path)'
        BY <3>2, <3>3 DEF TableInv
      <3>8. Remade(p, path)
        BY <2>1, <2>7, <3>4, <3>6, <3>7, OpenPath DEF Remade
      <3>9. PlaceInv(p) /\ Role[p] \in {"serve", "verify", "backup", "restore"}
        BY DEF StorageInv, StorageFilesAssumption
      <3>10. Task(p) \notin {"copy", "check"}
        BY <1>1, <3>9, Frame DEF PlaceInv, Task, Tasks, OpenSteps, OpenedSteps, TaskSteps, ProgramRow
      <3>11. RestoreInv(p)'
        BY <2>4, <3>4, <3>10 DEF RestoreInv
      <3> QED
        BY <1>1, <2>2, <2>3, <3>1, <3>4, <3>8, <3>11, MemoryAt
    <2> QED
      BY <2>6, <2>7
  <1> QED
    BY <1>2, <1>3

\* A transaction that changes neither the keys on record nor where the
\* database comes from.
LEMMA ContentRemembers ==
    ASSUME StorageFilesAssumption, RestoresAwaited, StorageInv, MemoryInv, NEW p \in Programs,
           NEW path, On(p, path), Usable(path), sent' = sent,
           NEW r \in ProgramRow, prog' = [prog EXCEPT ![p] = r], Task(p)' = Task(p),
           NEW row, file' = [file EXCEPT ![path] = row], row.kind = "database",
           row.keys = file[path].keys, row.past = file[path].past,
           row.table = file[path].table
    PROVE  MemoryInv' /\ NothingTaken
  <1>1. path \in AllPaths /\ p \in AllPaths
    BY OwnFile DEF AllPaths
  <1>2. \A x \in AllPaths : file'[x] = IF x = path THEN row ELSE file[x]
    BY Frame
  <1>3. file'[path] = row /\ KeysInv(path) /\ TableInv(path) /\ RestoreInv(p)
    BY <1>1, <1>2 DEF MemoryInv
  <1>4. KeysInv(path)'
    BY <1>3 DEF KeysInv, Usable, Past
  <1>5. TableInv(path)'
    BY <1>3 DEF TableInv
  <1>6. PathOf[p] \in AllPaths /\ PathOf[p] # p
    BY DEF StorageFilesAssumption, AllPaths
  <1>7. CASE path = p
    <2>1. RestoreInv(p)'
      BY <1>2, <1>3, <1>6, <1>7 DEF RestoreInv, Usable
    <2> QED
      BY <1>4, <1>7, <2>1, MemoryTemporary
  <1>8. CASE path = PathOf[p] /\ Task(p) # "integrity" /\ path \in Paths
    <2>1. Remade(p, path)
      BY <1>3, <1>4, <1>5, <1>8, OpenPath DEF Remade, Usable
    <2>2. Task(p) \notin {"copy", "check"}
      <3>1. PlaceInv(p)
        BY DEF StorageInv
      <3> QED
        BY <3>1, Frame DEF On, PlaceInv, Task, OpenSteps, OpenedSteps, TaskSteps, ProgramRow
    <2>3. RestoreInv(p)'
      BY <1>8, <2>2 DEF RestoreInv
    <2> QED
      BY <1>8, <2>1, <2>3, MemoryAt
  <1> QED
    BY <1>7, <1>8, OpenPath

\* A step that changes no file, after which the program restores nothing, or
\* goes on with its restore.
LEMMA GoesOn ==
    ASSUME StorageFilesAssumption, StorageInv, MemoryInv, NEW p \in Programs,
           NEW r \in ProgramRow, prog' = [prog EXCEPT ![p] = r], sent' = sent,
           file' = file, Task(p)' \notin Restoring \/ Task(p)' = Task(p)
    PROVE  MemoryInv' /\ NothingTaken
  <1>1. RestoreInv(p)
    BY DEF MemoryInv
  <1>2. RestoreInv(p)'
    BY <1>1 DEF RestoreInv, Restoring, Usable
  <1> QED
    BY <1>2, MemorySame

\* A program that stops restores nothing.
LEMMA StopsRemembers ==
    ASSUME StorageFilesAssumption, StorageInv, MemoryInv, NEW p \in Programs,
           Stops(p), sent' = sent, file' = file
    PROVE  MemoryInv' /\ NothingTaken
  <1>1. prog' = [prog EXCEPT ![p] = Idle] /\ Idle \in ProgramRow
    BY Rests DEF Stops
  <1>2. prog'[p] = Idle
    BY <1>1, Frame
  <1>3. Task(p)' \notin Restoring
    BY <1>2 DEF Task, Idle, OpenSteps, Restoring
  <1> QED
    BY <1>1, <1>3, GoesOn

LEMMA ReadHistoryRemembers ==
    ASSUME StorageFilesAssumption, StorageInv, MemoryInv, NEW p \in Programs, ReadHistory(p)
    PROVE  MemoryInv' /\ NothingTaken
  <1>0. PICK path : path = prog[p].path
    OBVIOUS
  <1> DEFINE found == file[path].applied
             r == [prog[p] EXCEPT !.pc = "migrate", !.applied = found]
  <1>1. prog[p].pc = "history" /\ sent' = sent
    BY DEF ReadHistory
  <1>2. CASE ~(Usable(path) /\ KnownPrefix(found, p))
    <2>1. Fails(p)
      BY <1>0, <1>2, Zenon DEF ReadHistory
    <2> QED
      BY <1>1, <2>1, FailsRemembers
  <1>3. CASE Usable(path) /\ KnownPrefix(found, p)
    <2>1. prog' = [prog EXCEPT ![p].pc = "migrate", ![p].applied = found] /\ file' = file
      BY <1>0, <1>3, Zenon DEF ReadHistory
    <2>2. prog' = [prog EXCEPT ![p] = r]
      BY <2>1, Frame
    <2>3. path \in AllPaths
      BY <1>0, Frame DEF ProgramRow
    <2>4. found \in Seq(Nat)
      BY <1>3, <2>3, Lengths, Rows DEF StorageInv
    <2> HIDE DEF found
    <2>5. r \in ProgramRow /\ r.pc = "migrate" /\ r.then = prog[p].then
      BY <2>4, Frame DEF ProgramRow, OpenSteps
    <2> HIDE DEF r
    <2>6. prog'[p] = r
      BY <2>2, Frame
    <2>7. Task(p)' = Task(p)
      BY <1>1, <2>5, <2>6 DEF Task, OpenSteps
    <2> QED
      BY <1>1, <2>1, <2>2, <2>5, <2>7, GoesOn
  <1> QED
    BY <1>2, <1>3

\* A migration leaves what the database remembers.
LEMMA MigratedFields ==
    ASSUME NEW db \in Database, NEW n
    PROVE  /\ Migrated(db, n).kind = "database" /\ Migrated(db, n).keys = db.keys
           /\ Migrated(db, n).past = db.past /\ Migrated(db, n).table = db.table
  <1>1. CASE n \in db.schema
    BY <1>1, Rows DEF Migrated
  <1>2. CASE n \notin db.schema
    <2>1. PICK schema, applied : schema = db.schema \cup {n} /\ applied = Append(db.applied, n)
      OBVIOUS
    <2>2. Migrated(db, n) = [db EXCEPT !.schema = schema, !.applied = applied]
      BY <1>2, <2>1 DEF Migrated
    <2> QED
      BY <2>2 DEF Database
  <1> QED
    BY <1>1, <1>2

LEMMA MigrateRemembers ==
    ASSUME StorageFilesAssumption, RestoresAwaited, StorageInv, MemoryInv,
           NEW p \in Programs, Migrate(p)
    PROVE  MemoryInv' /\ NothingTaken
  <1>0. PICK path, next : path = prog[p].path /\ next = Len(prog[p].applied) + 1
    OBVIOUS
  <1>1. prog[p].pc = "migrate" /\ sent' = sent
    BY DEF Migrate
  <1>2. PICK old : old = file[path]
    OBVIOUS
  <1> DEFINE row == Migrated(old, next)
  <1>3. On(p, path) /\ path \in AllPaths /\ Usable(path) /\ old \in Database
    <2>1. On(p, path) /\ path \in AllPaths
      BY <1>0, <1>1, OwnFile DEF On, OpenSteps
    <2>2. Usable(path)
      BY <1>0, <1>1 DEF StorageInv, OpenInv
    <2> QED
      BY <1>2, <2>1, <2>2, Lengths DEF StorageInv
  <1>4. prog[p].then \in TaskSteps /\ prog[p] \in ProgramRow
    BY <1>1, Frame DEF ProgramRow, PlaceInv, OpenSteps, StorageInv
  <1>5. CASE next > CodeVersion[p]
    <2> DEFINE r == [prog[p] EXCEPT !.pc = prog[p].then]
    <2>1. prog' = [prog EXCEPT ![p] = r] /\ file' = file
      BY <1>0, <1>5, Frame DEF Migrate, Goto
    <2>2. r \in ProgramRow /\ r.pc = prog[p].then /\ r.pc \notin OpenSteps
      BY <1>4 DEF ProgramRow, OpenSteps, OpenedSteps, TaskSteps, TaskSteps
    <2> HIDE DEF r
    <2>3. prog'[p] = r
      BY <2>1, Frame
    <2>4. Task(p)' = Task(p)
      BY <1>1, <2>2, <2>3 DEF Task, OpenSteps
    <2> QED
      BY <1>1, <2>1, <2>2, <2>4, GoesOn
  <1>6. CASE ~(next > CodeVersion[p]) /\ row = old
    <2>1. Fails(p)
      BY <1>0, <1>2, <1>6, Zenon DEF Migrate
    <2> QED
      BY <1>1, <2>1, FailsRemembers
  <1>7. CASE ~(next > CodeVersion[p]) /\ row # old
    <2>0. PICK applied : applied = Append(prog[p].applied, next)
      OBVIOUS
    <2> DEFINE r == [prog[p] EXCEPT !.applied = applied]
    <2>1. file' = [file EXCEPT ![path] = row] /\ prog' = [prog EXCEPT ![p] = r]
      BY <1>0, <1>2, <1>3, <1>7, <2>0, Frame DEF Migrate
    <2>2. /\ row.kind = "database" /\ row.keys = old.keys /\ row.past = old.past
          /\ row.table = old.table
      BY <1>3, MigratedFields
    <2>3. next \in Nat
      BY <1>0, Frame DEF ProgramRow
    <2>4. applied \in Seq(Nat)
      BY <1>4, <2>0, <2>3 DEF ProgramRow
    <2>5. r \in ProgramRow /\ r.pc = prog[p].pc /\ r.then = prog[p].then
      BY <1>4, <2>4 DEF ProgramRow
    <2> HIDE DEF r, row
    <2>6. prog'[p] = r
      BY <2>1, Frame
    <2>7. Task(p)' = Task(p)
      BY <2>5, <2>6 DEF Task
    <2> QED
      BY <1>1, <1>2, <1>3, <2>1, <2>2, <2>5, <2>7, ContentRemembers
  <1> QED
    BY <1>5, <1>6, <1>7

LEMMA StartRemembers ==
    ASSUME StorageFilesAssumption, StorageInv, MemoryInv, NEW p \in Programs, Start(p)
    PROVE  MemoryInv' /\ NothingTaken
  <1> DEFINE r == CASE Role[p] = "serve" -> Opens(PathOf[p], "serving")
                    [] Role[p] \in {"verify", "backup"} -> Opens(PathOf[p], "verify")
                    [] Role[p] = "restore" -> [Idle EXCEPT !.pc = "copy"]
  <1>1. /\ PathsAsExpected(p) /\ prog' = [prog EXCEPT ![p] = r]
        /\ file' = file /\ sent' = sent
    BY DEF Start
  <1>2. /\ PathOf[p] \in AllPaths
        /\ Role[p] \in {"serve", "verify", "backup", "restore"}
    BY DEF StorageFilesAssumption, AllPaths
  <1>3. CASE Role[p] \in {"serve", "verify", "backup"}
    <2> DEFINE then == IF Role[p] = "serve" THEN "serving" ELSE "verify"
    <2>1. r = Opens(PathOf[p], then) /\ then \in TaskSteps /\ then \notin Restoring
      BY <1>3 DEF OpenedSteps, TaskSteps, Restoring
    <2> HIDE DEF r, then
    <2>2. prog'[p] = Opens(PathOf[p], then)
      BY <1>1, <2>1, Frame
    <2>3. r \in ProgramRow /\ Task(p)' = then
      BY <1>2, <2>1, <2>2, OpensRow
    <2> QED
      BY <1>1, <2>1, <2>3, GoesOn
  <1>4. CASE Role[p] = "restore"
    <2>1. r = [Idle EXCEPT !.pc = "copy"]
      BY <1>4
    <2> HIDE DEF r
    <2>2. r \in ProgramRow /\ r.pc = "copy"
      BY <2>1, Rests DEF ProgramRow
    <2>3. prog'[p] = r
      BY <1>1, Frame
    <2>4. Task(p)' = "copy"
      BY <2>2, <2>3 DEF Task, OpenSteps
    <2>5. file[PathOf[p]] = Absent
      BY <1>1, <1>4 DEF PathsAsExpected
    <2>6. RestoreInv(p)'
      BY <1>1, <2>4, <2>5 DEF RestoreInv
    <2> QED
      BY <1>1, <2>2, <2>6, MemorySame
  <1> QED
    BY <1>2, <1>3, <1>4

LEMMA VerifyRemembers ==
    ASSUME StorageFilesAssumption, StorageInv, MemoryInv, NEW p \in Programs, Verify(p)
    PROVE  MemoryInv' /\ NothingTaken
  <1>0. PICK path : path = prog[p].path
    OBVIOUS
  <1>1. /\ prog' = [prog EXCEPT ![p] = Opens(path, "checked")]
        /\ file' = file /\ sent' = sent
    BY <1>0, Frame DEF Verify
  <1>2. path \in AllPaths /\ "checked" \in TaskSteps
    BY <1>0, Frame DEF ProgramRow, OpenedSteps, TaskSteps, TaskSteps
  <1>3. prog'[p] = Opens(path, "checked")
    BY <1>1, Frame
  <1>4. Opens(path, "checked") \in ProgramRow /\ Task(p)' = "checked"
    BY <1>2, <1>3, OpensRow
  <1>5. Task(p)' \notin Restoring
    BY <1>4 DEF Restoring
  <1> QED
    BY <1>1, <1>4, <1>5, GoesOn

LEMMA VerifyIntegrityRemembers ==
    ASSUME StorageFilesAssumption, StorageInv, MemoryInv, NEW p \in Programs,
           VerifyIntegrity(p)
    PROVE  MemoryInv' /\ NothingTaken
  <1>1. sent' = sent
    BY DEF VerifyIntegrity
  <1>2. CASE Fails(p)
    BY <1>1, <1>2, FailsRemembers
  <1>3. CASE Goto(p, "backup") /\ file' = file
    <2> DEFINE r == [prog[p] EXCEPT !.pc = "backup"]
    <2>1. prog' = [prog EXCEPT ![p] = r]
      BY <1>3, Frame DEF Goto
    <2>2. r \in ProgramRow /\ r.pc = "backup"
      BY Frame DEF ProgramRow, OpenedSteps
    <2> HIDE DEF r
    <2>3. prog'[p] = r
      BY <2>1, Frame
    <2>4. Task(p)' \notin Restoring
      BY <2>2, <2>3 DEF Task, OpenSteps, Restoring
    <2> QED
      BY <1>1, <1>3, <2>1, <2>2, <2>4, GoesOn
  <1>4. CASE Succeeds(p) /\ file' = file
    BY <1>1, <1>4, StopsRemembers DEF Succeeds
  <1> QED
    BY <1>2, <1>3, <1>4 DEF VerifyIntegrity

\* The copy of a file remembers what the file remembers.
LEMMA CopyRemembers ==
    ASSUME StorageFilesAssumption, StorageInv, MemoryInv, NEW path \in AllPaths, Usable(path),
           NEW x \in AllPaths, \A i \in DOMAIN sent : sent[i].path # x,
           NEW row, row.past = Past(path), row.table => file[path].table,
           row.table => row.keys = file[path].keys, file'[x] = row, sent' = sent
    PROVE  KeysInv(x)'
  <1>1. KeysInv(path)
    BY DEF MemoryInv
  <1>2. Past(path) \subseteq DOMAIN sent
    BY <1>1 DEF KeysInv, Past
  <1>3. Past(x)' = Past(path)
    BY DEF Past
  <1>4. row.table => \A i \in Past(path) : sent[i].key \in row.keys
    BY <1>1 DEF KeysInv
  <1> HIDE DEF Past
  <1>5. file'[x].past = Past(path)
    OBVIOUS
  <1> QED
    BY <1>2, <1>3, <1>4, <1>5 DEF KeysInv

\* A backup, and what is left of it, is taken where nothing stands and nobody
\* looks.
LEMMA BackupLands ==
    ASSUME StorageFilesAssumption, SnapshotsUnopened, StorageInv, MemoryInv, NEW p \in Programs,
           prog[p].pc = "copying", Usable(prog[p].path), file[Source[p]] = Absent,
           prog' = [prog EXCEPT ![p] = Idle], sent' = sent,
           NEW row, file' = [file EXCEPT ![Source[p]] = row],
           row.kind = "database" =>
               /\ row.past = Past(prog[p].path)
               /\ row.table => file[prog[p].path].table
               /\ row.table => row.keys = file[prog[p].path].keys
    PROVE  MemoryInv' /\ NothingTaken
  <1>1. /\ Role[p] = "backup" /\ prog[p].path \in AllPaths
        /\ Source[p] \in AllPaths /\ Source[p] \in Paths /\ Source[p] \notin Programs
    BY BacksUp DEF StorageFilesAssumption
  <1>2. file'[Source[p]] = row /\ ~Usable(Source[p])
    BY <1>1, Frame, Rows DEF Usable
  <1>3. \A i \in DOMAIN sent : sent[i].path # Source[p]
    BY <1>2, SentPaths DEF MemoryInv
  <1>4. KeysInv(Source[p])'
    <2>1. CASE row.kind = "database"
      BY <1>1, <1>2, <1>3, <2>1, CopyRemembers
    <2>2. CASE row.kind # "database"
      BY <1>2, <2>2 DEF KeysInv, Usable
    <2> QED
      BY <2>1, <2>2
  <1>5. TableInv(Source[p])'
    BY <1>1 DEF TableInv
  <1>6. \A q \in Programs : PathOf[q] # Source[p]
    BY <1>1 DEF SnapshotsUnopened
  <1>7. Remade(p, Source[p])
    BY <1>1, <1>2, <1>4, <1>5, <1>6 DEF Remade
  <1>8. prog'[p] = Idle /\ Idle \in ProgramRow
    BY Frame, Rests
  <1>9. RestoreInv(p)'
    BY <1>8 DEF RestoreInv, Task, Idle, OpenSteps
  <1> QED
    BY <1>1, <1>7, <1>8, <1>9, MemoryAt

LEMMA BackupRemembers ==
    ASSUME StorageFilesAssumption, StorageInv, MemoryInv, NEW p \in Programs, Backup(p)
    PROVE  MemoryInv' /\ NothingTaken
  <1> DEFINE r == [prog[p] EXCEPT !.pc = "copying"]
  <1>1. sent' = sent
    BY DEF Backup
  <1>2. CASE Fails(p)
    BY <1>1, <1>2, FailsRemembers
  <1>3. CASE Goto(p, "copying") /\ file' = file
    <2>1. prog' = [prog EXCEPT ![p] = r]
      BY <1>3, Frame DEF Goto
    <2>2. r \in ProgramRow /\ r.pc = "copying"
      BY Frame DEF ProgramRow, OpenedSteps
    <2> HIDE DEF r
    <2>3. prog'[p] = r
      BY <2>1, Frame
    <2>4. Task(p)' \notin Restoring
      BY <2>2, <2>3 DEF Task, OpenSteps, Restoring
    <2> QED
      BY <1>1, <1>3, <2>1, <2>2, <2>4, GoesOn
  <1> QED
    BY <1>2, <1>3 DEF Backup

LEMMA BackupCopyRemembers ==
    ASSUME StorageFilesAssumption, SnapshotsUnopened, StorageInv, MemoryInv,
           NEW p \in Programs, BackupInv(p), BackupCopy(p)
    PROVE  MemoryInv' /\ NothingTaken
  <1>0. PICK path, row : path = prog[p].path /\ row = CopyOf(path)
    OBVIOUS
  <1>1. /\ prog[p].pc = "copying" /\ Usable(path) /\ sent' = sent
        /\ file[Source[p]] = Absent
    BY <1>0 DEF BackupCopy, BackupInv
  <1>2. path \in AllPaths
    BY <1>0, <1>1, BacksUp
  <1>3. file' = [file EXCEPT ![Source[p]] = row] /\ prog' = [prog EXCEPT ![p] = Idle]
    BY <1>0 DEF BackupCopy, Succeeds, Stops
  <1>4. row.past = Past(path) /\ row.keys = file[path].keys /\ row.table = file[path].table
    BY <1>0, <1>1, <1>2, CopyFacts
  <1> QED
    BY <1>0, <1>1, <1>3, <1>4, BackupLands

\* What a failed backup removes is its own: nothing was there before it.
LEMMA BackupFailsRemembers ==
    ASSUME StorageFilesAssumption, StorageInv, MemoryInv, NEW p \in Programs,
           BackupInv(p), BackupFails(p)
    PROVE  MemoryInv' /\ NothingTaken
  <1>1. prog[p].pc = "copying" /\ Stops(p) /\ sent' = sent
    BY DEF BackupFails
  <1>2. file' = file
    BY <1>1, BacksUp, Frame DEF BackupFails, BackupInv
  <1> QED
    BY <1>1, <1>2, StopsRemembers

LEMMA KillRemembers ==
    ASSUME StorageFilesAssumption, SnapshotsUnopened, StorageInv, MemoryInv,
           NEW p \in Programs, Kill(p)
    PROVE  MemoryInv' /\ NothingTaken
  <1>1. Stops(p) /\ sent' = sent /\ prog' = [prog EXCEPT ![p] = Idle]
    BY DEF Kill, Stops
  <1>2. CASE file' = file
    BY <1>1, <1>2, StopsRemembers
  <1>3. CASE file' # file
    <2>1. prog[p].pc = "copying" /\ file[Source[p]] = Absent
      BY <1>3 DEF Kill
    <2>2. PICK rest \in Unfinished(prog[p].path) : file' = [file EXCEPT ![Source[p]] = rest]
      BY <2>1 DEF Kill
    <2>3. Usable(prog[p].path) /\ prog[p].path \in AllPaths
      BY <2>1, BacksUp DEF StorageInv, OpenInv, OpenedSteps
    <2>4. rest.kind = "database" => ~rest.table /\ rest.past = Past(prog[p].path)
      BY <2>3, UnfinishedFacts
    <2> QED
      BY <1>1, <2>1, <2>2, <2>3, <2>4, BackupLands
  <1> QED
    BY <1>2, <1>3

LEMMA CopyStepRemembers ==
    ASSUME StorageFilesAssumption, StorageInv, MemoryInv, NEW p \in Programs, Copy(p)
    PROVE  MemoryInv' /\ NothingTaken
  <1>0. PICK row : row = CopyOf(Source[p])
    OBVIOUS
  <1> DEFINE r == [prog[p] EXCEPT !.pc = "check"]
  <1>1. /\ prog[p].pc = "copy" /\ sent' = sent
        /\ file' = [file EXCEPT ![p] = row] /\ prog' = [prog EXCEPT ![p] = r]
    BY <1>0, Frame DEF Copy, Goto
  <1>2. /\ p \in AllPaths /\ Source[p] \in AllPaths /\ PathOf[p] \in AllPaths
        /\ PathOf[p] # p /\ \A i \in DOMAIN sent : sent[i].path # p
    BY SentPaths DEF StorageFilesAssumption, AllPaths, MemoryInv
  <1>3. r \in ProgramRow /\ r.pc = "check"
    BY Frame DEF ProgramRow
  <1> HIDE DEF r
  <1>4. file'[p] = row /\ file'[PathOf[p]] = file[PathOf[p]] /\ prog'[p] = r
    BY <1>1, <1>2, Frame
  <1>5. KeysInv(p)'
    <2>1. CASE Usable(Source[p])
      <3>1. /\ row.past = Past(Source[p]) /\ row.keys = file[Source[p]].keys
            /\ row.table = file[Source[p]].table
        BY <1>0, <1>2, <2>1, CopyFacts
      <3> QED
        BY <1>1, <1>2, <1>4, <2>1, <3>1, CopyRemembers
    <2>2. CASE ~Usable(Source[p])
      <3>1. row.kind # "database"
        BY <1>0, <1>2, <2>2, CopyFacts
      <3> QED
        BY <1>4, <3>1 DEF KeysInv, Usable
    <2> QED
      BY <2>1, <2>2
  <1>6. Task(p) = "copy" /\ Task(p)' = "check" /\ RestoreInv(p)
    BY <1>1, <1>3, <1>4 DEF Task, OpenSteps, MemoryInv
  <1>7. RestoreInv(p)'
    BY <1>4, <1>6 DEF RestoreInv
  <1> QED
    BY <1>1, <1>3, <1>5, <1>7, MemoryTemporary

LEMMA CheckSourceRemembers ==
    ASSUME StorageFilesAssumption, StorageInv, MemoryInv, NEW p \in Programs, CheckSource(p)
    PROVE  MemoryInv' /\ NothingTaken
  <1>1. prog[p].pc = "check" /\ sent' = sent
    BY DEF CheckSource
  <1>2. CASE ~SourceValid(p)
    BY <1>1, <1>2, FailsRemembers DEF CheckSource
  <1>3. CASE SourceValid(p)
    <2>1. prog' = [prog EXCEPT ![p] = Opens(p, "integrity")] /\ file' = file
      BY <1>3 DEF CheckSource
    <2>2. prog'[p] = Opens(p, "integrity") /\ p \in AllPaths /\ "integrity" \in TaskSteps
      BY <2>1, Frame DEF AllPaths, OpenedSteps, TaskSteps, TaskSteps
    <2>3. Opens(p, "integrity") \in ProgramRow /\ Task(p)' = "integrity"
      BY <2>2, OpensRow
    <2>4. Task(p) = "check" /\ RestoreInv(p)
      BY <1>1 DEF Task, OpenSteps, MemoryInv
    <2>5. RestoreInv(p)'
      BY <1>3, <2>1, <2>3, <2>4 DEF RestoreInv, SourceValid, Usable
    <2> QED
      BY <1>1, <2>1, <2>3, <2>5, MemorySame
  <1> QED
    BY <1>2, <1>3

LEMMA RejectRemembers ==
    ASSUME StorageFilesAssumption, StorageInv, MemoryInv, NEW p \in Programs, Reject(p)
    PROVE  MemoryInv' /\ NothingTaken
  BY FailsRemembers DEF Reject

\* The accepted copy is moved to where nothing was: nobody has looked there.
LEMMA ReplaceRemembers ==
    ASSUME StorageFilesAssumption, RestoresAwaited, StorageInv, MemoryInv,
           NEW p \in Programs, Replace(p)
    PROVE  MemoryInv' /\ NothingTaken
  <1>0. PICK to, row : to = PathOf[p] /\ row = file[p]
    OBVIOUS
  <1>1. /\ prog[p].pc = "integrity" /\ sent' = sent
        /\ file' = [file EXCEPT ![to] = row, ![p] = Absent]
        /\ prog' = [prog EXCEPT ![p] = Opens(to, "verify")]
    BY <1>0 DEF Replace
  <1>2. Role[p] = "restore" /\ prog[p].pc # "idle" /\ Task(p) = "integrity"
    <2>1. PlaceInv(p) /\ Role[p] \in {"serve", "verify", "backup", "restore"}
      BY DEF StorageInv, StorageFilesAssumption
    <2> QED
      BY <1>1, <2>1 DEF PlaceInv, Task, Tasks, OpenSteps
  <1>3. /\ to \in AllPaths /\ to \in Paths /\ to \notin Programs /\ p \in AllPaths /\ to # p
        /\ Usable(p) /\ row.table /\ file[to] = Absent
    BY <1>0, <1>2 DEF StorageFilesAssumption, AllPaths, MemoryInv, RestoreInv
  <1>4. \A path \in AllPaths : file'[path] = IF path = p THEN Absent
                                             ELSE IF path = to THEN row ELSE file[path]
    BY <1>1, <1>3, Frame
  <1>5. KeysInv(p)'
    BY <1>3, <1>4, Rows DEF KeysInv, Usable
  <1>6. prog'[p] = Opens(to, "verify") /\ "verify" \in TaskSteps
    BY <1>1, Frame DEF OpenedSteps, TaskSteps, TaskSteps
  <1>7. Opens(to, "verify") \in ProgramRow /\ Task(p)' = "verify"
    BY <1>3, <1>6, OpensRow
  <1>8. RestoreInv(p)'
    BY <1>7 DEF RestoreInv
  <1>9. KeysInv(to)'
    <2>1. \A i \in DOMAIN sent : sent[i].path # p /\ sent[i].path # to
      BY <1>3, SentPaths, Rows DEF MemoryInv, Usable
    <2>2. row.past = Past(p)
      BY <1>0, <2>1 DEF Past
    <2>3. file'[to] = row
      BY <1>3, <1>4
    <2> QED
      BY <1>0, <1>1, <1>3, <2>1, <2>2, <2>3, CopyRemembers
  <1>10. TableInv(to)'
    BY <1>3, <1>4 DEF TableInv
  <1>11. \A q \in Programs \ {p} : Task(q) \in Restoring => PathOf[q] # to
    <2> SUFFICES ASSUME NEW q \in Programs \ {p}, Task(q) \in Restoring
                 PROVE  PathOf[q] # to
      OBVIOUS
    <2>1. prog[q].pc # "idle"
      BY DEF Task, Restoring, OpenSteps
    <2> QED
      BY <1>0, <1>2, <2>1, OneRestore
  <1>12. Remade(p, to)
    BY <1>3, <1>9, <1>10, <1>11, Rows DEF Remade, Usable
  <1>13. \A path \in AllPaths \ {p} : file'[path] = file[path] \/ Remade(p, path)
    BY <1>4, <1>12
  <1> QED
    BY <1>1, <1>5, <1>7, <1>8, <1>13, MemoryStep

\* A write goes through a database that knows neither its key nor, by that,
\* any earlier write of it.
LEMMA ServeRemembers ==
    ASSUME StorageFilesAssumption, RestoresAwaited, SnapshotsUnopened, StorageInv, MemoryInv,
           NEW p \in Programs, NEW k \in Keys, Serve(p, k)
    PROVE  MemoryInv' /\ NothingTaken
  <1>0. PICK path, old, n : path = prog[p].path /\ old = file[path] /\ n = Len(sent) + 1
    OBVIOUS
  <1> DEFINE row == [old EXCEPT !.keys = old.keys \cup {k}]
  <1>1. /\ prog[p].pc = "serving" /\ prog' = prog
        /\ Usable(path) /\ k \notin old.keys
        /\ sent' = Append(sent, [key |-> k, path |-> path])
    BY <1>0 DEF Serve
  <1>2. On(p, path) /\ Task(p) = "serving"
    BY <1>0, <1>1 DEF On, Task, OpenSteps, OpenedSteps
  <1>3. /\ path = PathOf[p] /\ path \in Paths /\ path \in AllPaths /\ path \notin Programs
        /\ \A q \in Programs \ {p} : Task(q) \in Restoring => PathOf[q] # path
    BY <1>2, OpenPath DEF StorageFilesAssumption, AllPaths
  <1>4. old \in Database /\ old.table
    BY <1>0, <1>1, <1>2, <1>3, Lengths, OpenedTable DEF StorageInv
  <1>5. /\ row.kind = "database" /\ row.table = old.table /\ row.past = old.past
        /\ row.keys = old.keys \cup {k}
    BY <1>4, Rows DEF Database
  <1>6. file' = [file EXCEPT ![path] = row]
    BY <1>0, <1>3, Frame DEF Serve
  <1> HIDE DEF row
  <1>7. \A x \in AllPaths : file'[x] = IF x = path THEN row ELSE file[x]
    BY <1>6, Frame
  <1>8. /\ n \in Nat /\ DOMAIN sent' = DOMAIN sent \cup {n} /\ n \notin DOMAIN sent
        /\ sent'[n] = [key |-> k, path |-> path]
        /\ \A i \in DOMAIN sent : sent'[i] = sent[i] /\ i < n
        /\ DOMAIN sent \subseteq Nat
    BY <1>0, <1>1, Frame
  <1>9. ASSUME NEW x \in AllPaths, Usable(x)
        PROVE  /\ Usable(x)' /\ file'[x].table = file[x].table
               /\ file'[x].past = file[x].past /\ file[x].keys \subseteq file'[x].keys
    BY <1>0, <1>5, <1>7, <1>9 DEF Usable
  <1>10. \A x \in AllPaths : Usable(x)' <=> Usable(x)
    BY <1>0, <1>1, <1>5, <1>7 DEF Usable
  <1>11. ASSUME NEW q \in Programs PROVE RestoreInv(q)'
    <2>1. RestoreInv(q) /\ Task(q)' = Task(q)
      BY <1>1 DEF MemoryInv, Task
    <2>2. q \in AllPaths /\ PathOf[q] \in AllPaths
      BY DEF StorageFilesAssumption, AllPaths
    <2>3. Task(q) \in Restoring => q # p
      BY <1>2 DEF Restoring
    <2>4. Task(q) \in Restoring => file'[PathOf[q]] = Absent
      BY <1>3, <1>7, <2>1, <2>2, <2>3 DEF RestoreInv, Restoring
    <2>5. file'[q] = file[q]
      BY <1>3, <1>7, <2>2
    <2> QED
      BY <2>1, <2>4, <2>5 DEF RestoreInv, Restoring, Usable
  <1>12. ASSUME NEW x \in AllPaths PROVE TableInv(x)' /\ KeysInv(x)'
    <2>1. TableInv(x) /\ KeysInv(x)
      BY DEF MemoryInv
    <2>2. TableInv(x)'
      BY <1>9, <1>10, <2>1 DEF TableInv
    <2>3. KeysInv(x)'
      <3> SUFFICES ASSUME Usable(x)
                   PROVE  /\ file'[x].past \subseteq DOMAIN sent'
                          /\ file'[x].table => \A i \in Past(x)' : sent'[i].key \in file'[x].keys
        BY <1>10 DEF KeysInv
      <3>1. file'[x].past \subseteq DOMAIN sent
        BY <1>9, <2>1 DEF KeysInv
      <3>2. ASSUME file'[x].table, NEW i \in Past(x)' PROVE sent'[i].key \in file'[x].keys
        <4>1. CASE i \in DOMAIN sent
          <5>1. i \in Past(x)
            BY <1>8, <1>9, <3>2, <4>1 DEF Past
          <5> QED
            BY <1>8, <1>9, <2>1, <3>2, <4>1, <5>1 DEF KeysInv
        <4>2. CASE i \notin DOMAIN sent
          <5>1. i = n /\ x = path
            BY <1>8, <3>1, <3>2, <4>2 DEF Past
          <5> QED
            BY <1>3, <1>5, <1>7, <1>8, <5>1
        <4> QED
          BY <4>1, <4>2
      <3> QED
        BY <1>8, <3>1, <3>2
    <2> QED
      BY <2>2, <2>3
  <1>13. SentInv'
    <2> SUFFICES ASSUME NEW i \in DOMAIN sent'
                 PROVE  /\ file'[sent'[i].path].kind = "database"
                        /\ \E q \in Programs : sent'[i].path = PathOf[q]
      BY DEF SentInv, Usable
    <2>1. CASE i \in DOMAIN sent
      <3>1. Usable(sent[i].path) /\ sent[i].path \in AllPaths /\ sent'[i] = sent[i]
        BY <1>8, <2>1, SentPaths DEF MemoryInv
      <3> QED
        BY <1>9, <2>1, <3>1 DEF MemoryInv, SentInv, Usable
    <2>2. CASE i = n
      BY <1>1, <1>3, <1>8, <1>9, <2>2 DEF Usable
    <2> QED
      BY <1>8, <2>1, <2>2
  <1>14. SnapshotRemembers'
    <2> SUFFICES ASSUME NEW i \in DOMAIN sent', NEW j \in DOMAIN sent',
                        i < j, sent'[i].key = sent'[j].key
                 PROVE  /\ sent'[i].path # sent'[j].path
                        /\ i \notin file'[sent'[j].path].past
      BY DEF SnapshotRemembers
    <2>1. i \in DOMAIN sent
      BY <1>8
    <2>2. CASE j \in DOMAIN sent
      <3>1. sent'[i] = sent[i] /\ sent'[j] = sent[j]
        BY <1>8, <2>1, <2>2
      <3>2. sent[j].path \in AllPaths /\ Usable(sent[j].path)
        BY <2>2, SentPaths DEF MemoryInv
      <3>3. file'[sent[j].path].past = file[sent[j].path].past
        BY <1>9, <3>2
      <3> QED
        BY <2>1, <2>2, <3>1, <3>3 DEF MemoryInv, SnapshotRemembers
    <2>3. CASE j = n
      <3>1. sent'[i] = sent[i] /\ sent[i].key = k /\ sent'[j].path = path
        BY <1>8, <2>1, <2>3
      <3>2. KeysInv(path)
        BY <1>3 DEF MemoryInv
      <3>3. i \notin Past(path)
        BY <1>0, <1>1, <1>4, <3>1, <3>2 DEF KeysInv
      <3>4. file'[path].past = file[path].past
        BY <1>1, <1>3, <1>9
      <3> QED
        BY <2>1, <3>1, <3>3, <3>4 DEF Past
    <2> QED
      BY <1>8, <2>2, <2>3
  <1>15. NothingTaken
    BY <1>9 DEF NothingTaken, AllPaths
  <1> QED
    BY <1>11, <1>12, <1>13, <1>14, <1>15 DEF MemoryInv

\* What a step leaves alone of the files, and how a backup comes to its copy.
Touched(p) ==
    /\ \A x \in AllPaths :
          \/ file'[x] = file[x] \/ x = p \/ x = PathOf[p]
          \/ x = Source[p] /\ Role[p] = "backup"
    /\ \A q \in Programs \ {p} : prog'[q] = prog[q]
    /\ prog'[p].pc = "copying" => file' = file /\ file[Source[p]] = Absent

LEMMA TouchesOne ==
    ASSUME StorageInv, NEW p \in Programs, NEW r, prog' = [prog EXCEPT ![p] = r],
           r.pc # "copying", NEW x,
           \/ x = p
           \/ x = PathOf[p]
           \/ x = Source[p] /\ Role[p] = "backup",
           NEW row, file' = file \/ file' = [file EXCEPT ![x] = row]
    PROVE  Touched(p)
  <1>1. \A y \in AllPaths : file'[y] = file[y] \/ y = x
    BY Frame
  <1>2. prog'[p] = r /\ \A q \in Programs \ {p} : prog'[q] = prog[q]
    BY Frame
  <1> QED
    BY <1>1, <1>2 DEF Touched

LEMMA TouchesGoing ==
    ASSUME StorageInv, NEW p \in Programs, NEW pc, Goto(p, pc), pc # "copying", NEW x,
           \/ x = p
           \/ x = PathOf[p]
           \/ x = Source[p] /\ Role[p] = "backup",
           NEW row, file' = file \/ file' = [file EXCEPT ![x] = row]
    PROVE  Touched(p)
  <1> DEFINE r == [prog[p] EXCEPT !.pc = pc]
  <1>1. prog' = [prog EXCEPT ![p] = r]
    BY Frame DEF Goto
  <1>2. r.pc # "copying"
    BY Frame DEF ProgramRow
  <1> HIDE DEF r
  <1> QED
    BY <1>1, <1>2, TouchesOne

\* A program that ends.
LEMMA TouchesEnding ==
    ASSUME StorageInv, NEW p \in Programs, NEW x,
           \/ x = p
           \/ x = PathOf[p]
           \/ x = Source[p] /\ Role[p] = "backup",
           NEW row, Stops(p) /\ (file' = file \/ file' = [file EXCEPT ![x] = row])
    PROVE  Touched(p)
  <1>1. Idle.pc # "copying"
    BY DEF Idle
  <1> QED
    BY <1>1, TouchesOne DEF Stops

LEMMA TouchesFailing ==
    ASSUME StorageInv, NEW p \in Programs, Fails(p)
    PROVE  Touched(p)
  BY TouchesEnding DEF Fails

\* Where a program has its file open.
LEMMA TouchesOpen ==
    ASSUME StorageFilesAssumption, StorageInv, NEW p \in Programs,
           prog[p].pc \in OpenSteps \cup OpenedSteps
    PROVE  prog[p].path = p \/ prog[p].path = PathOf[p]
  BY OwnFile DEF On

\* apply_migrations.
LEMMA TouchesMigrating ==
    ASSUME StorageFilesAssumption, StorageInv, NEW p \in Programs,
           EnsureTable(p) \/ ReadHistory(p) \/ Migrate(p)
    PROVE  Touched(p)
  <1>1. ASSUME prog[p].pc \in OpenSteps
        PROVE  prog[p].path = p \/ prog[p].path = PathOf[p]
    BY <1>1, TouchesOpen
  <1>2. CASE EnsureTable(p) /\ ~Fails(p)
    <2>1. Goto(p, "history") /\ prog[p].pc = "open"
      BY <1>2 DEF EnsureTable
    <2>2. PICK row : file' = [file EXCEPT ![prog[p].path] = row]
      BY <1>2, Zenon DEF EnsureTable
    <2> QED
      BY <1>1, <2>1, <2>2, TouchesGoing DEF OpenSteps
  <1>3. CASE ReadHistory(p) /\ ~Fails(p)
    <2> DEFINE found == file[prog[p].path].applied
               r == [prog[p] EXCEPT !.pc = "migrate", !.applied = found]
    <2>1. prog' = [prog EXCEPT ![p] = r] /\ file' = file
      BY <1>3, Frame DEF ReadHistory
    <2>2. r.pc = "migrate"
      <3> HIDE DEF found
      <3> QED
        BY Frame DEF ProgramRow
    <2> HIDE DEF r
    <2> QED
      BY <2>1, <2>2, TouchesOne
  <1>4. CASE Migrate(p) /\ ~Fails(p)
    <2>1. prog[p].pc = "migrate"
      BY <1>4 DEF Migrate
    <2>2. CASE Goto(p, prog[p].then) /\ file' = file
      <3>1. prog[p].then # "copying"
        BY Frame DEF ProgramRow, TaskSteps
      <3> QED
        BY <2>2, <3>1, TouchesGoing
    <2>3. CASE ~(Goto(p, prog[p].then) /\ file' = file)
      <3>1. PICK applied, row :
               /\ file' = [file EXCEPT ![prog[p].path] = row]
               /\ prog' = [prog EXCEPT ![p] = [prog[p] EXCEPT !.applied = applied]]
        BY <1>4, <2>3, Zenon DEF Migrate
      <3> DEFINE r == [prog[p] EXCEPT !.applied = applied]
      <3>2. r.pc = "migrate"
        BY <2>1, Frame DEF ProgramRow
      <3> HIDE DEF r
      <3> QED
        BY <1>1, <2>1, <3>1, <3>2, TouchesOne DEF OpenSteps, r
    <2> QED
      BY <2>2, <2>3
  <1> QED
    BY <1>2, <1>3, <1>4, TouchesFailing

\* Storage.backup.
LEMMA TouchesBackingUp ==
    ASSUME StorageFilesAssumption, StorageInv, NEW p \in Programs,
           Backup(p) \/ BackupCopy(p) \/ BackupFails(p) \/ Kill(p)
    PROVE  Touched(p)
  <1>1. CASE Backup(p) /\ ~Fails(p)
    <2>1. file' = file /\ file[Source[p]] = Absent /\ Goto(p, "copying")
      BY <1>1 DEF Backup
    <2>2. \A q \in Programs \ {p} : prog'[q] = prog[q]
      BY <2>1, Frame DEF Goto
    <2> QED
      BY <2>1, <2>2 DEF Touched
  <1>2. CASE BackupCopy(p)
    <2>1. Role[p] = "backup"
      BY <1>2, BacksUp DEF BackupCopy
    <2>2. Stops(p) /\ file' = [file EXCEPT ![Source[p]] = CopyOf(prog[p].path)]
      BY <1>2 DEF BackupCopy, Succeeds
    <2> QED
      BY <2>1, <2>2, TouchesEnding
  <1>3. CASE BackupFails(p)
    <2>1. Role[p] = "backup"
      BY <1>3, BacksUp DEF BackupFails
    <2>2. Stops(p) /\ (file' = file \/ file' = [file EXCEPT ![Source[p]] = Absent])
      BY <1>3 DEF BackupFails
    <2> QED
      BY <2>1, <2>2, TouchesEnding
  <1>4. CASE Kill(p) /\ file' = file
    BY <1>4, TouchesEnding DEF Kill
  <1>5. CASE Kill(p) /\ file' # file
    <2>1. Stops(p) /\ prog[p].pc = "copying"
      BY <1>5 DEF Kill
    <2>2. PICK rest : file' = [file EXCEPT ![Source[p]] = rest]
      BY <1>5, Zenon DEF Kill
    <2>3. Role[p] = "backup"
      BY <2>1, BacksUp
    <2> QED
      BY <2>1, <2>2, <2>3, TouchesEnding
  <1> QED
    BY <1>1, <1>2, <1>3, <1>4, <1>5, TouchesFailing

\* Every step.
LEMMA Touches ==
    ASSUME StorageFilesAssumption, StorageInv, NEW p \in Programs,
           \/ Start(p) \/ EnsureTable(p) \/ ReadHistory(p) \/ Migrate(p)
           \/ Verify(p) \/ VerifyIntegrity(p) \/ Backup(p) \/ BackupCopy(p)
           \/ BackupFails(p) \/ Copy(p) \/ CheckSource(p) \/ Replace(p) \/ Reject(p)
           \/ Kill(p) \/ \E k \in Keys : Serve(p, k)
    PROVE  Touched(p)
  <1>1. \A path, then : Opens(path, then).pc = "open"
    BY DEF Opens
  <1>2. CASE Start(p)
    <2> DEFINE r == CASE Role[p] = "serve" -> Opens(PathOf[p], "serving")
                      [] Role[p] \in {"verify", "backup"} -> Opens(PathOf[p], "verify")
                      [] Role[p] = "restore" -> [Idle EXCEPT !.pc = "copy"]
    <2>1. [Idle EXCEPT !.pc = "copy"].pc = "copy"
      BY DEF Idle
    <2>2. Role[p] \in {"serve", "verify", "backup", "restore"}
      BY DEF StorageFilesAssumption
    <2>3. r.pc # "copying"
      BY <1>1, <2>1, <2>2
    <2>4. prog' = [prog EXCEPT ![p] = r] /\ file' = file
      BY <1>2 DEF Start
    <2> HIDE DEF r
    <2> QED
      BY <2>3, <2>4, TouchesOne
  <1>3. CASE Verify(p) \/ (CheckSource(p) /\ ~Fails(p))
    <2>1. PICK path, then : prog' = [prog EXCEPT ![p] = Opens(path, then)]
      BY <1>3, Zenon DEF Verify, CheckSource
    <2>2. file' = file
      BY <1>3 DEF Verify, CheckSource
    <2>3. PICK r : r = Opens(path, then)
      OBVIOUS
    <2>4. r.pc # "copying"
      BY <1>1, <2>3
    <2> QED
      BY <2>1, <2>2, <2>3, <2>4, TouchesOne
  <1>4. CASE VerifyIntegrity(p) /\ ~Fails(p)
    <2>1. CASE Stops(p) /\ file' = file
      BY <2>1, TouchesEnding
    <2>2. CASE Goto(p, "backup") /\ file' = file
      BY <2>2, TouchesGoing
    <2> QED
      BY <1>4, <2>1, <2>2 DEF VerifyIntegrity, Succeeds
  <1>5. CASE Copy(p)
    <2>1. Goto(p, "check") /\ file' = [file EXCEPT ![p] = CopyOf(Source[p])]
      BY <1>5 DEF Copy
    <2> QED
      BY <2>1, TouchesGoing
  <1>6. CASE Replace(p)
    <2>1. PICK r : r = Opens(PathOf[p], "verify")
      OBVIOUS
    <2>2. prog' = [prog EXCEPT ![p] = r] /\ r.pc = "open"
      BY <1>1, <1>6, <2>1 DEF Replace
    <2>3. prog'[p] = r /\ \A q \in Programs \ {p} : prog'[q] = prog[q]
      BY <2>2, Frame
    <2>4. \A x \in AllPaths : file'[x] = file[x] \/ x = p \/ x = PathOf[p]
      BY <1>6, Frame DEF Replace
    <2> QED
      BY <2>2, <2>3, <2>4 DEF Touched
  <1>7. ASSUME NEW k \in Keys, Serve(p, k) PROVE Touched(p)
    <2>1. prog[p].pc = "serving" /\ prog' = prog
      BY <1>7 DEF Serve
    <2>2. PICK row : file' = [file EXCEPT ![prog[p].path] = row]
      BY <1>7, Zenon DEF Serve
    <2>3. prog' = [prog EXCEPT ![p] = prog[p]]
      BY <2>1, Frame
    <2>4. prog[p].path = p \/ prog[p].path = PathOf[p]
      BY <2>1, TouchesOpen DEF OpenedSteps
    <2> QED
      BY <2>1, <2>2, <2>3, <2>4, TouchesOne
  <1>8. CASE Reject(p)
    BY <1>8, TouchesFailing DEF Reject
  <1> QED
    BY <1>2, <1>3, <1>4, <1>5, <1>6, <1>7, <1>8, TouchesFailing, TouchesMigrating,
       TouchesBackingUp

\* A destination found free stays free: nobody opens it and no other backup
\* has it.
LEMMA DestinationFree ==
    ASSUME StorageFilesAssumption, SnapshotsUnopened, SnapshotsOwn, StorageInv,
           \A p \in Programs : BackupInv(p), [Next]_vars
    PROVE  \A p \in Programs : BackupInv(p)'
  <1>1. CASE UNCHANGED vars
    BY <1>1 DEF vars, BackupInv
  <1>2. ASSUME NEW p \in Programs,
               \/ Start(p) \/ EnsureTable(p) \/ ReadHistory(p) \/ Migrate(p)
               \/ Verify(p) \/ VerifyIntegrity(p) \/ Backup(p) \/ BackupCopy(p)
               \/ BackupFails(p) \/ Copy(p) \/ CheckSource(p) \/ Replace(p) \/ Reject(p)
               \/ Kill(p) \/ \E k \in Keys : Serve(p, k)
        PROVE  \A q \in Programs : BackupInv(q)'
    <2>1. BackupInv(p)'
      BY <1>2, Touches DEF BackupInv, Touched
    <2>2. ASSUME NEW q \in Programs \ {p}, prog'[q].pc = "copying"
          PROVE  file'[Source[q]] = Absent
      <3>1. prog[q].pc = "copying"
        BY <1>2, <2>2, Touches DEF Touched
      <3>2. /\ Role[q] = "backup" /\ Source[q] \in AllPaths /\ Source[q] # PathOf[p]
            /\ Source[q] # p
        BY <3>1, BacksUp DEF StorageFilesAssumption
      <3>3. Role[p] = "backup" => Source[q] # Source[p]
        BY <3>2 DEF SnapshotsOwn
      <3>4. file'[Source[q]] = file[Source[q]]
        BY <1>2, <3>2, <3>3, Touches DEF Touched
      <3> QED
        BY <3>1, <3>4 DEF BackupInv
    <2> QED
      BY <2>1, <2>2 DEF BackupInv
  <1> QED
    BY <1>1, <1>2 DEF Next

LEMMA MemoryKept ==
    ASSUME StorageFilesAssumption, RestoresAwaited, SnapshotsUnopened, StorageInv, MemoryInv,
           \A p \in Programs : BackupInv(p), [Next]_vars
    PROVE  MemoryInv' /\ (NothingTaken \/ UNCHANGED vars)
  <1>1. CASE UNCHANGED vars
    <2> USE <1>1 DEF vars
    <2>1. \A p \in Programs : RestoreInv(p)'
      BY DEF MemoryInv, RestoreInv, Task, Usable
    <2>2. \A path \in AllPaths : TableInv(path)' /\ KeysInv(path)'
      BY DEF MemoryInv, TableInv, KeysInv, Usable, Past
    <2>3. SentInv' /\ SnapshotRemembers'
      BY DEF MemoryInv, SentInv, SnapshotRemembers, Usable
    <2> QED
      BY <2>1, <2>2, <2>3 DEF MemoryInv
  <1>2. ASSUME NEW p \in Programs, NEW k \in Keys, Serve(p, k)
        PROVE  MemoryInv' /\ NothingTaken
    BY <1>2, ServeRemembers
  <1>3. ASSUME NEW p \in Programs,
               \/ Start(p) \/ EnsureTable(p) \/ ReadHistory(p) \/ Migrate(p)
               \/ Verify(p) \/ VerifyIntegrity(p) \/ Backup(p) \/ BackupCopy(p)
               \/ BackupFails(p) \/ Copy(p) \/ CheckSource(p) \/ Replace(p) \/ Reject(p)
               \/ Kill(p)
        PROVE  MemoryInv' /\ NothingTaken
    BY <1>3, StartRemembers, EnsureTableRemembers, ReadHistoryRemembers, MigrateRemembers,
       VerifyRemembers, VerifyIntegrityRemembers, BackupRemembers, BackupCopyRemembers,
       BackupFailsRemembers, CopyStepRemembers, CheckSourceRemembers, ReplaceRemembers,
       RejectRemembers, KillRemembers
  <1> QED
    BY <1>1, <1>2, <1>3 DEF Next

\* Whatever is backed up and restored, and killed on the way: no write is
\* repeated through a database that was copied after it, and what a database
\* remembers is never taken from it, if the operator waits for a restore before
\* opening its destination, opens a backup only by restoring it and gives every
\* backup a destination of its own (Storage.backup, Storage.restore).
THEOREM SnapshotsAreComplete ==
    ASSUME StorageFilesAssumption, RestoresAwaited, SnapshotsUnopened, SnapshotsOwn
    PROVE  Spec => []SnapshotRemembers /\ [][NothingTaken]_vars
  <1> DEFINE Inv == StorageInv /\ MemoryInv /\ \A p \in Programs : BackupInv(p)
  <1>1. Init => Inv
    <2>1. Init => \A p \in Programs : BackupInv(p)
      BY DEF Init, BackupInv, Idle
    <2> QED
      BY <2>1, InitStorage, InitMemory
  <1>2. Inv /\ [Next]_vars => Inv' /\ [NothingTaken]_vars
    BY StorageStep, DestinationFree, MemoryKept
  <1>3. Inv => SnapshotRemembers
    BY DEF MemoryInv
  <1> QED
    BY <1>1, <1>2, <1>3, PTL DEF Spec

=============================================================================
