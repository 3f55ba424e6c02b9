---------------------------- MODULE StorageFiles ----------------------------
(***************************************************************************)
(* SQLite database files and the programs that open them: apply_migrations *)
(* (storage/migrations.py), Storage.open, backup, restore and verify       *)
(* (storage/service.py) and the commands of odoo-mcp-admin                 *)
(* (app/operations.py).                                                    *)
(*                                                                         *)
(* A program is a process running some version of the code.  A transaction *)
(* is one step; between two of its transactions, and between the steps on  *)
(* files, the others run and it may be killed.  A file is its migration    *)
(* history, the migrations whose statements its schema carries, the        *)
(* idempotency keys its rows remember and what happened before it was      *)
(* copied from another.                                                    *)
(* Serving is reduced to the reservation of a key and the write behind it. *)
(***************************************************************************)
EXTENDS Naturals, Sequences, SequencesExt

CONSTANTS
    Programs, CodeVersion,   \* processes and the migrations their code knows
    Role,                    \* "serve", "verify", "backup" or "restore"
    PathOf, Source,          \* --storage; --destination of backup, --source of restore
    Paths,                   \* the paths of the runs
    Waits,                   \* programs whose success the operator waits for first
    Keys,                    \* idempotency keys
    MaxStarts                \* how often a program is started

StorageFilesAssumption ==
    /\ CodeVersion \in [Programs -> Nat \ {0}]
    /\ Role \in [Programs -> {"serve", "verify", "backup", "restore"}]
    /\ PathOf \in [Programs -> Paths] /\ Source \in [Programs -> Paths]
    /\ Waits \in [Programs -> SUBSET Programs]
    /\ MaxStarts \in Nat
    /\ Paths \cap Programs = {}         \* a temporary name is taken by nobody else

VARIABLES
    file,      \* the file at each path; a restore has a temporary path of its own
    prog,      \* what each program is doing
    starts,    \* how often each was started
    done,      \* admin commands that reported success
    sent       \* writes that reached Odoo: the key, and the file that reserved it

vars == <<file, prog, starts, done, sent>>

AllPaths == Paths \cup Programs      \* Programs name the temporary files

Absent == [kind |-> "absent"]
Damaged == [kind |-> "damaged"]
\* An SQLite file.  `past` is history: the writes reserved in the database it
\* was copied from, before it was copied.
Empty == [kind |-> "database", table |-> FALSE, applied |-> <<>>, schema |-> {},
          keys |-> {}, past |-> {}]

Usable(path) == file[path].kind = "database"

\* The writes a database should know of, and a copy of it.
Past(path) == file[path].past \cup {i \in DOMAIN sent : sent[i].path = path}
CopyOf(path) == IF Usable(path) THEN [file[path] EXCEPT !.past = Past(path)] ELSE file[path]
\* What a killed backup leaves behind: a file SQLite rejects, or one with nothing in it.
Unfinished(path) == {[Empty EXCEPT !.past = Past(path)], Damaged}

Idle == [pc |-> "idle", path |-> CHOOSE p \in Paths : TRUE, applied |-> <<>>, then |-> "idle"]

Versions(n) == [i \in 1..n |-> i]

Goto(p, pc) == prog' = [prog EXCEPT ![p].pc = pc]
Stops(p) == prog' = [prog EXCEPT ![p] = Idle]
\* An exception ends the program; restore unlinks its temporary file first.
Fails(p) == Stops(p) /\ file' = [file EXCEPT ![p] = Absent]
Succeeds(p) == Stops(p) /\ done' = done \cup {p}

----------------------------------------------------------------------------
\* apply_migrations, the three kinds of transactions it runs.

\* connect() creates a missing file; CREATE TABLE IF NOT EXISTS.
EnsureTable(p) ==
    LET path == prog[p].path IN
    /\ prog[p].pc = "open"
    /\ IF file[path].kind = "damaged" THEN Fails(p)
       ELSE /\ file' = [file EXCEPT ![path] =
                 IF Usable(path) THEN [@ EXCEPT !.table = TRUE] ELSE [Empty EXCEPT !.table = TRUE]]
            /\ Goto(p, "history")
    /\ UNCHANGED <<starts, done, sent>>

\* list(applied) == identifiers[:len(applied)], and every checksum as expected.
KnownPrefix(applied, p) == IsPrefix(applied, Versions(CodeVersion[p]))

ReadHistory(p) ==
    LET path == prog[p].path IN
    /\ prog[p].pc = "history"
    /\ IF Usable(path) /\ KnownPrefix(file[path].applied, p)
       THEN /\ prog' = [prog EXCEPT ![p].pc = "migrate", ![p].applied = file[path].applied]
            /\ UNCHANGED file
       ELSE Fails(p)
    /\ UNCHANGED <<starts, done, sent>>

\* Defect: the history row in a transaction of its own, before the statements.
RecordedFirst(db, n) ==
    IF n \in db.schema THEN [db EXCEPT !.applied = Append(@, n)]
    ELSE IF n \in {db.applied[i] : i \in DOMAIN db.applied} THEN [db EXCEPT !.schema = @ \cup {n}]
    ELSE [db EXCEPT !.applied = Append(@, n)]

\* The statements of a migration and its history row, one transaction.  They
\* fail if the schema has them already: another program was faster.
Migrated(db, n) == IF n \in db.schema THEN db
                   ELSE [db EXCEPT !.schema = @ \cup {n}, !.applied = Append(@, n)]

\* Defect: migrations[len(applied) + 1:].
MigrateOffByOne(p) ==
    LET path == prog[p].path
        next == Len(prog[p].applied) + 1 IN
    /\ prog[p].pc = "migrate"
    /\ IF next >= CodeVersion[p] THEN Goto(p, prog[p].then) /\ UNCHANGED file
       ELSE IF ~Usable(path) \/ Migrated(file[path], next) = file[path]
       THEN Fails(p)
       ELSE /\ file' = [file EXCEPT ![path] = Migrated(@, next)]
            /\ prog' = [prog EXCEPT ![p].applied = Append(@, next)]
    /\ UNCHANGED <<starts, done, sent>>

Migrate(p) ==
    LET path == prog[p].path
        next == Len(prog[p].applied) + 1 IN
    /\ prog[p].pc = "migrate"
    /\ IF next > CodeVersion[p] THEN Goto(p, prog[p].then) /\ UNCHANGED file
       ELSE IF ~Usable(path) \/ Migrated(file[path], next) = file[path]
       THEN Fails(p)
       ELSE /\ file' = [file EXCEPT ![path] = Migrated(@, next)]
            /\ prog' = [prog EXCEPT ![p].applied = Append(@, next)]
    /\ UNCHANGED <<starts, done, sent>>

\* Storage.open(path), and what follows it.
Opens(path, then) == [pc |-> "open", path |-> path, applied |-> <<>>, then |-> then]

----------------------------------------------------------------------------
\* The programs.

\* Defect: restore without its look at the destination.
DestinationUnchecked(p) ==
    CASE Role[p] = "serve" -> TRUE
      [] Role[p] \in {"verify", "backup"} -> file[PathOf[p]] # Absent
      [] Role[p] = "restore" -> file[Source[p]] # Absent

\* verify and backup want the file to exist, restore wants its source to exist
\* and its destination not to.  A server creates what is missing.
PathsAsExpected(p) ==
    CASE Role[p] = "serve" -> TRUE
      [] Role[p] \in {"verify", "backup"} -> file[PathOf[p]] # Absent
      [] Role[p] = "restore" -> file[Source[p]] # Absent /\ file[PathOf[p]] = Absent

\* odoo-mcp --storage, odoo-mcp-admin verify, backup, restore.
Start(p) ==
    /\ prog[p].pc = "idle" /\ starts[p] < MaxStarts /\ Waits[p] \subseteq done
    /\ PathsAsExpected(p)
    /\ starts' = [starts EXCEPT ![p] = @ + 1]
    /\ prog' = [prog EXCEPT ![p] =
         CASE Role[p] = "serve" -> Opens(PathOf[p], "serving")
           [] Role[p] \in {"verify", "backup"} -> Opens(PathOf[p], "verify")
           [] Role[p] = "restore" -> [Idle EXCEPT !.pc = "copy"]]
    /\ UNCHANGED <<file, done, sent>>

\* A call reserves its key and then writes to Odoo; a key the file knows is
\* replayed.  The steps between are those of WriteSafety.
Serve(p, k) ==
    LET path == prog[p].path IN
    /\ prog[p].pc = "serving" /\ Usable(path) /\ k \notin file[path].keys
    /\ file' = [file EXCEPT ![path].keys = @ \cup {k}]
    /\ sent' = Append(sent, [key |-> k, path |-> path])
    /\ UNCHANGED <<prog, starts, done>>

\* verify(): apply_migrations once more,
Verify(p) ==
    /\ prog[p].pc = "verify"
    /\ prog' = [prog EXCEPT ![p] = Opens(@.path, "checked")]
    /\ UNCHANGED <<file, starts, done, sent>>

\* and _verify_integrity.
VerifyIntegrity(p) ==
    /\ prog[p].pc = "checked"
    /\ IF ~Usable(prog[p].path) THEN Fails(p) /\ UNCHANGED done
       ELSE /\ IF Role[p] = "backup" THEN Goto(p, "backup") /\ UNCHANGED done ELSE Succeeds(p)
            /\ UNCHANGED file
    /\ UNCHANGED <<starts, sent>>

\* destination.exists() is looked at,
Backup(p) ==
    /\ prog[p].pc = "backup"
    /\ IF file[Source[p]] # Absent THEN Fails(p)
       ELSE Goto(p, "copying") /\ UNCHANGED file
    /\ UNCHANGED <<starts, done, sent>>

\* and then source.backup(target) copies one state of the database over what
\* is there by now.
BackupCopy(p) ==
    /\ prog[p].pc = "copying" /\ Usable(prog[p].path)
    /\ file' = [file EXCEPT ![Source[p]] = CopyOf(prog[p].path)]
    /\ Succeeds(p)
    /\ UNCHANGED <<starts, sent>>

\* An exception of the copy unlinks the destination; one of connect() does not.
BackupFails(p) ==
    /\ prog[p].pc = "copying"
    /\ Stops(p)
    /\ file' \in {file, [file EXCEPT ![Source[p]] = Absent]}
    /\ UNCHANGED <<starts, done, sent>>

\* shutil.copy2(source, temporary)
Copy(p) ==
    /\ prog[p].pc = "copy"
    /\ file' = [file EXCEPT ![p] = CopyOf(Source[p])]
    /\ Goto(p, "check")
    /\ UNCHANGED <<starts, done, sent>>

\* Defect: the copy is opened without _verify_restore_source.
SourceUnchecked(path) == Usable(path)

\* _verify_restore_source: an intact database with a schema_migrations table.
SourceValid(path) == Usable(path) /\ file[path].table

CheckSource(p) ==
    /\ prog[p].pc = "check"
    /\ IF SourceValid(p) THEN prog' = [prog EXCEPT ![p] = Opens(p, "integrity")] /\ UNCHANGED file
       ELSE Fails(p)
    /\ UNCHANGED <<starts, done, sent>>

\* candidate._verify_integrity(), temporary.replace(destination),
\* Storage.open(destination), verify().
Replace(p) ==
    /\ prog[p].pc = "integrity"
    /\ file' = [file EXCEPT ![PathOf[p]] = file[p], ![p] = Absent]
    /\ prog' = [prog EXCEPT ![p] = Opens(PathOf[p], "verify")]
    /\ UNCHANGED <<starts, done, sent>>

\* _verify_integrity raises: a broken audit chain, an invalid row, a key
\* version the keyring lacks.
Reject(p) ==
    /\ prog[p].pc \in {"integrity", "checked"}
    /\ Fails(p)
    /\ UNCHANGED <<starts, done, sent>>

\* The process is killed.  A backup under way leaves a new destination
\* unfinished, and a database there as it was.
Kill(p) ==
    /\ prog[p].pc # "idle" /\ Stops(p)
    /\ IF prog[p].pc = "copying" /\ file[Source[p]] = Absent
       THEN \E rest \in Unfinished(prog[p].path) : file' = [file EXCEPT ![Source[p]] = rest]
       ELSE UNCHANGED file
    /\ UNCHANGED <<starts, done, sent>>

----------------------------------------------------------------------------
Init ==
    /\ file = [path \in AllPaths |-> Absent]
    /\ prog = [p \in Programs |-> Idle]
    /\ starts = [p \in Programs |-> 0]
    /\ done = {} /\ sent = <<>>

Next == \E p \in Programs :
    \/ Start(p) \/ EnsureTable(p) \/ ReadHistory(p) \/ Migrate(p)
    \/ Verify(p) \/ VerifyIntegrity(p) \/ Backup(p) \/ BackupCopy(p) \/ BackupFails(p)
    \/ Copy(p) \/ CheckSource(p) \/ Replace(p) \/ Reject(p) \/ Kill(p)
    \/ \E k \in Keys : Serve(p, k)

Spec == Init /\ [][Next]_vars

----------------------------------------------------------------------------
\* Whoever races to open a file, of whatever version, and is killed at
\* whatever point: the history of every file is an ordered prefix and its
\* schema is what that history says (apply_migrations).
SchemaMatchesHistory ==
    \A path \in AllPaths : Usable(path) =>
        /\ IsPrefix(file[path].applied, Versions(Len(file[path].applied)))
        /\ file[path].schema = 1..Len(file[path].applied)

\* A program that has opened its storage finds every migration its code
\* relies on (Storage.open).
OpenedIsMigrated ==
    \A p \in Programs :
        prog[p].pc \in {"serving", "verify", "checked", "backup", "copying", "integrity"} =>
            /\ Usable(prog[p].path)
            /\ CodeVersion[p] <= Len(file[prog[p].path].applied)

\* A write is repeated only on a database that was copied before it, or that
\* it never went through: a restored file remembers every key its snapshot's
\* database had sent until the backup, whatever was killed on the way, and a
\* file left by a killed backup is never accepted (Storage.backup,
\* Storage.restore).
SnapshotRemembers ==
    \A i, j \in DOMAIN sent :
        (i < j /\ sent[i].key = sent[j].key) =>
            /\ sent[i].path # sent[j].path
            /\ i \notin file[sent[j].path].past

\* "Restore always targets a new path": what a database remembers is never
\* taken from it (Storage.restore).
NothingTaken ==
    \A path \in Paths : Usable(path) => Usable(path)' /\ file[path].keys \subseteq file'[path].keys
----------------------------------------------------------------------------
\* Of the backups to one destination one at most succeeds, for none overwrites
\* an existing file (docs/operations.md: "without overwriting an existing
\* file"; Storage.backup).
OneBackupThere ==
    \A b, c \in done : Role[b] = "backup" /\ Role[c] = "backup" /\ Source[b] = Source[c] => b = c

----------------------------------------------------------------------------
\* What the operator sees to: nothing opens the destination of a restore
\* before the restore has reported success, nothing opens the destination of a
\* backup where it lies (docs/operations.md), and no two backups have one
\* destination.
RestoresAwaited ==
    \A r, p \in Programs :
        Role[r] = "restore" /\ p # r /\ PathOf[p] = PathOf[r] => r \in Waits[p]

SnapshotsUnopened ==
    \A b, p \in Programs : Role[b] = "backup" => PathOf[p] # Source[b]

SnapshotsOwn ==
    \A b, c \in Programs :
        Role[b] = "backup" /\ Role[c] = "backup" /\ Source[b] = Source[c] => b = c

----------------------------------------------------------------------------
\* Why they hold.

Database ==
    [kind : {"database"}, table : BOOLEAN, applied : Seq(Nat), schema : SUBSET Nat,
     keys : SUBSET Keys, past : SUBSET Nat]

OpenSteps == {"open", "history", "migrate"}
OpenedSteps == {"serving", "verify", "checked", "backup", "copying", "integrity"}
\* What a file is opened for.
TaskSteps == {"serving", "verify", "checked", "integrity"}

TypeOK ==
    /\ file \in [AllPaths -> Database \cup {Absent, Damaged}]
    /\ prog \in [Programs -> [pc : {"idle", "copy", "check"} \cup OpenSteps \cup OpenedSteps,
                              path : AllPaths, applied : Seq(Nat),
                              then : {"idle"} \cup TaskSteps]]
    /\ starts \in [Programs -> Nat] /\ done \subseteq Programs
    /\ sent \in Seq([key : Keys, path : AllPaths])

\* What a program does now, or once it has opened the file it is opening.
Task(p) == IF prog[p].pc \in OpenSteps THEN prog[p].then ELSE prog[p].pc

Tasks(role) ==
    {"idle"} \cup CASE role = "serve" -> {"serving"}
                    [] role = "verify" -> {"verify", "checked"}
                    [] role = "backup" -> {"verify", "checked", "backup", "copying"}
                    [] role = "restore" -> {"copy", "check", "integrity", "verify", "checked"}

\* A program works on its file, after it has seen those done it waits for; a
\* restore first works on its temporary one.
PlaceInv(p) ==
    /\ Task(p) \in Tasks(Role[p])
    /\ prog[p].pc # "idle" => Waits[p] \subseteq done
    /\ prog[p].pc \in OpenSteps => prog[p].then # "idle"
    /\ prog[p].pc \in OpenSteps \cup OpenedSteps =>
          prog[p].path = IF Task(p) = "integrity" THEN p ELSE PathOf[p]

\* From its first look on, the file it opens stays usable and its history only
\* grows, so what the program found of it is still there.
OpenInv(p) ==
    /\ prog[p].pc \in {"history", "migrate"} \cup OpenedSteps => Usable(prog[p].path)
    /\ prog[p].pc = "migrate" =>
          /\ prog[p].applied = Versions(Len(prog[p].applied))
          /\ Len(prog[p].applied) <= Len(file[prog[p].path].applied)
    /\ prog[p].pc \in OpenedSteps => CodeVersion[p] <= Len(file[prog[p].path].applied)

\* A restore that has succeeded is over: its destination is taken.
DoneInv(p) ==
    p \in done /\ Role[p] = "restore" => prog[p].pc = "idle" /\ Usable(PathOf[p])

StorageInv ==
    /\ TypeOK /\ SchemaMatchesHistory
    /\ \A p \in Programs : PlaceInv(p) /\ OpenInv(p) /\ DoneInv(p)

\* A restore that has not moved its file yet moves it to where none is, and
\* has a database to move that was accepted.
RestoreInv(p) ==
    /\ Task(p) \in {"copy", "check", "integrity"} => file[PathOf[p]] = Absent
    /\ Task(p) = "integrity" => Usable(p) /\ file[p].table

\* A destination that was found free stays free until the copy.
BackupInv(p) == prog[p].pc = "copying" => file[Source[p]] = Absent

\* Only a killed backup leaves a database without its table of migrations,
\* beside the copies of it that no restore accepts.
TableInv(path) ==
    Usable(path) /\ ~file[path].table =>
        path \in Programs \cup {Source[b] : b \in {q \in Programs : Role[q] = "backup"}}

\* A database with that table remembers what was sent through it and through
\* those it was copied from.
KeysInv(path) ==
    Usable(path) =>
        /\ file[path].past \subseteq DOMAIN sent
        /\ file[path].table => \A i \in Past(path) : sent[i].key \in file[path].keys

SentInv ==
    \A i \in DOMAIN sent :
        Usable(sent[i].path) /\ \E p \in Programs : sent[i].path = PathOf[p]

MemoryInv ==
    /\ \A p \in Programs : RestoreInv(p)
    /\ \A path \in AllPaths : TableInv(path) /\ KeysInv(path)
    /\ SentInv /\ SnapshotRemembers
=============================================================================
