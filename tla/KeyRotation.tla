---------------------------- MODULE KeyRotation ----------------------------
(***************************************************************************)
(* The encrypted connections (storage/connections.py) while an operator    *)
(* replaces the encryption key as docs/operations.md describes: every      *)
(* process gets a keyring with the new version active, rotate_tenant runs, *)
(* possibly several times and in several processes, verify succeeds, the   *)
(* old version is retired.  Enrollments keep adding and discarding         *)
(* connectors (app/shared_lifecycle.py).                                   *)
(*                                                                         *)
(* rotate reads the row and updates it in one transaction.  On PostgreSQL  *)
(* other transactions commit in between and the WHERE clause decides, which *)
(* the model allows; SQLite's BEGIN IMMEDIATE keeps the others out, so its  *)
(* behaviours are among these.  A ciphertext is the key version and the     *)
(* connector it was made for: decrypting needs that version and, through    *)
(* the associated data, that connector.                                     *)
(***************************************************************************)
EXTENDS Naturals

CONSTANTS
    Procs,           \* application and maintenance processes
    Connectors,      \* connector ids (a tenant has one or more)
    Versions,        \* key versions
    NoVersion,       \* the key_version of no row
    MaxRuns          \* how often rotate_tenant is started

\* There is a version to replace and a later one to replace it by.
KeyRotationAssumption ==
    /\ Versions \subseteq Nat \ {0} /\ NoVersion = 0
    /\ \E v, w \in Versions : v < w /\ \A x \in Versions : v <= x /\ x <= w
    /\ MaxRuns \in Nat

VARIABLES
    rows,        \* erp_connections: the ciphertext stored under each id
    ring,        \* the EncryptionKeyring of each process
    task,        \* the rotate_tenant each process runs
    runs,        \* how many were started
    audited,     \* rotations in the audit log, per connector
    operator     \* what the operator has reached

vars == <<rows, ring, task, runs, audited, operator>>

Old == CHOOSE v \in Versions : \A w \in Versions : v <= w
New == CHOOSE v \in Versions : \A w \in Versions : w <= v

Absent == [version |-> NoVersion, connector |-> "never"]
Deleted == [version |-> NoVersion, connector |-> "deleted"]
Cipher == [version : Versions, connector : Connectors]
Idle == [pc |-> "idle", list |-> {}, current |-> "none", read |-> Absent, late |-> FALSE]

Stored == {c \in Connectors : rows[c].version # NoVersion}

\* Defect: the associated data of another connector.
EncryptUnbound(p, c) == [version |-> ring[p].active, connector |-> "unbound"]

\* EncryptionKeyring.encrypt and decrypt.  The secret of connector c is c.
Encrypt(p, c) == [version |-> ring[p].active, connector |-> c]

CanDecrypt(p, c, cipher) == cipher.version \in ring[p].keys /\ cipher.connector = c

----------------------------------------------------------------------------
\* prepare_enrollment inserts a row under the active version of its process.
Enroll(p, c) ==
    /\ rows[c] = Absent        \* a new uuid
    /\ rows' = [rows EXCEPT ![c] = Encrypt(p, c)]
    /\ UNCHANGED <<ring, task, runs, audited, operator>>

\* discard_pending deletes a connector that was never authorized.
Discard(p, c) ==
    /\ c \in Stored
    /\ rows' = [rows EXCEPT ![c] = Deleted]
    /\ UNCHANGED <<ring, task, runs, audited, operator>>

\* Defect: the list of rotate_tenant is read with a limit.
ListLimited(p) ==
    /\ task[p].pc = "idle" /\ runs < MaxRuns
    /\ runs' = runs + 1
    /\ \E stale \in SUBSET {c \in Stored : rows[c].version # ring[p].active} :
         task' = [task EXCEPT ![p] = [Idle EXCEPT !.pc = "next", !.list = stale,
                                                  !.late = (operator = "rotating")]]
    /\ UNCHANGED <<rows, ring, audited, operator>>

\* rotate_tenant: SELECT id ... WHERE key_version != active ORDER BY id.
ListStale(p) ==
    /\ task[p].pc = "idle" /\ runs < MaxRuns
    /\ runs' = runs + 1
    /\ LET stale == {c \in Stored : rows[c].version # ring[p].active}
       IN task' = [task EXCEPT ![p] = [Idle EXCEPT !.pc = "next", !.list = stale,
                                                 !.late = (operator = "rotating")]]
    /\ UNCHANGED <<rows, ring, audited, operator>>

\* rotate, first half: an active version returns False, a row that can be
\* decrypted is kept for the UPDATE, and a missing row or a failing decryption
\* raises.
RotateRead(p) ==
    /\ task[p].pc = "next"
    /\ \E c \in task[p].list :
         LET done == c \in Stored /\ rows[c].version = ring[p].active
             keep == c \in Stored /\ ~done /\ CanDecrypt(p, c, rows[c])
         IN task' = [task EXCEPT ![p] =
              CASE done -> [task[p] EXCEPT !.list = task[p].list \ {c}]
                [] keep -> [task[p] EXCEPT !.pc = "update", !.current = c, !.read = rows[c]]
                [] OTHER -> Idle]
    /\ UNCHANGED <<rows, ring, runs, audited, operator>>

\* Defect: the UPDATE without AND key_version = old_version.
AnyVersion(p, c) == c \in Stored

\* UPDATE ... WHERE tenant_id = ? AND id = ? AND key_version = old_version
StillAt(p, c) == c \in Stored /\ rows[c].version = task[p].read.version

\* rotate, second half: the UPDATE and the audit entry, or the whole
\* transaction is rolled back and rotate_tenant ends with the exception.
RotateWrite(p) ==
    LET c == task[p].current IN
    /\ task[p].pc = "update"
    /\ IF StillAt(p, c)
       THEN /\ rows' = [rows EXCEPT ![c] = [version |-> ring[p].active,
                                            connector |-> task[p].read.connector]]
            /\ audited' = [audited EXCEPT ![c] = @ + 1]
            /\ task' = [task EXCEPT ![p] = [task[p] EXCEPT !.pc = "next",
                                                          !.list = task[p].list \ {c}]]
       ELSE task' = [task EXCEPT ![p] = Idle] /\ UNCHANGED <<rows, audited>>
    /\ UNCHANGED <<ring, runs, operator>>

\* rotate_tenant returns.  A run that began after every process had the new
\* keyring is what the operator waits for.
RotateDone(p) ==
    /\ task[p].pc = "next" /\ task[p].list = {}
    /\ task' = [task EXCEPT ![p] = Idle]
    /\ operator' = IF task[p].late /\ operator = "rotating" THEN "rotated" ELSE operator
    /\ UNCHANGED <<rows, ring, runs, audited>>

\* The process dies; what it committed stays and the rest is not done.
Crash(p) ==
    /\ task[p].pc # "idle"
    /\ task' = [task EXCEPT ![p] = Idle]
    /\ UNCHANGED <<rows, ring, runs, audited, operator>>

----------------------------------------------------------------------------
\* The operator: a restart gives a process the keyring with both versions and
\* the new one active; rotation is started after every process has it.
SelectNew(p) ==
    /\ operator = "selecting" /\ ring[p].active = Old
    /\ ring' = [ring EXCEPT ![p] = [active |-> New, keys |-> Versions]]
    /\ task' = [task EXCEPT ![p] = Idle]
    /\ UNCHANGED <<rows, runs, audited, operator>>

AllSelected ==
    /\ operator = "selecting" /\ \A p \in Procs : ring[p].active = New
    /\ operator' = "rotating"
    /\ UNCHANGED <<rows, ring, task, runs, audited>>

\* verify_all decrypts every row with the keyring of its process, which still
\* has the old version: it cannot tell whether that version is unused.
VerifyAll(p) == \A c \in Stored : CanDecrypt(p, c, rows[c])

Retire(p) ==
    /\ operator = "rotated" /\ VerifyAll(p)
    /\ ring' = [q \in Procs |-> [active |-> New, keys |-> {New}]]
    /\ task' = [q \in Procs |-> Idle]
    /\ operator' = "retired"
    /\ UNCHANGED <<rows, runs, audited>>

----------------------------------------------------------------------------
Init ==
    /\ \E old \in SUBSET Connectors :
         rows = [c \in Connectors |-> IF c \in old THEN [version |-> Old, connector |-> c]
                                      ELSE Absent]
    /\ ring = [p \in Procs |-> [active |-> Old, keys |-> {Old}]]
    /\ task = [p \in Procs |-> Idle]
    /\ runs = 0 /\ audited = [c \in Connectors |-> 0] /\ operator = "selecting"

Rotation(p) == ListStale(p) \/ RotateRead(p) \/ RotateWrite(p) \/ RotateDone(p)

Next ==
    \/ \E p \in Procs : \/ Rotation(p) \/ Crash(p) \/ SelectNew(p) \/ Retire(p)
                        \/ \E c \in Connectors : Enroll(p, c) \/ Discard(p, c)
    \/ AllSelected

Spec == Init /\ [][Next]_vars

----------------------------------------------------------------------------
\* A stored ciphertext is one of a connector under a key version
\* (erp_connections), and tasks and keyrings keep their types.
Row == Cipher \cup {Absent, Deleted}
Task == [pc : {"idle", "next", "update"}, list : SUBSET Connectors,
         current : Connectors \cup {"none"}, read : Row, late : BOOLEAN]

TypeOK ==
    /\ rows \in [Connectors -> Row]
    /\ ring \in [Procs -> [active : Versions, keys : SUBSET Versions]]
    /\ task \in [Procs -> Task]
    /\ runs \in 0..MaxRuns
    /\ audited \in [Connectors -> Nat]
    /\ operator \in {"selecting", "rotating", "rotated", "retired"}

\* "Keep old versions available until every connection has been rotated":
\* no process with its new keyring ever meets a connector it cannot decrypt,
\* however rotations overlap, stop half way and are run again, and connectors
\* come and go meanwhile (EncryptedConnectionRepository.verify_all).
AlwaysDecryptable ==
    \A p \in Procs, c \in Stored : ring[p].active = New => CanDecrypt(p, c, rows[c])

\* One run of rotate_tenant that returns leaves no row under the old version,
\* although it works from a list it read at its start: nothing adds such a row
\* once every process encrypts with the new one.
CleanRunLeavesNoOld ==
    operator \in {"rotated", "retired"} => \A c \in Stored : rows[c].version = New

\* Two rotations of one connector never both write it: the audit log has one
\* entry per change of key, "reruns skip completed records" (rotate, rotate_tenant).
RotatedOnce == \A c \in Connectors : audited[c] <= 1

\* What a key rotation promises (rotate_tenant, verify_all).
RotationSound == AlwaysDecryptable /\ CleanRunLeavesNoOld /\ RotatedOnce

----------------------------------------------------------------------------
\* What makes RotationSound inductive.

OldKeys == [active |-> Old, keys |-> {Old}]
BothKeys == [active |-> New, keys |-> Versions]
NewKeys == [active |-> New, keys |-> {New}]

\* How far the keyrings are is what the operator has reached.
RingInv ==
    \A p \in Procs :
        /\ operator = "selecting" => ring[p] \in {OldKeys, BothKeys}
        /\ operator \in {"rotating", "rotated"} => ring[p] = BothKeys
        /\ operator = "retired" => ring[p] = NewKeys

\* A row is bound to its connector, and was rotated only if it is no longer
\* under the old version.
RowInv ==
    \A c \in Connectors :
        /\ rows[c] \in {Absent, Deleted, [version |-> Old, connector |-> c],
                        [version |-> New, connector |-> c]}
        /\ audited[c] <= IF rows[c] = Absent \/ rows[c].version = Old THEN 0 ELSE 1

\* What rotate holds between its SELECT and its UPDATE: only a process with
\* both keys gets there, with a row under the old one.
UpdateInv ==
    \A p \in Procs : task[p].pc = "update" =>
        /\ task[p].current \in Connectors
        /\ task[p].read = [version |-> Old, connector |-> task[p].current]
        /\ ring[p].active = New

\* A run begun after the last restart still lists every row under the old
\* version.
LateInv ==
    \A p \in Procs : task[p].late =>
        /\ operator # "selecting"
        /\ \A c \in Connectors : rows[c].version = Old => c \in task[p].list

RotationInv == TypeOK /\ RingInv /\ RowInv /\ UpdateInv /\ LateInv /\ CleanRunLeavesNoOld
=============================================================================
