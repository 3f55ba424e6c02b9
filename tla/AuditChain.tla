----------------------------- MODULE AuditChain -----------------------------
(***************************************************************************)
(* The journals of the storage layer: AuditRepository (storage/audit.py),  *)
(* ReportJournal (storage/reporting.py), ProposalJournal and               *)
(* ProposalRepository (storage/proposals.py, storage/repositories.py), each *)
(* operation one transaction of storage/database.py.                       *)
(*                                                                         *)
(* A statement is a step.  SQLite opens a writing transaction with BEGIN   *)
(* IMMEDIATE, so one is open at a time and lock() does nothing.            *)
(* PostgreSQL runs them side by side at READ COMMITTED; lock() is a        *)
(* transaction-level advisory lock, and an UPDATE waits for the row and    *)
(* evaluates its WHERE clause again.  A transaction may be rolled back at  *)
(* every step: an exception, a lost connection or the death of the         *)
(* process.  Hashes are taken to be injective: the hash of an entry is the *)
(* previous hash with the event behind it.                                 *)
(***************************************************************************)
EXTENDS Naturals, Sequences, FiniteSetsExt

CONSTANTS
    Txns,            \* transactions; a transaction stands for its event
    Operation,       \* what each of them does
    TenantOf,        \* whose rows it touches
    Dialect          \* "sqlite" or "postgresql"

Operations == {"append", "report", "proposal", "execute", "expire", "settle"}

AuditChainAssumption ==
    /\ Operation \in [Txns -> Operations]
    /\ Dialect \in {"sqlite", "postgresql"}

VARIABLES
    audit,       \* committed audit_log rows
    artifacts,   \* events with a committed artifact
    proposals,   \* status of the proposal each creating transaction made
    sequence,    \* the highest audit_log id handed out
    txn          \* the state of each transaction

vars == <<audit, artifacts, proposals, sequence, txn>>

Tenants == {TenantOf[t] : t \in Txns}
GENESIS_HASH == <<>>
NoProposal == "none"
ProposalStates == {NoProposal, "proposed", "executing", "expired",
                   "executed", "failed", "unknown"}

\* previous_hash is bound into the payload the entry hash is computed over.
HashPayload(event, previous) == Append(previous, event)

\* Running transactions hold their locks and their rows until they end.
Open(t) == txn[t].pc \notin {"idle", "committed", "aborted"}

NewTxn == [pc |-> "idle", locked |-> FALSE, previous |-> GENESIS_HASH,
           row |-> {}, artifact |-> FALSE, proposal |-> FALSE,
           target |-> NoProposal, moves |-> {}]

----------------------------------------------------------------------------
\* Statements.

\* BEGIN IMMEDIATE waits for the writer before it; PostgreSQL just begins.
Begin(t) ==
    /\ txn[t].pc = "idle"
    /\ Dialect = "sqlite" => \A u \in Txns : ~Open(u)
    /\ txn' = [txn EXCEPT ![t].pc =
                 IF Operation[t] = "append" THEN "append" ELSE "write"]
    /\ UNCHANGED <<audit, artifacts, proposals, sequence>>

\* Defect: lock() forgotten, as SQLite's no-op would be on PostgreSQL.
LockForgotten(t) ==
    /\ txn[t].pc = "append"
    /\ txn' = [txn EXCEPT ![t].pc = "read", ![t].locked = TRUE]
    /\ UNCHANGED <<audit, artifacts, proposals, sequence>>

\* Defect: a lock that is given to nobody while any transaction of the tenant is open.
LockStarved(t) ==
    /\ txn[t].pc = "append"
    /\ \A u \in Txns \ {t} : TenantOf[u] = TenantOf[t] => ~Open(u)
    /\ txn' = [txn EXCEPT ![t].pc = "read", ![t].locked = TRUE]
    /\ UNCHANGED <<audit, artifacts, proposals, sequence>>

\* database.lock(connection, f"audit:{tenant_id}")
Lock(t) ==
    /\ txn[t].pc = "append"
    /\ Dialect = "postgresql" =>
         \A u \in Txns \ {t} : TenantOf[u] = TenantOf[t] => ~(Open(u) /\ txn[u].locked)
    /\ txn' = [txn EXCEPT ![t].pc = "read", ![t].locked = TRUE]
    /\ UNCHANGED <<audit, artifacts, proposals, sequence>>

RowsOf(tenant) == {r \in audit : r.tenant = tenant}

\* Defect: ORDER BY id LIMIT 1 without DESC.
FirstHash(tenant) ==
    IF RowsOf(tenant) = {} THEN GENESIS_HASH
    ELSE (CHOOSE r \in RowsOf(tenant) : \A s \in RowsOf(tenant) : r.id <= s.id).hash

\* The entry of a set of rows that comes last in ORDER BY id.
HashOfLast(records) ==
    IF records = {} THEN GENESIS_HASH
    ELSE (CHOOSE r \in records : \A s \in records : s.id <= r.id).hash

\* SELECT entry_hash ... ORDER BY id DESC LIMIT 1: committed rows only.
LastHash(tenant) == HashOfLast(RowsOf(tenant))

ReadLast(t) ==
    /\ txn[t].pc = "read"
    /\ txn' = [txn EXCEPT ![t].pc = "insert", ![t].previous = LastHash(TenantOf[t])]
    /\ UNCHANGED <<audit, artifacts, proposals, sequence>>

\* The id is taken from the sequence here; the row is visible after the commit.
InsertAudit(t) ==
    /\ txn[t].pc = "insert"
    /\ sequence' = sequence + 1
    /\ txn' = [txn EXCEPT ![t].pc = "commit",
                 ![t].row = {[id |-> sequence + 1, tenant |-> TenantOf[t], event |-> t,
                              previous |-> txn[t].previous,
                              hash |-> HashPayload(t, txn[t].previous)]}]
    /\ UNCHANGED <<audit, artifacts, proposals>>

\* ReportJournal.record_success: the artifact first, then the audit row.
RecordReport(t) ==
    /\ txn[t].pc = "write" /\ Operation[t] = "report"
    /\ txn' = [txn EXCEPT ![t].pc = "append", ![t].artifact = TRUE]
    /\ UNCHANGED <<audit, artifacts, proposals, sequence>>

\* ProposalJournal.record: the proposal and its Markdown artifact.
RecordProposal(t) ==
    /\ txn[t].pc = "write" /\ Operation[t] = "proposal"
    /\ txn' = [txn EXCEPT ![t].pc = "commit", ![t].proposal = TRUE, ![t].artifact = TRUE]
    /\ UNCHANGED <<audit, artifacts, proposals, sequence>>

Expected(t) == IF Operation[t] = "settle" THEN "executing" ELSE "proposed"
Targets(t) == CASE Operation[t] = "execute" -> {"executing"}
                [] Operation[t] = "expire"  -> {"expired"}
                [] Operation[t] = "settle"  -> {"executed", "failed", "unknown"}
                [] OTHER -> {}

\* Defect: the UPDATE without its status in the WHERE clause.
AnyProposal(t, p) ==
    {q \in {p} : TenantOf[q] = TenantOf[t] /\ proposals[q] # NoProposal}

\* UPDATE proposals ... WHERE tenant_id = ? AND id = ? AND status = ?
MatchingProposals(t, p) ==
    {q \in {p} : TenantOf[q] = TenantOf[t] /\ proposals[q] = Expected(t)}

UpdateProposal(t) ==
    \E p \in Txns, target \in Targets(t) :
      /\ txn[t].pc = "write" /\ Operation[p] = "proposal"
      /\ \A u \in Txns : Open(u) => p \notin txn[u].moves
      /\ txn' = [txn EXCEPT ![t].pc = IF MatchingProposals(t, p) = {} THEN "aborted" ELSE "commit",
                   ![t].moves = MatchingProposals(t, p), ![t].target = target]
      /\ UNCHANGED <<audit, artifacts, proposals, sequence>>

Commit(t) ==
    /\ txn[t].pc = "commit"
    /\ audit' = audit \cup txn[t].row
    /\ artifacts' = IF txn[t].artifact THEN artifacts \cup {t} ELSE artifacts
    /\ proposals' = [p \in Txns |-> IF p = t /\ txn[t].proposal THEN "proposed"
                                    ELSE IF p \in txn[t].moves THEN txn[t].target
                                    ELSE proposals[p]]
    /\ txn' = [txn EXCEPT ![t].pc = "committed"]
    /\ UNCHANGED sequence

\* SQLite takes the id back with the row; a PostgreSQL sequence does not.  A
\* transaction that has not begun gives up at the busy timeout or the pool's.
Rollback(t) ==
    /\ Open(t) \/ txn[t].pc = "idle"
    /\ txn' = [txn EXCEPT ![t].pc = "aborted"]
    /\ sequence' = IF Dialect = "sqlite" /\ Open(t)
                   THEN Max({r.id : r \in audit} \cup {0})
                   ELSE sequence
    /\ UNCHANGED <<audit, artifacts, proposals>>

----------------------------------------------------------------------------
Init ==
    /\ audit = {} /\ artifacts = {} /\ sequence = 0
    /\ proposals = [p \in Txns |-> NoProposal]
    /\ txn = [t \in Txns |-> NewTxn]

Step(t) == \/ Begin(t) \/ Lock(t) \/ ReadLast(t) \/ InsertAudit(t)
           \/ RecordReport(t) \/ RecordProposal(t) \/ UpdateProposal(t) \/ Commit(t)

Finished == (\A t \in Txns : txn[t].pc \in {"committed", "aborted"}) /\ UNCHANGED vars

Next == (\E t \in Txns : Step(t) \/ Rollback(t)) \/ Finished

Spec == Init /\ [][Next]_vars

\* A backend ends what it began; a rollback is never owed.
FairSpec == Spec /\ \A t \in Txns : WF_vars(Step(t))

----------------------------------------------------------------------------
\* list_for_tenant: what a reader meets before an entry, by id.
ListedBefore(r) == {s \in RowsOf(r.tenant) : s.id < r.id}

\* verify_chain: expected_previous is the hash of the entry met last.
VerifyChain(tenant) ==
    \A r \in RowsOf(tenant) :
        /\ r.previous = HashOfLast(ListedBefore(r))
        /\ r.hash = HashPayload(r.event, r.previous)

\* The rows, proposals and transactions keep their types; ids come from the
\* sequence (audit_log, proposals).
AuditRow == [id : Nat, tenant : Tenants, event : Txns,
             previous : Seq(Txns), hash : Seq(Txns)]
Txn == [pc : {"idle", "append", "read", "insert", "write", "commit", "committed", "aborted"},
        locked : BOOLEAN, previous : Seq(Txns), row : SUBSET AuditRow, artifact : BOOLEAN,
        proposal : BOOLEAN, target : ProposalStates, moves : SUBSET Txns]

TypeOK ==
    /\ audit \in SUBSET AuditRow
    /\ \A r \in audit : r.id \in 1..sequence
    /\ artifacts \subseteq Txns
    /\ proposals \in [Txns -> ProposalStates]
    /\ sequence \in Nat
    /\ txn \in [Txns -> Txn]

\* Whatever order the transactions of a tenant run and fail in, the ids of its
\* entries order them and verify_chain succeeds at every moment: two appends
\* never hang on the same predecessor (AuditRepository.append_in_transaction).
OneChain ==
    \A tenant \in Tenants :
        /\ \A r, s \in RowsOf(tenant) : r.id = s.id => r = s
        /\ VerifyChain(tenant)

\* An entry once read stays where it was read: a commit only adds entries
\* behind those a reader may have seen, so an exported last_hash stays a
\* prefix of the chain (AuditRepository.verify_chain).
ChainGrows ==
    \A tenant \in Tenants :
        /\ RowsOf(tenant) \subseteq RowsOf(tenant)'
        /\ \A r \in RowsOf(tenant)' \ RowsOf(tenant), s \in RowsOf(tenant) : s.id < r.id

\* Of the callers racing to move a proposal out of one state, one is told it
\* did (ProposalRepository.transition); a proposal once expired is never executed.
OneTransition ==
    \A t, u \in Txns :
      /\ txn[t].pc = "committed" /\ txn[u].pc = "committed"
      /\ txn[t].moves \cap txn[u].moves # {}
      => \/ t = u
         \/ Expected(t) # Expected(u) /\ "expire" \notin {Operation[t], Operation[u]}

----------------------------------------------------------------------------
\* What makes OneChain and ChainGrows inductive.

\* SQLite has one writer at a time; the lock of PostgreSQL is held by one
\* transaction of a tenant, and only a holder reads the chain and adds to it.
LockInv ==
    /\ Dialect = "sqlite" => \A t, u \in Txns : Open(t) /\ Open(u) => t = u
    /\ \A t, u \in Txns :
         /\ Open(t) /\ txn[t].locked /\ Open(u) /\ txn[u].locked
         /\ TenantOf[t] = TenantOf[u]
         => t = u
    /\ \A t \in Txns : /\ txn[t].pc \in {"read", "insert"} => txn[t].locked
                       /\ txn[t].pc = "idle" => ~txn[t].locked

\* Between the SELECT and the commit, nothing is added to the chain of the
\* tenant: the hash read is that of its last entry, and the id is behind all.
TailOK(t, x, top) ==
    /\ x.pc = "insert" => x.previous = LastHash(TenantOf[t])
    /\ x.pc \in {"idle", "append", "read", "insert", "write"} => x.row = {}
    /\ x.pc = "commit" => \A r \in x.row :
         /\ x.locked /\ x.row = {r}
         /\ r.id \in 1..top /\ r.tenant = TenantOf[t] /\ r.event = t
         /\ r.previous = LastHash(TenantOf[t]) /\ r.hash = HashPayload(t, r.previous)
         /\ \A s \in RowsOf(TenantOf[t]) : s.id < r.id

TailInv == \A t \in Txns : TailOK(t, txn[t], sequence)

ChainInv == TypeOK /\ OneChain /\ LockInv /\ TailInv

\* What makes OneTransition inductive.

\* A proposal exists once its transaction has committed, and only that one
\* creates it.
CreatedInv ==
    \A t \in Txns :
        /\ txn[t].pc # "committed" => proposals[t] = NoProposal
        /\ txn[t].moves # {} => Operation[t] \in {"execute", "expire", "settle"}
        /\ txn[t].proposal => Operation[t] = "proposal"

\* An open transaction that has updated a proposal holds its row: it is alone,
\* and the status is still the one its WHERE clause asked for.
HeldInv ==
    \A t \in Txns :
        /\ txn[t].pc \in {"idle", "append", "read", "insert", "write"} => txn[t].moves = {}
        /\ Open(t) => \A p \in txn[t].moves :
             /\ proposals[p] = Expected(t) /\ txn[t].target \in Targets(t)
             /\ \A u \in Txns : Open(u) /\ p \in txn[u].moves => u = t

\* Where a proposal can be after a transition that was committed.
AfterMove(t) == CASE Operation[t] = "execute" -> {"executing", "executed", "failed", "unknown"}
                  [] Operation[t] = "expire"  -> {"expired"}
                  [] Operation[t] = "settle"  -> {"executed", "failed", "unknown"}
                  [] OTHER -> {}

MovedInv == \A t \in Txns : txn[t].pc = "committed" =>
                \A p \in txn[t].moves : proposals[p] \in AfterMove(t)

ProposalInv == CreatedInv /\ HeldInv /\ MovedInv /\ OneTransition
=============================================================================
