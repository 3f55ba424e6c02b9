------------------------- MODULE AuditChain_proofs --------------------------
(***************************************************************************)
(* OneChain, ChainGrows and OneTransition for every number of transactions *)
(* and tenants, whatever each transaction does, on both databases.         *)
(***************************************************************************)
EXTENDS AuditChain, WellFoundedInduction, TLAPS

\* The order of the ids is well founded.
LEMMA IdOrder ==
    \E R : IsWellFoundedOn(R, Nat) /\ \A x, y \in Nat : <<y, x>> \in R <=> y < x
  <1>1. IsWellFoundedOn(OpToRel(<, Nat), Nat)
    BY NatLessThanWellFounded
  <1>2. \A x, y \in Nat : <<y, x>> \in OpToRel(<, Nat) <=> y < x
    BY DEF OpToRel
  <1> QED
    BY <1>1, <1>2, Zenon

LEMMA LeastId ==
    ASSUME NEW T \in SUBSET Nat, T # {}
    PROVE  \E x \in T : \A y \in T : ~(y < x)
  <1>1. PICK R : IsWellFoundedOn(R, Nat) /\ \A x, y \in Nat : <<y, x>> \in R <=> y < x
    BY IdOrder
  <1>2. PICK x \in T : \A y \in T : ~ (<<y, x>> \in R)
    BY <1>1, WFMin
  <1>3. ASSUME NEW y \in T PROVE ~(y < x)
    <2>1. x \in Nat /\ y \in Nat
      OBVIOUS
    <2> QED
      BY <1>1, <1>2, <2>1, Zenon
  <1> QED
    BY <1>3

\* A set of numbers up to a bound has a largest one: what Max returns when a
\* rolled back insert gives its id back (SQLite's rowid).
LEMMA MaxBounds ==
    ASSUME NEW S, S \subseteq Nat, S # {}, NEW bound \in Nat, \A x \in S : x <= bound
    PROVE  Max(S) \in S /\ \A x \in S : x <= Max(S)
  <1> DEFINE above == {n \in Nat : \A x \in S : x <= n}
  <1>1. PICK n \in above : \A m \in above : ~(m < n)
    <2>1. bound \in above /\ above \in SUBSET Nat
      OBVIOUS
    <2> HIDE DEF above
    <2> QED
      BY <2>1, LeastId
  <1>2. n \in S
    <2> SUFFICES ASSUME n \notin S PROVE FALSE
      OBVIOUS
    <2>1. \A x \in S : x < n
      OBVIOUS
    <2>2. PICK x \in S : x < n
      BY <2>1
    <2>3. n - 1 \in above
      BY <2>1, <2>2
    <2> QED
      BY <1>1, <2>3
  <1>3. \A x \in S : n >= x
    OBVIOUS
  <1>4. \E m \in S : \A x \in S : m >= x
    BY <1>2, <1>3
  <1>5. Max(S) \in S /\ \A x \in S : Max(S) >= x
    BY <1>4 DEF Max
  <1> QED
    BY <1>5

----------------------------------------------------------------------------
\* A statement that commits nothing leaves every chain as it is.

Running(x) == x.pc \notin {"idle", "committed", "aborted"}

LEMMA SameRows ==
    ASSUME audit' = audit
    PROVE  /\ \A tenant : RowsOf(tenant)' = RowsOf(tenant)
           /\ \A tenant : LastHash(tenant)' = LastHash(tenant)
           /\ \A tenant : VerifyChain(tenant)' <=> VerifyChain(tenant)
  <1>1. \A tenant : RowsOf(tenant)' = RowsOf(tenant)
    BY DEF RowsOf
  <1>2. \A tenant : LastHash(tenant)' = LastHash(tenant)
    BY <1>1 DEF LastHash
  <1>3. \A tenant : VerifyChain(tenant)' <=> VerifyChain(tenant)
    BY <1>1 DEF VerifyChain, ListedBefore
  <1> QED
    BY <1>1, <1>2, <1>3

\* What a statement of t has to show of the transaction it leaves.
Follows(t, n, top) ==
    /\ n \in Txn
    /\ Running(n) => Open(t) \/ (Dialect = "sqlite" => \A u \in Txns : ~Open(u))
    /\ Running(n) /\ n.locked =>
         \/ Open(t) /\ txn[t].locked
         \/ \A u \in Txns \ {t} : TenantOf[u] = TenantOf[t] => ~(Open(u) /\ txn[u].locked)
    /\ n.pc \in {"read", "insert"} => n.locked
    /\ n.pc # "idle"
    /\ TailOK(t, n, top)
    /\ top \in Nat /\ sequence <= top

LEMMA Statement ==
    ASSUME ChainInv, NEW t \in Txns, NEW n, NEW top, Follows(t, n, top),
           txn' = [txn EXCEPT ![t] = n], sequence' = top,
           UNCHANGED <<audit, artifacts, proposals>>
    PROVE  ChainInv'
  <1> USE DEF ChainInv
  <1>1. ASSUME NEW u \in Txns PROVE txn'[u] = IF u = t THEN n ELSE txn[u]
    BY DEF TypeOK
  <1>2. TypeOK'
    BY DEF TypeOK, Follows
  <1>3. OneChain'
    BY SameRows DEF OneChain
  <1>4. LockInv'
    <2>1. \A u \in Txns : Open(u)' <=> IF u = t THEN Running(n) ELSE Open(u)
      BY <1>1 DEF Open, Running
    <2>2. ASSUME Dialect = "sqlite", NEW u \in Txns, NEW v \in Txns, Open(u)', Open(v)'
          PROVE  u = v
      BY <2>1, <2>2 DEF LockInv, Follows
    <2>3. ASSUME NEW u \in Txns, NEW v \in Txns, Open(u)', Open(v)',
                 txn'[u].locked, txn'[v].locked, TenantOf[u] = TenantOf[v]
          PROVE  u = v
      <3>1. CASE u # t /\ v # t
        BY <1>1, <2>1, <2>3, <3>1 DEF LockInv
      <3>2. CASE u = t /\ v # t
        BY <1>1, <2>1, <2>3, <3>2 DEF LockInv, Follows
      <3>3. CASE u # t /\ v = t
        BY <1>1, <2>1, <2>3, <3>3 DEF LockInv, Follows
      <3> QED
        BY <3>1, <3>2, <3>3
    <2>4. \A u \in Txns : /\ txn'[u].pc \in {"read", "insert"} => txn'[u].locked
                          /\ txn'[u].pc = "idle" => ~txn'[u].locked
      BY <1>1 DEF LockInv, Follows
    <2> QED
      BY <2>2, <2>3, <2>4 DEF LockInv
  <1>5. TailInv'
    <2> SUFFICES ASSUME NEW u \in Txns PROVE TailOK(u, txn[u], sequence)'
      BY DEF TailInv
    <2>1. \A x : TailOK(u, x, top)' <=> TailOK(u, x, top)
      BY SameRows DEF TailOK
    <2>2. TailOK(u, txn'[u], top)
      <3>1. CASE u = t
        BY <1>1, <3>1 DEF Follows
      <3>2. CASE u # t
        <4>1. TailOK(u, txn[u], sequence)
          BY DEF TailInv
        <4>2. sequence \in Nat
          BY DEF TypeOK
        <4>3. TailOK(u, txn[u], top)
          BY <4>1, <4>2 DEF TailOK, Follows
        <4> QED
          BY <1>1, <3>2, <4>3
      <3> QED
        BY <3>1, <3>2
    <2> QED
      BY <2>1, <2>2 DEF TailOK
  <1> QED
    BY <1>2, <1>3, <1>4, <1>5

\* The hash a reader finds is GENESIS_HASH or that of a row.
LEMMA LastHashType ==
    ASSUME TypeOK
    PROVE  \A tenant : LastHash(tenant) \in Seq(Txns)
  <1> SUFFICES ASSUME NEW tenant PROVE LastHash(tenant) \in Seq(Txns)
    OBVIOUS
  <1>1. CASE RowsOf(tenant) = {}
    BY <1>1 DEF LastHash, HashOfLast, GENESIS_HASH
  <1>2. CASE RowsOf(tenant) # {}
    <2> DEFINE ids == {r.id : r \in RowsOf(tenant)}
    <2>1. /\ RowsOf(tenant) \subseteq AuditRow /\ sequence \in Nat
          /\ \A r \in RowsOf(tenant) : r.id \in 1..sequence
      BY DEF TypeOK, RowsOf
    <2>2. ids \subseteq Nat /\ ids # {} /\ \A x \in ids : x <= sequence
      BY <1>2, <2>1
    <2>3. Max(ids) \in ids /\ \A x \in ids : x <= Max(ids)
      BY <2>1, <2>2, MaxBounds
    <2>4. \E r \in RowsOf(tenant) : \A s \in RowsOf(tenant) : s.id <= r.id
      BY <2>3
    <2>5. HashOfLast(RowsOf(tenant)) \in {r.hash : r \in RowsOf(tenant)}
      BY <1>2, <2>4 DEF HashOfLast
    <2> QED
      BY <2>1, <2>5 DEF LastHash, AuditRow
  <1> QED
    BY <1>1, <1>2

----------------------------------------------------------------------------
\* The statements.  A transaction is a record of its own, so each one is read
\* off the record it leaves.

LEMMA BeginChain ==
    ASSUME ChainInv, NEW t \in Txns, Begin(t)
    PROVE  ChainInv'
  <1> DEFINE next == IF Operation[t] = "append" THEN "append" ELSE "write"
  <1>1. PICK n : n = [txn[t] EXCEPT !.pc = next]
    OBVIOUS
  <1>2. /\ txn' = [txn EXCEPT ![t] = n] /\ UNCHANGED <<audit, artifacts, proposals, sequence>>
        /\ txn[t].pc = "idle" /\ (Dialect = "sqlite" => \A u \in Txns : ~Open(u))
    BY <1>1 DEF Begin
  <1>3. txn[t] \in Txn /\ sequence \in Nat
    BY DEF ChainInv, TypeOK
  <1>4. /\ n \in Txn /\ n.pc = next /\ n.locked = txn[t].locked /\ n.row = txn[t].row
    BY <1>1, <1>3 DEF Txn
  <1>5. txn[t].row = {} /\ next \in {"append", "write"} /\ ~txn[t].locked
    BY <1>2 DEF ChainInv, TailInv, TailOK, LockInv
  <1> HIDE DEF next
  <1>6. Follows(t, n, sequence)
    BY <1>2, <1>3, <1>4, <1>5 DEF Follows, Running, TailOK
  <1> QED
    BY <1>2, <1>3, <1>6, Statement

LEMMA LockChain ==
    ASSUME AuditChainAssumption, ChainInv, NEW t \in Txns, Lock(t)
    PROVE  ChainInv'
  <1>1. PICK n : n = [txn[t] EXCEPT !.pc = "read", !.locked = TRUE]
    OBVIOUS
  <1>2. /\ txn' = [txn EXCEPT ![t] = n] /\ UNCHANGED <<audit, artifacts, proposals, sequence>>
        /\ txn[t].pc = "append"
        /\ Dialect = "postgresql" =>
             \A u \in Txns \ {t} : TenantOf[u] = TenantOf[t] => ~(Open(u) /\ txn[u].locked)
    BY <1>1 DEF Lock
  <1>3. txn[t] \in Txn /\ sequence \in Nat
    BY DEF ChainInv, TypeOK
  <1>4. n \in Txn /\ n.pc = "read" /\ n.locked /\ n.row = txn[t].row
    BY <1>1, <1>3 DEF Txn
  <1>5. txn[t].row = {} /\ Open(t)
    BY <1>2 DEF ChainInv, TailInv, TailOK, Open
  <1>6. Dialect = "sqlite" => \A u \in Txns \ {t} : ~Open(u)
    BY <1>5 DEF ChainInv, LockInv
  <1>7. Dialect \in {"sqlite", "postgresql"}
    BY DEF AuditChainAssumption
  <1>8. Follows(t, n, sequence)
    BY <1>2, <1>3, <1>4, <1>5, <1>6, <1>7 DEF Follows, TailOK
  <1> QED
    BY <1>2, <1>3, <1>8, Statement

\* The hash read is that of the last committed entry.
LEMMA ReadLastChain ==
    ASSUME ChainInv, NEW t \in Txns, ReadLast(t)
    PROVE  ChainInv'
  <1>1. PICK n : n = [txn[t] EXCEPT !.pc = "insert", !.previous = LastHash(TenantOf[t])]
    OBVIOUS
  <1>2. /\ txn' = [txn EXCEPT ![t] = n] /\ UNCHANGED <<audit, artifacts, proposals, sequence>>
        /\ txn[t].pc = "read"
    BY <1>1 DEF ReadLast
  <1>3. txn[t] \in Txn /\ sequence \in Nat
    BY DEF ChainInv, TypeOK
  <1>4. LastHash(TenantOf[t]) \in Seq(Txns)
    BY LastHashType DEF ChainInv
  <1>5. /\ n \in Txn /\ n.pc = "insert" /\ n.locked = txn[t].locked /\ n.row = txn[t].row
        /\ n.previous = LastHash(TenantOf[t])
    BY <1>1, <1>3, <1>4 DEF Txn
  <1>6. txn[t].row = {} /\ Open(t) /\ txn[t].locked
    BY <1>2 DEF ChainInv, TailInv, TailOK, LockInv, Open
  <1>7. Follows(t, n, sequence)
    BY <1>2, <1>3, <1>5, <1>6 DEF Follows, TailOK
  <1> QED
    BY <1>2, <1>3, <1>7, Statement

\* The id is behind every id of the table, those of other tenants included.
LEMMA InsertAuditChain ==
    ASSUME ChainInv, NEW t \in Txns, InsertAudit(t)
    PROVE  ChainInv'
  <1>1. PICK r : r = [id |-> sequence + 1, tenant |-> TenantOf[t], event |-> t,
                      previous |-> txn[t].previous,
                      hash |-> HashPayload(t, txn[t].previous)]
    OBVIOUS
  <1>2. PICK n : n = [txn[t] EXCEPT !.pc = "commit", !.row = {r}]
    OBVIOUS
  <1>3. /\ txn' = [txn EXCEPT ![t] = n] /\ UNCHANGED <<audit, artifacts, proposals>>
        /\ txn[t].pc = "insert" /\ sequence' = sequence + 1
    BY <1>1, <1>2 DEF InsertAudit
  <1>4. txn[t] \in Txn /\ sequence \in Nat
    BY DEF ChainInv, TypeOK
  <1>5. txn[t].previous \in Seq(Txns) /\ HashPayload(t, txn[t].previous) \in Seq(Txns)
    BY <1>4 DEF Txn, HashPayload
  <1>6. /\ r \in AuditRow /\ r.id = sequence + 1 /\ r.tenant = TenantOf[t] /\ r.event = t
        /\ r.previous = txn[t].previous /\ r.hash = HashPayload(t, txn[t].previous)
    BY <1>1, <1>4, <1>5 DEF AuditRow, Tenants
  <1>7. n \in Txn /\ n.pc = "commit" /\ n.locked = txn[t].locked /\ n.row = {r}
    BY <1>2, <1>4, <1>6 DEF Txn
  <1>8. txn[t].locked /\ Open(t) /\ txn[t].previous = LastHash(TenantOf[t])
    BY <1>3 DEF ChainInv, TailInv, TailOK, LockInv, Open
  <1>9. \A s \in RowsOf(TenantOf[t]) : s.id < sequence + 1
    BY <1>4 DEF ChainInv, TypeOK, RowsOf
  <1>10. Follows(t, n, sequence + 1)
    BY <1>3, <1>4, <1>6, <1>7, <1>8, <1>9 DEF Follows, TailOK
  <1> QED
    BY <1>3, <1>4, <1>10, Statement

\* The writes of a report and of a proposal are seen by nobody before the commit.
LEMMA RecordChain ==
    ASSUME ChainInv, NEW t \in Txns, RecordReport(t) \/ RecordProposal(t)
    PROVE  ChainInv'
  <1>1. PICK n : n = IF Operation[t] = "report"
                     THEN [txn[t] EXCEPT !.pc = "append", !.artifact = TRUE]
                     ELSE [txn[t] EXCEPT !.pc = "commit", !.proposal = TRUE, !.artifact = TRUE]
    OBVIOUS
  <1>2. /\ txn' = [txn EXCEPT ![t] = n] /\ UNCHANGED <<audit, artifacts, proposals, sequence>>
        /\ txn[t].pc = "write"
    BY <1>1 DEF RecordReport, RecordProposal
  <1>3. txn[t] \in Txn /\ sequence \in Nat
    BY DEF ChainInv, TypeOK
  <1>4. /\ n \in Txn /\ n.pc \in {"append", "commit"} /\ n.locked = txn[t].locked
        /\ n.row = txn[t].row
    BY <1>1, <1>3 DEF Txn
  <1>5. txn[t].row = {} /\ Open(t)
    BY <1>2 DEF ChainInv, TailInv, TailOK, Open
  <1>6. Follows(t, n, sequence)
    BY <1>2, <1>3, <1>4, <1>5 DEF Follows, TailOK
  <1> QED
    BY <1>2, <1>3, <1>6, Statement

LEMMA UpdateProposalChain ==
    ASSUME ChainInv, NEW t \in Txns, UpdateProposal(t)
    PROVE  ChainInv'
  <1>1. PICK p \in Txns, target \in Targets(t) :
            /\ txn[t].pc = "write" /\ UNCHANGED <<audit, artifacts, proposals, sequence>>
            /\ txn' = [txn EXCEPT ![t].pc = IF MatchingProposals(t, p) = {} THEN "aborted"
                                            ELSE "commit",
                         ![t].moves = MatchingProposals(t, p), ![t].target = target]
    BY DEF UpdateProposal
  <1> DEFINE next == IF MatchingProposals(t, p) = {} THEN "aborted" ELSE "commit"
  <1>2. PICK n : n = [txn[t] EXCEPT !.pc = next, !.moves = MatchingProposals(t, p),
                                    !.target = target]
    OBVIOUS
  <1>3. txn' = [txn EXCEPT ![t] = n]
    BY <1>1, <1>2
  <1>4. txn[t] \in Txn /\ sequence \in Nat
    BY DEF ChainInv, TypeOK
  <1>5. MatchingProposals(t, p) \in SUBSET Txns /\ target \in ProposalStates
    BY DEF MatchingProposals, Targets, ProposalStates
  <1>6. next \in {"aborted", "commit"}
    OBVIOUS
  <1> HIDE DEF next
  <1>7. n \in Txn /\ n.pc = next /\ n.locked = txn[t].locked /\ n.row = txn[t].row
    BY <1>2, <1>4, <1>5, <1>6 DEF Txn
  <1>8. txn[t].row = {} /\ Open(t)
    BY <1>1 DEF ChainInv, TailInv, TailOK, Open
  <1>9. Follows(t, n, sequence)
    BY <1>4, <1>6, <1>7, <1>8 DEF Follows, TailOK
  <1> QED
    BY <1>1, <1>3, <1>4, <1>9, Statement

\* A rollback takes the row with it.  Where the id goes back too, nobody else
\* holds one (SQLite).
LEMMA RollbackChain ==
    ASSUME AuditChainAssumption, ChainInv, NEW t \in Txns, Rollback(t)
    PROVE  ChainInv'
  <1> USE DEF ChainInv
  <1>1. PICK n : n = [txn[t] EXCEPT !.pc = "aborted"]
    OBVIOUS
  <1>2. txn' = [txn EXCEPT ![t] = n] /\ UNCHANGED <<audit, artifacts, proposals>>
    BY <1>1 DEF Rollback
  <1>3. txn[t] \in Txn /\ sequence \in Nat
    BY DEF TypeOK
  <1>4. n \in Txn /\ n.pc = "aborted"
    BY <1>1, <1>3 DEF Txn
  <1>5. CASE ~(Dialect = "sqlite" /\ Open(t))
    <2>1. sequence' = sequence
      BY <1>5 DEF Rollback
    <2>2. Follows(t, n, sequence)
      BY <1>3, <1>4 DEF Follows, Running, TailOK
    <2> QED
      BY <1>2, <2>1, <2>2, Statement
  <1>6. CASE Dialect = "sqlite" /\ Open(t)
    <2> DEFINE ids == {r.id : r \in audit} \cup {0}
    <2>1. sequence' = Max(ids)
      BY <1>6 DEF Rollback
    <2>2. ids \subseteq Nat /\ ids # {} /\ \A x \in ids : x <= sequence
      BY <1>3 DEF TypeOK
    <2>3. Max(ids) \in ids /\ \A x \in ids : x <= Max(ids)
      BY <1>3, <2>2, MaxBounds
    <2>4. sequence' \in Nat /\ \A r \in audit : r.id \in 1..sequence'
      BY <2>1, <2>2, <2>3 DEF TypeOK
    <2>5. ASSUME NEW u \in Txns PROVE txn'[u] = IF u = t THEN n ELSE txn[u]
      BY <1>2 DEF TypeOK
    <2>6. TypeOK'
      BY <1>2, <1>4, <2>4 DEF TypeOK
    <2>7. OneChain'
      BY <1>2, SameRows DEF OneChain
    <2>8. \A u \in Txns : ~Open(u)'
      BY <1>4, <1>6, <2>5 DEF LockInv, Open
    <2>9. LockInv'
      BY <1>4, <2>5, <2>8 DEF LockInv
    <2>10. TailInv'
      <3> SUFFICES ASSUME NEW u \in Txns PROVE TailOK(u, txn[u], sequence)'
        BY DEF TailInv
      <3>1. txn'[u].pc \notin {"insert", "commit"}
        BY <2>8 DEF Open
      <3>2. txn'[u].pc \in {"idle", "append", "read", "insert", "write"} => txn'[u].row = {}
        BY <1>4, <2>5 DEF TailInv, TailOK
      <3> QED
        BY <3>1, <3>2 DEF TailOK
    <2> QED
      BY <2>6, <2>7, <2>9, <2>10
  <1> QED
    BY <1>5, <1>6

\* The commit of an entry: it is linked to the last one and has the highest id
\* of its tenant, and nobody else has read that chain since.
LEMMA CommitChain ==
    ASSUME ChainInv, NEW t \in Txns, Commit(t)
    PROVE  ChainInv' /\ ChainGrows
  <1> USE DEF ChainInv
  <1>1. PICK n : n = [txn[t] EXCEPT !.pc = "committed"]
    OBVIOUS
  <1>2. /\ txn' = [txn EXCEPT ![t] = n] /\ sequence' = sequence
        /\ audit' = audit \cup txn[t].row /\ txn[t].pc = "commit"
    BY <1>1 DEF Commit
  <1>3. /\ txn[t] \in Txn /\ sequence \in Nat
    BY DEF TypeOK
  <1>4. n \in Txn /\ n.pc = "committed"
    BY <1>1, <1>3 DEF Txn
  <1>5. ASSUME NEW u \in Txns PROVE txn'[u] = IF u = t THEN n ELSE txn[u]
    BY <1>2 DEF TypeOK
  <1>6. TailOK(t, txn[t], sequence) /\ Open(t)
    BY <1>2 DEF TailInv, Open
  <1>7. ASSUME NEW r \in txn[t].row
        PROVE  /\ r.id \in 1..sequence /\ r.tenant = TenantOf[t] /\ txn[t].row = {r}
               /\ r.previous = LastHash(TenantOf[t]) /\ r.hash = HashPayload(r.event, r.previous)
               /\ \A s \in RowsOf(TenantOf[t]) : s.id < r.id
               /\ txn[t].locked
    BY <1>2, <1>6 DEF TailOK
  <1>8. proposals' \in [Txns -> ProposalStates] /\ artifacts' \subseteq Txns
    <2>1. txn[t].target \in ProposalStates
      BY <1>3 DEF Txn
    <2> QED
      BY <2>1 DEF Commit, TypeOK, ProposalStates
  <1>9. TypeOK'
    BY <1>2, <1>3, <1>4, <1>7, <1>8 DEF TypeOK, Txn
  <1>10. ASSUME NEW tenant, tenant # TenantOf[t] \/ txn[t].row = {}
         PROVE  RowsOf(tenant)' = RowsOf(tenant)
    BY <1>2, <1>7, <1>10 DEF RowsOf
  <1>11. RowsOf(TenantOf[t])' = RowsOf(TenantOf[t]) \cup txn[t].row
    BY <1>2, <1>7 DEF RowsOf
  <1>12. OneChain'
    <2> SUFFICES ASSUME NEW tenant \in Tenants
                 PROVE  /\ \A r, s \in RowsOf(tenant)' : r.id = s.id => r = s
                        /\ VerifyChain(tenant)'
      BY DEF OneChain, Tenants
    <2>1. /\ \A r, s \in RowsOf(tenant) : r.id = s.id => r = s
          /\ VerifyChain(tenant)
          /\ \A r \in RowsOf(tenant) : r.id \in Nat /\ r.tenant = tenant
      BY DEF OneChain, RowsOf, TypeOK
    <2>2. \A r \in RowsOf(tenant)' : r.tenant = tenant
      BY DEF RowsOf
    <2>3. CASE tenant # TenantOf[t] \/ txn[t].row = {}
      <3>1. RowsOf(tenant)' = RowsOf(tenant)
        BY <1>10, <2>3
      <3>2. \A r \in RowsOf(tenant) : ListedBefore(r)' = ListedBefore(r)
        BY <2>1, <3>1 DEF ListedBefore
      <3> QED
        BY <2>1, <3>1, <3>2 DEF VerifyChain
    <2>4. CASE tenant = TenantOf[t] /\ txn[t].row # {}
      <3>1. PICK r : r \in txn[t].row
        BY <2>4
      <3>2. RowsOf(tenant)' = RowsOf(tenant) \cup {r}
        BY <1>7, <1>11, <2>4, <3>1
      <3>3. r.id \in Nat /\ \A s \in RowsOf(tenant) : s.id < r.id
        BY <1>3, <1>7, <2>4, <3>1
      <3>4. \A s \in RowsOf(tenant) : ListedBefore(s)' = ListedBefore(s)
        BY <2>1, <3>2, <3>3 DEF ListedBefore
      <3>5. ListedBefore(r)' = RowsOf(tenant)
        BY <1>7, <2>1, <2>4, <3>1, <3>2, <3>3 DEF ListedBefore
      <3>6. /\ r.previous = HashOfLast(RowsOf(tenant))
            /\ r.hash = HashPayload(r.event, r.previous)
        BY <1>7, <2>4, <3>1 DEF LastHash
      <3>7. VerifyChain(tenant)'
        BY <2>1, <3>2, <3>4, <3>5, <3>6 DEF VerifyChain
      <3> QED
        BY <2>1, <3>2, <3>3, <3>7
    <2> QED
      BY <2>3, <2>4
  <1>13. \A u \in Txns : Open(u)' <=> (u # t /\ Open(u))
    BY <1>4, <1>5 DEF Open
  <1>14. LockInv'
    BY <1>4, <1>5, <1>13 DEF LockInv
  <1>15. TailInv'
    <2> SUFFICES ASSUME NEW u \in Txns PROVE TailOK(u, txn[u], sequence)'
      BY DEF TailInv
    <2>1. CASE u = t
      BY <1>4, <1>5, <2>1 DEF TailOK
    <2>2. CASE u # t /\ (TenantOf[u] # TenantOf[t] \/ txn[t].row = {})
      <3>1. RowsOf(TenantOf[u])' = RowsOf(TenantOf[u])
        BY <1>10, <2>2
      <3>2. TailOK(u, txn[u], sequence)
        BY DEF TailInv
      <3> QED
        BY <1>2, <1>5, <2>2, <3>1, <3>2 DEF TailOK, LastHash
    <2>3. CASE u # t /\ TenantOf[u] = TenantOf[t] /\ txn[t].row # {}
      <3>1. ~(Open(u) /\ txn[u].locked)
        BY <1>6, <1>7, <2>3 DEF LockInv
      <3>2. txn[u].pc # "insert" /\ (txn[u].pc = "commit" => txn[u].row = {})
        BY <3>1 DEF LockInv, TailInv, TailOK, Open
      <3>3. TailOK(u, txn[u], sequence)
        BY DEF TailInv
      <3> QED
        BY <1>5, <2>3, <3>2, <3>3 DEF TailOK
    <2> QED
      BY <2>1, <2>2, <2>3
  <1>16. ChainGrows
    <2> SUFFICES ASSUME NEW tenant \in Tenants
                 PROVE  /\ RowsOf(tenant) \subseteq RowsOf(tenant)'
                        /\ \A r \in RowsOf(tenant)' \ RowsOf(tenant), s \in RowsOf(tenant) :
                              s.id < r.id
      BY DEF ChainGrows
    <2>1. CASE tenant # TenantOf[t]
      BY <1>10, <2>1
    <2>2. CASE tenant = TenantOf[t]
      BY <1>7, <1>11, <2>2
    <2> QED
      BY <2>1, <2>2
  <1> QED
    BY <1>9, <1>12, <1>14, <1>15, <1>16

----------------------------------------------------------------------------
LEMMA InitChain ==
    ASSUME Init
    PROVE  ChainInv
  <1>1. TypeOK
    <2>1. NewTxn \in Txn
      BY DEF NewTxn, Txn, GENESIS_HASH, ProposalStates, NoProposal
    <2> QED
      BY <2>1 DEF Init, TypeOK, ProposalStates, NoProposal
  <1>2. OneChain
    BY DEF Init, OneChain, RowsOf, VerifyChain
  <1>3. LockInv
    BY DEF Init, LockInv, NewTxn, Open
  <1>4. TailInv
    BY DEF Init, TailInv, TailOK, NewTxn
  <1> QED
    BY <1>1, <1>2, <1>3, <1>4 DEF ChainInv

LEMMA SameAudit ==
    ASSUME audit' = audit
    PROVE  ChainGrows
  BY SameRows DEF ChainGrows

LEMMA StepChain ==
    ASSUME AuditChainAssumption, ChainInv, [Next]_vars
    PROVE  ChainInv' /\ ChainGrows
  <1>1. CASE UNCHANGED vars
    <2>1. ChainGrows
      BY <1>1, SameAudit DEF vars
    <2>2. OneChain'
      BY <1>1, SameRows DEF vars, ChainInv, OneChain
    <2>3. TypeOK' /\ LockInv'
      BY <1>1 DEF vars, ChainInv, TypeOK, LockInv, Open
    <2>4. TailInv'
      BY <1>1, SameRows DEF vars, ChainInv, TailInv, TailOK
    <2> QED
      BY <2>1, <2>2, <2>3, <2>4 DEF ChainInv
  <1>2. CASE \E t \in Txns : Commit(t)
    BY <1>2, CommitChain
  <1>3. ASSUME NEW t \in Txns,
               \/ Begin(t) \/ Lock(t) \/ ReadLast(t) \/ InsertAudit(t) \/ RecordReport(t)
               \/ RecordProposal(t) \/ UpdateProposal(t) \/ Rollback(t)
        PROVE  ChainInv' /\ ChainGrows
    <2>1. audit' = audit
      BY <1>3 DEF Begin, Lock, ReadLast, InsertAudit, RecordReport, RecordProposal,
                  UpdateProposal, Rollback
    <2>2. ChainInv'
      BY <1>3, BeginChain, LockChain, ReadLastChain, InsertAuditChain, RecordChain,
         UpdateProposalChain, RollbackChain
    <2> QED
      BY <2>1, <2>2, SameAudit
  <1> QED
    BY <1>1, <1>2, <1>3 DEF Next, Step, Finished

\* However many transactions append to the chains of however many tenants, in
\* whatever order they run and fail, and on both databases: verify_chain
\* succeeds at every moment, and a commit only adds entries behind those a
\* reader may have seen (AuditRepository.append_in_transaction, verify_chain).
THEOREM ChainIsOne ==
    ASSUME AuditChainAssumption
    PROVE  Spec => []OneChain /\ [][ChainGrows]_vars
  <1>1. Init => ChainInv
    BY InitChain
  <1>2. ChainInv /\ [Next]_vars => ChainInv'
    BY StepChain
  <1>3. ChainInv /\ [Next]_vars => [ChainGrows]_vars
    BY StepChain
  <1>4. ChainInv => OneChain
    BY DEF ChainInv
  <1> QED
    BY <1>1, <1>2, <1>3, <1>4, PTL DEF Spec

----------------------------------------------------------------------------
\* Proposals.

\* A statement leaves the committed proposals as they are; what it has to show
\* is that a row it updated is held by nobody else and still has its status.
HoldsWell(t, n) ==
    /\ txn[t].pc # "committed" /\ n.pc # "committed"
    /\ n.moves # {} => Operation[t] \in {"execute", "expire", "settle"}
    /\ n.proposal => Operation[t] = "proposal"
    /\ n.pc \in {"idle", "append", "read", "insert", "write"} => n.moves = {}
    /\ Running(n) => \A p \in n.moves :
         /\ proposals[p] = Expected(t) /\ n.target \in Targets(t)
         /\ \A u \in Txns \ {t} : Open(u) => p \notin txn[u].moves

LEMMA ProposalStatement ==
    ASSUME TypeOK, ProposalInv, NEW t \in Txns, NEW n, HoldsWell(t, n),
           txn' = [txn EXCEPT ![t] = n], UNCHANGED proposals
    PROVE  ProposalInv'
  <1> USE DEF ProposalInv
  <1>1. ASSUME NEW u \in Txns PROVE txn'[u] = IF u = t THEN n ELSE txn[u]
    BY DEF TypeOK
  <1>2. \A u \in Txns : Open(u)' <=> IF u = t THEN Running(n) ELSE Open(u)
    BY <1>1 DEF Open, Running
  <1>3. CreatedInv'
    BY <1>1 DEF CreatedInv, HoldsWell
  <1>4. HeldInv'
    <2> SUFFICES ASSUME NEW u \in Txns
                 PROVE  /\ txn'[u].pc \in {"idle", "append", "read", "insert", "write"}
                              => txn'[u].moves = {}
                        /\ Open(u)' => \A p \in txn'[u].moves :
                             /\ proposals[p] = Expected(u) /\ txn'[u].target \in Targets(u)
                             /\ \A v \in Txns : Open(v)' /\ p \in txn'[v].moves => v = u
      BY DEF HeldInv, Expected, Targets
    <2>1. CASE u = t
      BY <1>1, <1>2, <2>1 DEF HoldsWell
    <2>2. CASE u # t
      BY <1>1, <1>2, <2>2 DEF HoldsWell, HeldInv
    <2> QED
      BY <2>1, <2>2
  <1>5. MovedInv'
    BY <1>1 DEF MovedInv, HoldsWell, AfterMove
  <1>6. OneTransition'
    BY <1>1 DEF OneTransition, HoldsWell, Expected
  <1> QED
    BY <1>3, <1>4, <1>5, <1>6

LEMMA PlainStatements ==
    ASSUME TypeOK, ProposalInv, NEW t \in Txns,
           \/ Begin(t) \/ Lock(t) \/ ReadLast(t) \/ InsertAudit(t) \/ RecordReport(t)
           \/ RecordProposal(t) \/ Rollback(t)
    PROVE  ProposalInv'
  <1> USE DEF ProposalInv
  <1>1. txn[t] \in Txn
    BY DEF TypeOK
  <1>2. PICK n : n = txn'[t]
    OBVIOUS
  <1>3. txn' = [txn EXCEPT ![t] = n] /\ UNCHANGED proposals
    BY <1>2 DEF TypeOK, Begin, Lock, ReadLast, InsertAudit, RecordReport, RecordProposal, Rollback
  <1>4. CASE Rollback(t)
    <2>1. n.pc = "aborted" /\ n.moves = txn[t].moves /\ n.proposal = txn[t].proposal
      BY <1>1, <1>2, <1>4 DEF Rollback, TypeOK, Txn
    <2>2. txn[t].pc # "committed"
      BY <1>4 DEF Rollback, Open
    <2>3. HoldsWell(t, n)
      BY <2>1, <2>2 DEF HoldsWell, CreatedInv, Running
    <2> QED
      BY <1>3, <2>3, ProposalStatement
  <1>5. CASE \/ Begin(t) \/ Lock(t) \/ ReadLast(t) \/ InsertAudit(t) \/ RecordReport(t)
             \/ RecordProposal(t)
    <2>1. txn[t].pc \in {"idle", "append", "read", "insert", "write"}
      BY <1>5 DEF Begin, Lock, ReadLast, InsertAudit, RecordReport, RecordProposal
    <2>2. n.pc # "committed" /\ n.moves = txn[t].moves
      BY <1>1, <1>2, <1>5 DEF Begin, Lock, ReadLast, InsertAudit, RecordReport, RecordProposal,
                              TypeOK, Txn
    <2>3. n.proposal = txn[t].proposal \/ Operation[t] = "proposal"
      BY <1>1, <1>2, <1>5 DEF Begin, Lock, ReadLast, InsertAudit, RecordReport, RecordProposal,
                              TypeOK, Txn
    <2>4. txn[t].moves = {}
      BY <2>1 DEF HeldInv
    <2>5. HoldsWell(t, n)
      BY <2>1, <2>2, <2>3, <2>4 DEF HoldsWell, CreatedInv
    <2> QED
      BY <1>3, <2>5, ProposalStatement
  <1> QED
    BY <1>4, <1>5

\* UPDATE ... WHERE status = ?: the row was free and had the status asked for.
LEMMA UpdateStatement ==
    ASSUME AuditChainAssumption, TypeOK, ProposalInv, NEW t \in Txns, UpdateProposal(t)
    PROVE  ProposalInv'
  <1> USE DEF ProposalInv
  <1>1. PICK p \in Txns, target \in Targets(t) :
            /\ txn[t].pc = "write" /\ UNCHANGED <<audit, artifacts, proposals, sequence>>
            /\ \A u \in Txns : Open(u) => p \notin txn[u].moves
            /\ txn' = [txn EXCEPT ![t].pc = IF MatchingProposals(t, p) = {} THEN "aborted"
                                            ELSE "commit",
                         ![t].moves = MatchingProposals(t, p), ![t].target = target]
    BY DEF UpdateProposal
  <1> DEFINE next == IF MatchingProposals(t, p) = {} THEN "aborted" ELSE "commit"
  <1>2. PICK n : n = [txn[t] EXCEPT !.pc = next, !.moves = MatchingProposals(t, p),
                                    !.target = target]
    OBVIOUS
  <1>3. txn' = [txn EXCEPT ![t] = n] /\ UNCHANGED proposals
    BY <1>1, <1>2
  <1>4. txn[t] \in Txn
    BY DEF TypeOK
  <1>5. next \in {"aborted", "commit"}
    OBVIOUS
  <1> HIDE DEF next
  <1>6. /\ n.pc = next /\ n.moves = MatchingProposals(t, p) /\ n.target = target
        /\ n.proposal = txn[t].proposal
    BY <1>2, <1>4 DEF Txn
  <1>7. \A q \in n.moves : q = p /\ proposals[q] = Expected(t)
    BY <1>6 DEF MatchingProposals
  <1>8. Operation[t] \in {"execute", "expire", "settle"}
    BY <1>1 DEF Targets, AuditChainAssumption, Operations
  <1>9. txn[t].pc # "committed" /\ \A u \in Txns : Open(u) => p \notin txn[u].moves
    BY <1>1
  <1>10. HoldsWell(t, n)
    BY <1>5, <1>6, <1>7, <1>8, <1>9 DEF HoldsWell, CreatedInv
  <1> QED
    BY <1>3, <1>10, ProposalStatement

\* The commit of a transition: the status it leaves is the one it asked for,
\* so the transition before it, if there was one, was an execution.
LEMMA CommitProposal ==
    ASSUME AuditChainAssumption, TypeOK, ProposalInv, NEW t \in Txns, Commit(t)
    PROVE  ProposalInv'
  <1> USE DEF ProposalInv
  <1>1. PICK n : n = [txn[t] EXCEPT !.pc = "committed"]
    OBVIOUS
  <1>2. txn' = [txn EXCEPT ![t] = n] /\ txn[t].pc = "commit"
    BY <1>1 DEF Commit
  <1>3. txn[t] \in Txn /\ Operation[t] \in Operations
    BY DEF TypeOK, AuditChainAssumption
  <1>4. /\ n.pc = "committed" /\ n.moves = txn[t].moves /\ n.proposal = txn[t].proposal
        /\ n.target = txn[t].target
    BY <1>1, <1>3 DEF Txn
  <1>5. ASSUME NEW u \in Txns PROVE txn'[u] = IF u = t THEN n ELSE txn[u]
    BY <1>2 DEF TypeOK
  <1>6. \A u \in Txns : Open(u)' <=> (u # t /\ Open(u))
    BY <1>4, <1>5 DEF Open
  <1>7. ASSUME NEW p \in Txns
        PROVE  proposals'[p] = IF p = t /\ txn[t].proposal THEN "proposed"
                               ELSE IF p \in txn[t].moves THEN txn[t].target ELSE proposals[p]
    BY DEF Commit
  <1>8. /\ txn[t].moves \subseteq Txns /\ \A u \in Txns : txn[u].moves \subseteq Txns
        /\ proposals[t] = NoProposal /\ Open(t)
    BY <1>2, <1>3 DEF TypeOK, Txn, CreatedInv, Open
  <1>9. ASSUME NEW p \in txn[t].moves
        PROVE  /\ proposals[p] = Expected(t) /\ txn[t].target \in Targets(t)
               /\ \A u \in Txns : Open(u) /\ p \in txn[u].moves => u = t
               /\ Operation[t] \in {"execute", "expire", "settle"}
               /\ p # t /\ ~txn[t].proposal /\ proposals'[p] = txn[t].target
    <2>1. /\ proposals[p] = Expected(t) /\ txn[t].target \in Targets(t)
          /\ \A u \in Txns : Open(u) /\ p \in txn[u].moves => u = t
          /\ Operation[t] \in {"execute", "expire", "settle"}
      BY <1>8 DEF HeldInv, CreatedInv
    <2>2. Expected(t) # NoProposal
      BY DEF Expected, NoProposal
    <2>3. p # t /\ ~txn[t].proposal
      BY <1>8, <2>1, <2>2 DEF CreatedInv
    <2> QED
      BY <1>7, <1>8, <2>1, <2>3
  \* Nobody has moved a proposal that does not exist.
  <1>10. ASSUME NEW u \in Txns, Open(u) \/ txn[u].pc = "committed" PROVE t \notin txn[u].moves
    <2>1. Expected(u) # NoProposal /\ NoProposal \notin AfterMove(u)
      BY DEF Expected, AfterMove, NoProposal
    <2> QED
      BY <1>8, <1>10, <2>1 DEF HeldInv, MovedInv
  \* Before a settlement there was an execution, before the others nothing.
  <1>11. ASSUME NEW u \in Txns, txn[u].pc = "committed", NEW p \in txn[u].moves,
                p \in txn[t].moves
         PROVE  Operation[u] = "execute" /\ Operation[t] = "settle"
    <2>1. proposals[p] \in AfterMove(u) /\ proposals[p] = Expected(t)
      BY <1>9, <1>11 DEF MovedInv
    <2>2. Operation[u] \in Operations
      BY DEF AuditChainAssumption
    <2>3. Operation[t] \in {"execute", "expire", "settle"}
      BY <1>9, <1>11
    <2> QED
      BY <2>1, <2>2, <2>3 DEF AfterMove, Expected, Operations
  <1>12. CreatedInv'
    <2> SUFFICES ASSUME NEW u \in Txns
                 PROVE  /\ txn'[u].pc # "committed" => proposals'[u] = NoProposal
                        /\ txn'[u].moves # {} => Operation[u] \in {"execute", "expire", "settle"}
                        /\ txn'[u].proposal => Operation[u] = "proposal"
      BY DEF CreatedInv
    <2>1. u \in txn[t].moves => txn[u].pc = "committed"
      BY <1>9 DEF CreatedInv, Expected, NoProposal
    <2> QED
      BY <1>4, <1>5, <1>7, <2>1 DEF CreatedInv
  <1>13. HeldInv'
    <2> SUFFICES ASSUME NEW u \in Txns
                 PROVE  /\ txn'[u].pc \in {"idle", "append", "read", "insert", "write"}
                              => txn'[u].moves = {}
                        /\ Open(u)' => \A p \in txn'[u].moves :
                             /\ proposals'[p] = Expected(u) /\ txn'[u].target \in Targets(u)
                             /\ \A v \in Txns : Open(v)' /\ p \in txn'[v].moves => v = u
      BY DEF HeldInv, Expected, Targets
    <2>1. CASE u = t
      BY <1>4, <1>5, <1>6, <2>1
    <2>2. CASE u # t
      <3>1. ASSUME Open(u), NEW p \in txn[u].moves PROVE proposals'[p] = proposals[p]
        BY <1>7, <1>8, <1>9, <1>10, <2>2, <3>1
      <3> QED
        BY <1>5, <1>6, <2>2, <3>1 DEF HeldInv
    <2> QED
      BY <2>1, <2>2
  <1>14. MovedInv'
    <2> SUFFICES ASSUME NEW u \in Txns, txn'[u].pc = "committed", NEW p \in txn'[u].moves
                 PROVE  proposals'[p] \in AfterMove(u)
      BY DEF MovedInv, AfterMove
    <2>1. CASE u = t
      <3>1. proposals'[p] \in Targets(t)
        BY <1>4, <1>5, <1>9, <2>1
      <3> QED
        BY <1>3, <2>1, <3>1 DEF Targets, AfterMove, Operations
    <2>2. CASE u # t /\ p \in txn[t].moves
      <3>1. Operation[u] = "execute" /\ Operation[t] = "settle"
        BY <1>5, <1>11, <2>2
      <3>2. proposals'[p] \in Targets(t)
        BY <1>9, <2>2
      <3> QED
        BY <3>1, <3>2 DEF Targets, AfterMove
    <2>3. CASE u # t /\ p \notin txn[t].moves
      <3>1. p \in txn[u].moves /\ txn[u].pc = "committed"
        BY <1>5, <2>3
      <3>2. proposals'[p] = proposals[p]
        BY <1>7, <1>8, <1>10, <2>3, <3>1
      <3> QED
        BY <3>1, <3>2 DEF MovedInv
    <2> QED
      BY <2>1, <2>2, <2>3
  <1>15. OneTransition'
    <2> SUFFICES ASSUME NEW u \in Txns, NEW v \in Txns,
                        txn'[u].pc = "committed", txn'[v].pc = "committed",
                        txn'[u].moves \cap txn'[v].moves # {}, u # v
                 PROVE  Expected(u) # Expected(v) /\ "expire" \notin {Operation[u], Operation[v]}
      BY DEF OneTransition, Expected
    <2>1. PICK p : p \in txn[u].moves /\ p \in txn[v].moves
      BY <1>4, <1>5
    <2>2. CASE u = t
      BY <1>5, <1>11, <2>1, <2>2 DEF Expected
    <2>3. CASE v = t
      BY <1>5, <1>11, <2>1, <2>3 DEF Expected
    <2>4. CASE u # t /\ v # t
      BY <1>5, <2>1, <2>4 DEF OneTransition
    <2> QED
      BY <2>2, <2>3, <2>4
  <1> QED
    BY <1>12, <1>13, <1>14, <1>15

----------------------------------------------------------------------------
LEMMA StepProposal ==
    ASSUME AuditChainAssumption, TypeOK, ProposalInv, [Next]_vars
    PROVE  ProposalInv'
  <1>1. CASE UNCHANGED vars
    BY <1>1 DEF vars, ProposalInv, CreatedInv, HeldInv, MovedInv, OneTransition, Open,
                Expected, Targets, AfterMove
  <1>2. CASE Next
    BY <1>1, <1>2, PlainStatements, UpdateStatement, CommitProposal DEF Next, Step, Finished
  <1> QED
    BY <1>1, <1>2

\* However many callers race to execute, expire or settle proposals: of those
\* that move a proposal out of one state one commits, and a proposal once
\* expired is never executed (ProposalRepository.transition).
THEOREM TransitionIsOne ==
    ASSUME AuditChainAssumption
    PROVE  Spec => []OneTransition
  <1>1. Init => ChainInv /\ ProposalInv
    <2>1. Init => ProposalInv
      BY DEF Init, ProposalInv, CreatedInv, HeldInv, MovedInv, OneTransition, NewTxn, Open
    <2> QED
      BY <2>1, InitChain
  <1>2. ChainInv /\ ProposalInv /\ [Next]_vars => (ChainInv /\ ProposalInv)'
    BY StepChain, StepProposal DEF ChainInv
  <1>3. ProposalInv => OneTransition
    BY DEF ProposalInv
  <1> QED
    BY <1>1, <1>2, <1>3, PTL DEF Spec

=============================================================================
