------------------------- MODULE PayrollReads_proofs -------------------------
(***************************************************************************)
(* Proofs about the payroll tools that read.  First StableRead and         *)
(* CollectPages, for any finite set of ids, any values, page sizes and     *)
(* caps, and any number of concurrent edits; then the parts PayrollContext *)
(* and PayrollEvidence of PayrollReads, whose inductive invariants stand   *)
(* at the end of those modules, for any finite sets of rows.               *)
(***************************************************************************)
EXTENDS CollectPages, PayrollReads, FiniteSetTheorems, SequenceTheorems, WellFoundedInduction,
        TLAPS

(* A table has finitely many matching rows. *)
LEMMA ContentsFinite ==
  ASSUME NEW t \in Table
  PROVE  /\ IsFiniteSet(Contents(t))
         /\ Cardinality(Contents(t)) \in Nat
         /\ Contents(t) \subseteq Row
  <1>1. IsFiniteSet(Matching(t))
    BY StableReadAssumption, FS_Subset DEF Matching
  <1> DEFINE f == [i \in Matching(t) |-> RowOf(t, i)]
  <1>2. f \in Surjection(Matching(t), Contents(t))
    BY DEF Surjection, Contents
  <1>3. IsFiniteSet(Contents(t))
    <2> HIDE DEF f
    <2> QED BY <1>1, <1>2, FS_Surjection
  <1>4. Contents(t) \subseteq Row
    BY DEF Contents, Matching, RowOf, Row, Table
  <1> QED
    BY <1>3, <1>4, FS_CardinalityType

(* What search_read returns is a sequence of rows that are in the table. *)
LEMMA PageOfTable ==
  ASSUME TypeOK, NEW offset \in Nat, NEW limit \in Int,
         NEW page \in SearchRead(offset, limit)
  PROVE  /\ page \in Seq(Row)
         /\ \A k \in DOMAIN page : page[k] \in Contents(table)
  <1> DEFINE C == Contents(table)
  <1>1. /\ Cardinality(C) \in Nat
        /\ C \subseteq Row
    BY ContentsFinite DEF TypeOK
  <1>2. PICK s \in [1..Cardinality(C) -> C] :
           page = [k \in 1..Smaller(limit, Len(s) - offset) |-> s[offset + k]]
    BY DEF SearchRead, Listings
  <1> HIDE DEF C
  <1>3. Len(s) = Cardinality(C)
    BY <1>1, <1>2
  <1> DEFINE n == Smaller(limit, Len(s) - offset)
  <1>4. n \in Int /\ n <= Cardinality(C) - offset
    BY <1>1, <1>3 DEF Smaller
  <1>5. \A k \in 1..n : s[offset + k] \in C
    <2> HIDE DEF n
    <2> TAKE k \in 1..n
    <2>1. offset + k \in 1..Cardinality(C)
      BY <1>1, <1>4
    <2> QED BY <2>1, <1>2
  <1>6. page \in [1..n -> C]
    BY <1>2, <1>5
  <1>7. page \in Seq(C)
    <2> HIDE DEF n
    <2>1. CASE n >= 0
      BY <2>1, <1>4, <1>6
    <2>2. CASE n < 0
      <3>1. 1..n = 1..0
        BY <2>2, <1>4
      <3>2. page \in [1..0 -> C]
        BY <3>1, <1>6
      <3> QED BY <3>2, SeqDef
    <2> QED BY <2>1, <2>2, <1>4
  <1> QED
    BY <1>1, <1>7 DEF C

(* Appending a page keeps a sequence typed and says what its elements are. *)
LEMMA Appended ==
  ASSUME NEW S, NEW s \in Seq(S), NEW page \in Seq(S)
  PROVE  /\ s \o page \in Seq(S)
         /\ Len(s \o page) = Len(s) + Len(page)
         /\ \A k \in DOMAIN (s \o page) :
               \/ k \in DOMAIN s /\ (s \o page)[k] = s[k]
               \/ \E j \in DOMAIN page : (s \o page)[k] = page[j]
  <1>1. /\ s \o page \in Seq(S)
        /\ Len(s \o page) = Len(s) + Len(page)
        /\ \A i \in 1 .. Len(s) + Len(page) :
              (s \o page)[i] = IF i <= Len(s) THEN s[i] ELSE page[i - Len(s)]
    BY ConcatProperties
  <1> DEFINE c == s \o page
  <1>2. ASSUME NEW k \in DOMAIN c
        PROVE  \/ k \in DOMAIN s /\ c[k] = s[k]
               \/ \E j \in DOMAIN page : c[k] = page[j]
    <2>0. /\ DOMAIN c = 1..(Len(s) + Len(page))
          /\ DOMAIN s = 1..Len(s) /\ DOMAIN page = 1..Len(page)
          /\ Len(s) \in Nat /\ Len(page) \in Nat
      BY <1>1
    <2> HIDE DEF c
    <2>1. CASE k <= Len(s)
      BY <2>0, <2>1, <1>1 DEF c
    <2>2. CASE ~(k <= Len(s))
      <3>1. k - Len(s) \in DOMAIN page
        BY <2>0, <2>2
      <3>2. c[k] = page[k - Len(s)]
        BY <2>0, <2>2, <1>1 DEF c
      <3> QED BY <3>1, <3>2
    <2> QED BY <2>1, <2>2
  <1> QED BY <1>1, <1>2

(* The anchors of a page are typed and carry its ids and dates. *)
LEMMA AnchorsType ==
  ASSUME NEW page \in Seq(Row)
  PROVE  /\ Anchors(page) \in Seq([id : Ids, date : Nat])
         /\ DOMAIN Anchors(page) = DOMAIN page
         /\ \A k \in DOMAIN page : /\ Anchors(page)[k].id = page[k].id
                                   /\ Anchors(page)[k].date = page[k].date
  <1>1. \A k \in DOMAIN page : page[k] \in Row
    OBVIOUS
  <1> DEFINE A == [id : Ids, date : Nat]
  <1>2. Anchors(page) \in [1..Len(page) -> A]
    BY <1>1 DEF Anchors, Anchor, Row
  <1>3. Anchors(page) \in Seq(A)
    <2>1. Len(page) \in Nat
      OBVIOUS
    <2> HIDE DEF A
    <2> QED BY <1>2, <2>1
  <1>4. \A k \in DOMAIN page : /\ Anchors(page)[k].id = page[k].id
                               /\ Anchors(page)[k].date = page[k].date
    BY DEF Anchors, Anchor
  <1>5. DOMAIN Anchors(page) = DOMAIN page
    BY DEF Anchors
  <1> QED BY <1>3, <1>4, <1>5

(* The limit of the next page is an integer. *)
LEMMA RequestedType ==
  ASSUME TypeOK, NEW T, NEW fetched \in Seq(T)
  PROVE  Requested(fetched) \in Int
  BY StableReadAssumption DEF TypeOK, Requested, Smaller

(* Every step keeps the types. *)
LEMMA NextTypeOK ==
  ASSUME TypeOK, [Next]_vars
  PROVE  TypeOK'
  <1>1. CASE CountRows
    BY <1>1, ContentsFinite DEF CountRows, SearchCount, TypeOK, Stages, source
  <1>2. CASE FetchRows
    <2>1. PICK page \in SearchRead(Len(rows), Requested(rows)) : rows' = rows \o page
      BY <1>2 DEF FetchRows
    <2>2. page \in Seq(Row)
      BY <2>1, PageOfTable, RequestedType DEF TypeOK
    <2>3. rows' \in Seq(Row)
      BY <2>1, <2>2 DEF TypeOK
    <2> QED
      BY <1>2, <2>3 DEF FetchRows, TypeOK, Stages, source
  <1>3. CASE RecountRows
    BY <1>3 DEF RecountRows, TypeOK, Stages, source
  <1>4. CASE FetchAnchors
    <2>1. PICK page \in SearchRead(Len(anchors), Requested(anchors)) :
             anchors' = anchors \o Anchors(page)
      BY <1>4 DEF FetchAnchors
    <2>2. page \in Seq(Row)
      BY <2>1, PageOfTable, RequestedType DEF TypeOK
    <2>3. anchors' \in Seq([id : Ids, date : Nat])
      <3>1. Anchors(page) \in Seq([id : Ids, date : Nat])
        BY <2>2, AnchorsType
      <3>2. anchors \in Seq([id : Ids, date : Nat])
        BY DEF TypeOK
      <3> QED BY <2>1, <3>1, <3>2, Appended
    <2> QED
      BY <1>4, <2>3 DEF FetchAnchors, TypeOK, Stages, source
  <1>5. CASE FetchFails
    BY <1>5 DEF FetchFails, TypeOK, Stages, source
  <1>6. CASE Edits
    <2>1. PICK i \in Ids, v \in Values \cup {Outside} : Edit(i, v)
      BY <1>6 DEF Edits
    <2>2. table' \in Table
      BY <2>1 DEF Edit, TypeOK, Table
    <2> QED
      BY <2>1, <2>2 DEF Edit, TypeOK, read
  <1>7. CASE CallRaises
    BY <1>7 DEF CallRaises, TypeOK, Stages, source
  <1>8. CASE UNCHANGED vars
    BY <1>8 DEF vars, TypeOK
  <1> QED
    BY <1>1, <1>2, <1>3, <1>4, <1>5, <1>6, <1>7, <1>8 DEF Next, Read

\* TypeOK of StableRead, for every table, page size and number of edits.
THEOREM TypeCorrect == Spec => []TypeOK
  <1>1. Init => TypeOK
    BY DEF Init, TypeOK, Table, Stages
  <1>2. TypeOK /\ [Next]_vars => TypeOK'
    BY NextTypeOK
  <1> QED
    BY <1>1, <1>2, PTL DEF Spec

(* A page of the table has been seen in it. *)
LEMMA PageSeen ==
  ASSUME TypeOK, NEW row \in Contents(table)
  PROVE  /\ row.id \in Ids
         /\ row.date = table[row.id].date
         /\ row = RowOf(table, row.id)
  <1>1. PICK i \in Matching(table) : row = RowOf(table, i)
    BY DEF Contents
  <1> QED BY <1>1 DEF RowOf, Matching

(* A pass that accepts a page has distinct ids and never too many rows. *)
LEMMA AcceptedPage ==
  ASSUME TypeOK, Distinct(rows), Len(rows) <= count,
         NEW page \in Seq(Row), Accepts(rows, page)
  PROVE  /\ Distinct(rows \o page)
         /\ Len(rows \o page) <= count
         /\ ~(Len(rows \o page) < count) => Len(rows \o page) = count
  <1>1. rows \in Seq(Row) /\ count \in Nat
    BY DEF TypeOK
  <1>2. /\ Len(rows \o page) = Len(rows) + Len(page)
        /\ Len(rows) \in Nat /\ Len(page) \in Nat
    BY <1>1
  <1>3. CASE count = 0
    <2>1. page = <<>>
      BY <1>3 DEF Accepts
    <2>2. rows \o page = rows
      BY <1>1, <2>1
    <2> QED BY <1>1, <1>2, <1>3, <2>2
  <1>4. CASE count # 0
    <2>1. Len(page) = Smaller(PageSize, count - Len(rows)) /\ Distinct(rows \o page)
      BY <1>4 DEF Accepts, Requested
    <2>2. Len(page) <= count - Len(rows)
      BY <1>1, <1>2, <2>1, StableReadAssumption DEF Smaller
    <2> QED BY <1>1, <1>2, <2>1, <2>2
  <1> QED BY <1>3, <1>4

(* The inductive step, action by action. *)
LEMMA NextReadInv ==
  ASSUME TypeOK, ReadInv, [Next]_vars
  PROVE  ReadInv'
  <1> USE DEF ReadInv
  <1>0. TypeOK'
    BY NextTypeOK
  <1>1. CASE CountRows
    <2>1. rows' = <<>> /\ anchors' = <<>> /\ stage' \in {"too_large", "fetching"} /\ UNCHANGED <<table, edits>>
      BY <1>1 DEF CountRows, source
    <2>2. SeenIn(table, rows)' /\ Distinct(rows)' /\ (Len(rows) <= count)'
      BY <2>1, <1>0 DEF SeenIn, Distinct, TypeOK
    <2> QED BY <2>1, <2>2
  <1>2. CASE FetchRows
    <2>1. PICK page \in SearchRead(Len(rows), Requested(rows)) :
             Accepts(rows, page) /\ rows' = rows \o page
      BY <1>2 DEF FetchRows
    <2>2. /\ page \in Seq(Row)
          /\ \A k \in DOMAIN page : page[k] \in Contents(table)
      BY <2>1, PageOfTable, RequestedType DEF TypeOK
    <2>3. /\ UNCHANGED <<table, edits, count>>
          /\ stage = "fetching"
          /\ stage' = IF Len(rows') < count THEN "fetching" ELSE "recounting"
          /\ anchors' = anchors
      BY <1>2 DEF FetchRows, source
    <2>4. Distinct(rows)' /\ (Len(rows) <= count)'
          /\ (~(Len(rows') < count) => Len(rows') = count)
      BY <2>1, <2>2, <2>3, AcceptedPage DEF Distinct
    <2>5. SeenIn(table, rows)'
      <3>1. rows \in Seq(Row)
        BY DEF TypeOK
      <3>2. ASSUME NEW k \in DOMAIN rows'
            PROVE  /\ rows'[k].date <= table[rows'[k].id].date
                   /\ rows'[k].date = table[rows'[k].id].date => rows'[k] = RowOf(table, rows'[k].id)
        <4>1. CASE k \in DOMAIN rows /\ rows'[k] = rows[k]
          BY <4>1 DEF SeenIn
        <4>2. CASE \E j \in DOMAIN page : rows'[k] = page[j]
          <5>1. rows'[k] \in Contents(table)
            BY <4>2, <2>2
          <5>2. table[rows'[k].id].date \in Nat
            BY <5>1, PageSeen DEF TypeOK, Table
          <5> QED BY <5>1, <5>2, PageSeen
        <4> QED BY <4>1, <4>2, <3>1, <2>1, <2>2, Appended
      <3> QED BY <3>2, <2>3 DEF SeenIn, RowOf
    <2> QED BY <2>3, <2>4, <2>5
  <1>3. CASE RecountRows
    <2>1. /\ UNCHANGED <<table, edits, count, rows, anchors>>
          /\ atRecount' = table /\ stage = "recounting"
          /\ stage' = IF SearchCount = count THEN "refetching" ELSE "failed"
      BY <1>3 DEF RecountRows, source
    <2>2. SeenIn(table, rows)' /\ SeenIn(atRecount, rows)' /\ Distinct(rows)'
      BY <2>1 DEF SeenIn, RowOf, Distinct
    <2>3. stage' = "refetching" => Cardinality(Contents(atRecount))' = count'
      BY <2>1 DEF SearchCount, Contents, Matching, RowOf
    <2>4. \A i \in Ids : /\ atRecount'[i].date <= table'[i].date
                         /\ atRecount'[i].date = table'[i].date => atRecount'[i] = table'[i]
      BY <2>1 DEF TypeOK, Table
    <2> QED BY <2>1, <2>2, <2>3, <2>4
  <1>4. CASE FetchAnchors
    <2>1. PICK page \in SearchRead(Len(anchors), Requested(anchors)) :
             anchors' = anchors \o Anchors(page)
      BY <1>4 DEF FetchAnchors
    <2>2. /\ page \in Seq(Row)
          /\ \A k \in DOMAIN page : page[k] \in Contents(table)
      BY <2>1, PageOfTable, RequestedType DEF TypeOK
    <2>3. /\ UNCHANGED <<table, edits, count, rows, atRecount>>
          /\ stage = "refetching"
          /\ stage' \in {"refetching", "returned", "failed"}
          /\ stage' = "returned" => anchors' = Anchors(rows)
      BY <1>4 DEF FetchAnchors, source
    <2>4. \A k \in DOMAIN anchors' : atRecount[anchors'[k].id].date <= anchors'[k].date
      <3>1. /\ anchors \in Seq([id : Ids, date : Nat])
            /\ Anchors(page) \in Seq([id : Ids, date : Nat])
        BY <2>2, AnchorsType DEF TypeOK
      <3> TAKE k \in DOMAIN anchors'
      <3>2. CASE k \in DOMAIN anchors /\ anchors'[k] = anchors[k]
        BY <2>3, <3>2
      <3>3. CASE \E j \in DOMAIN Anchors(page) : anchors'[k] = Anchors(page)[j]
        <4>1. PICK j \in DOMAIN page :
                 anchors'[k].id = page[j].id /\ anchors'[k].date = page[j].date
          BY <2>2, <3>3, AnchorsType
        <4>2. page[j].id \in Ids /\ page[j].date = table[page[j].id].date
          BY <2>2, PageSeen
        <4> QED BY <2>3, <4>1, <4>2
      <3> QED BY <2>1, <3>1, <3>2, <3>3, Appended
    <2>5. SeenIn(table, rows)' /\ SeenIn(atRecount, rows)' /\ Distinct(rows)'
          /\ (stage' = "returned" => (anchors = Anchors(rows))')
      BY <2>3 DEF SeenIn, RowOf, Distinct, Anchors, Anchor
    <2>6. Cardinality(Contents(atRecount))' = count'
      BY <2>3 DEF Contents, Matching, RowOf
    <2> QED BY <2>3, <2>4, <2>5, <2>6
  <1>5. CASE FetchFails
    <2>1. UNCHANGED <<table, edits, count, rows, anchors>> /\ stage' = "failed"
      BY <1>5 DEF FetchFails, source
    <2> QED BY <2>1 DEF SeenIn, RowOf, Distinct
  <1>6. CASE Edits
    <2>1. PICK i \in Ids, v \in Values \cup {Outside} : Edit(i, v)
      BY <1>6 DEF Edits
    <2>2. /\ UNCHANGED <<stage, count, rows, anchors, atRecount>>
          /\ edits' = edits + 1
          /\ table' = [table EXCEPT ![i] = [date |-> edits + 1, value |-> v]]
      BY <2>1 DEF Edit, read
    <2>3. /\ edits \in Nat
          /\ \A j \in Ids : table[j].date \in Nat /\ atRecount[j].date \in Nat
          /\ table \in Table
      BY DEF TypeOK, Table
    <2>4. \A j \in Ids : \/ table'[j] = table[j]
                         \/ table'[j].date = edits + 1
      BY <2>2, <2>3 DEF Table
    <2>5. \A j \in Ids : table'[j].date <= edits'
      BY <2>2, <2>3, <2>4
    <2>6. SeenIn(table, rows)'
      <3>1. ASSUME NEW k \in DOMAIN rows
            PROVE  /\ rows[k].date <= table'[rows[k].id].date
                   /\ rows[k].date = table'[rows[k].id].date => rows[k] = RowOf(table', rows[k].id)
        <4>1. rows[k].id \in Ids /\ rows[k].date \in Nat
          <5>1. rows[k] \in Row
            BY DEF TypeOK
          <5> QED BY <5>1 DEF Row
        <4>2. /\ rows[k].date <= table[rows[k].id].date
              /\ rows[k].date = table[rows[k].id].date => rows[k] = RowOf(table, rows[k].id)
          BY DEF SeenIn
        <4>3. CASE table'[rows[k].id] = table[rows[k].id]
          BY <4>2, <4>3 DEF RowOf
        <4>4. CASE table'[rows[k].id].date = edits + 1
          BY <2>3, <4>1, <4>2, <4>4
        <4> QED BY <2>4, <4>1, <4>3, <4>4
      <3> QED BY <2>2, <3>1 DEF SeenIn, RowOf
    <2>7. stage \in {"refetching", "returned"} =>
             \A j \in Ids : /\ atRecount[j].date <= table'[j].date
                            /\ atRecount[j].date = table'[j].date => atRecount[j] = table'[j]
      BY <2>3, <2>4
    <2>8. stage \in {"refetching", "returned"} =>
             SeenIn(atRecount, rows)' /\ Cardinality(Contents(atRecount))' = count'
      BY <2>2 DEF SeenIn, RowOf, Contents, Matching
    <2>9. Distinct(rows)' /\ (stage = "returned" => (anchors = Anchors(rows))')
      BY <2>2 DEF Distinct, Anchors, Anchor
    <2> QED BY <2>2, <2>5, <2>6, <2>7, <2>8, <2>9
  <1>7. CASE CallRaises
    <2>1. UNCHANGED <<table, edits, count, rows, anchors>> /\ stage' = "raised"
      BY <1>7 DEF CallRaises, source
    <2> QED BY <2>1 DEF SeenIn, RowOf, Distinct
  <1>8. CASE UNCHANGED vars
    BY <1>8 DEF vars, SeenIn, RowOf, Distinct, Contents, Matching, Anchors, Anchor
  <1> QED
    BY <1>1, <1>2, <1>3, <1>4, <1>5, <1>6, <1>7, <1>8 DEF Next, Read

\* ReadInv is inductive: between its two passes a read keeps what it needs to
\* know about the table.
THEOREM ReadInvariant == Spec => []ReadInv
  <1>1. Init => ReadInv
    BY DEF Init, ReadInv, SeenIn, Distinct
  <1>2. TypeOK /\ ReadInv /\ [Next]_vars => ReadInv'
    BY NextReadInv
  <1> QED
    BY <1>1, <1>2, TypeCorrect, PTL DEF Spec

(* Where the two passes agree, the first one read the table as it was when the
   rows were counted again. *)
LEMMA PassesAgree ==
  ASSUME TypeOK, ReadInv, stage = "returned"
  PROVE  RowSet(rows) = Contents(atRecount)
  <1>1. /\ rows \in Seq(Row) /\ atRecount \in Table /\ count \in Nat
        /\ Len(rows) = count
        /\ Cardinality(Contents(atRecount)) = count
        /\ SeenIn(atRecount, rows) /\ Distinct(rows)
        /\ anchors = Anchors(rows)
        /\ \A k \in DOMAIN anchors : atRecount[anchors[k].id].date <= anchors[k].date
    BY DEF TypeOK, ReadInv
  <1>2. ASSUME NEW k \in DOMAIN rows
        PROVE  rows[k] \in Contents(atRecount)
    <2>1. rows[k].id \in Ids /\ rows[k].date \in Nat /\ rows[k].value \in Values
      <3>1. rows[k] \in Row
        BY <1>1
      <3> QED BY <3>1 DEF Row
    <2>2. atRecount[rows[k].id].date \in Nat
      BY <1>1, <2>1 DEF Table
    <2>3. atRecount[rows[k].id].date <= rows[k].date
      BY <1>1, AnchorsType
    <2>4. rows[k] = RowOf(atRecount, rows[k].id)
      BY <1>1, <2>1, <2>2, <2>3 DEF SeenIn
    <2>5. atRecount[rows[k].id].value # Outside
      BY <2>1, <2>4, StableReadAssumption DEF RowOf
    <2> QED BY <2>1, <2>4, <2>5 DEF Contents, Matching
  <1>3. rows \in [1..count -> Contents(atRecount)]
    BY <1>1, <1>2
  <1>4. rows \in Injection(1..count, Contents(atRecount))
    BY <1>1, <1>3 DEF Injection, IsInjective, Distinct
  <1>5. IsFiniteSet(Contents(atRecount))
    BY <1>1, ContentsFinite
  <1>6. Cardinality(1..count) = count
    BY <1>1, FS_Interval
  <1>7. rows \in Surjection(1..count, Contents(atRecount))
    BY <1>1, <1>4, <1>5, <1>6, FS_Injection
  <1> QED
    BY <1>3, <1>7 DEF Surjection, RowSet

\* SnapshotRead: whatever Odoo users write meanwhile, the rows _stable_rows
\* returns are the matching rows of the table at one instant of the read.
THEOREM ReadsOneState == Spec => []SnapshotRead
  <1>1. TypeOK /\ ReadInv => SnapshotRead
    BY PassesAgree DEF SnapshotRead
  <1> QED
    BY <1>1, TypeCorrect, ReadInvariant, PTL
----------------------------------------------------------------------------
(* _collect_pages.  A listing of a table is a sequence of all its rows. *)
LEMMA ListingOfTable ==
  ASSUME NEW t \in Table, NEW s \in Listings(Contents(t))
  PROVE  /\ s \in Seq(Row) /\ Len(s) = Cardinality(Contents(t))
         /\ DOMAIN s = 1..Len(s)
         /\ \A k \in DOMAIN s : s[k] \in Contents(t)
         /\ RowSet(s) = Contents(t)
  <1> DEFINE C == Contents(t)
             n == Cardinality(C)
  <1>1. IsFiniteSet(C) /\ n \in Nat /\ C \subseteq Row
    BY ContentsFinite
  <1>2. /\ s \in [1..n -> C]
        /\ \A a, b \in DOMAIN s : a < b => Before(s[a], s[b])
    BY DEF Listings
  <1>3. \A p \in C : ~Before(p, p)
    <2> SUFFICES ASSUME NEW p \in C PROVE ~Before(p, p)
      OBVIOUS
    <2>1. p \in Row
      BY <1>1
    <2>2. p.value \in Nat /\ p.id \in Nat
      BY <2>1, StableReadAssumption DEF Row
    <2> QED BY <2>2 DEF Before
  <1> HIDE DEF C, n
  <1>4. \A a, b \in 1..n : s[a] = s[b] => a = b
    <2> SUFFICES ASSUME NEW a \in 1..n, NEW b \in 1..n, s[a] = s[b], a # b PROVE FALSE
      OBVIOUS
    <2>1. s[a] \in C /\ DOMAIN s = 1..n
      BY <1>2
    <2>2. a < b \/ b < a
      BY <1>1
    <2> QED BY <1>2, <1>3, <2>1, <2>2
  <1>5. s \in Injection(1..n, C)
    BY <1>2, <1>4 DEF Injection, IsInjective
  <1>6. Cardinality(1..n) = n /\ IsFiniteSet(1..n)
    BY <1>1, FS_Interval
  <1>7. s \in Surjection(1..n, C)
    BY <1>1, <1>5, <1>6, FS_Injection DEF n
  <1>8. RowSet(s) = C
    BY <1>2, <1>7 DEF Surjection, RowSet
  <1>9. s \in Seq(Row) /\ Len(s) = n /\ DOMAIN s = 1..Len(s)
    BY <1>1, <1>2
  <1> QED BY <1>2, <1>8, <1>9 DEF C, n

(* A cursor is not None. *)
LEMMA CursorSet ==
  ASSUME NEW s \in Seq(Row), NEW offset \in Nat
  PROVE  [bound |-> Fingerprint(s), offset |-> offset] # NoCursor
  <1>1. Fingerprint(s) \in Seq([id : Ids, date : Nat])
    BY AnchorsType DEF Fingerprint
  <1> QED BY <1>1, CollectPagesAssumption

(* Two listings with the same ids and write dates are the same, when one table
   is a later state of the other: what the cursor's fingerprint stands for. *)
LEMMA SameListing ==
  ASSUME NEW t \in Table, NEW u \in Table, Precedes(t, u),
         NEW s \in Listings(Contents(t)), NEW r \in Listings(Contents(u)),
         Fingerprint(s) = Fingerprint(r)
  PROVE  s = r
  <1>1. /\ s \in Seq(Row) /\ \A k \in DOMAIN s : s[k] \in Contents(t)
        /\ r \in Seq(Row) /\ \A k \in DOMAIN r : r[k] \in Contents(u)
    BY ListingOfTable
  <1>2. DOMAIN s = DOMAIN r
    BY <1>1, AnchorsType DEF Fingerprint
  <1>3. ASSUME NEW k \in DOMAIN s PROVE s[k] = r[k]
    <2>1. s[k].id = r[k].id /\ s[k].date = r[k].date
      BY <1>1, <1>2, AnchorsType DEF Fingerprint
    <2>2. PICK i \in Ids : s[k] = RowOf(t, i)
      BY <1>1 DEF Contents, Matching
    <2>3. PICK j \in Ids : r[k] = RowOf(u, j)
      BY <1>1, <1>2 DEF Contents, Matching
    <2>4. i = j /\ t[i].date = u[i].date
      BY <2>1, <2>2, <2>3 DEF RowOf
    <2>5. t[i] = u[i]
      BY <2>4 DEF Precedes
    <2> QED BY <2>2, <2>3, <2>4, <2>5 DEF RowOf
  <1> QED BY <1>1, <1>2, <1>3

(* A page continues the rows before its offset. *)
LEMMA PageCut ==
  ASSUME NEW s \in Seq(Row), Offset \in Nat, Offset <= Len(s)
  PROVE  /\ Page(s).total = Len(s) /\ Page(s).items \in Seq(Row)
         /\ Offset + Len(Page(s).items) <= Len(s)
         /\ \A k \in 1..Len(Page(s).items) : Page(s).items[k] = s[Offset + k]
         /\ Page(s).next = IF Offset + Len(Page(s).items) < Len(s)
                             THEN [bound |-> Fingerprint(s),
                                   offset |-> Offset + Len(Page(s).items)]
                             ELSE NoCursor
  <1> DEFINE end == Smaller(Offset + Limit, Len(s))
             from == Offset + 1
  <1>1. Limit \in Nat \ {0} /\ Len(s) \in Nat
    BY CollectPagesAssumption
  <1>2. end \in Nat /\ Offset <= end /\ end <= Len(s)
    BY <1>1 DEF Smaller
  <1>3. /\ Page(s).items = SubSeq(s, from, end) /\ Page(s).total = Len(s)
        /\ Page(s).next = IF end < Len(s) THEN [bound |-> Fingerprint(s), offset |-> end]
                                          ELSE NoCursor
    BY DEF Page
  <1> HIDE DEF end
  <1>4. /\ SubSeq(s, from, end) \in Seq(Row) /\ Len(SubSeq(s, from, end)) = end - Offset
        /\ \A k \in 1..(end - Offset) : SubSeq(s, from, end)[k] = s[Offset + k]
    <2>1. SubSeq(s, from, end) = [k \in 1..(end - Offset) |-> s[Offset + k]]
      BY <1>1, <1>2
    <2>2. \A k \in 1..(end - Offset) : s[Offset + k] \in Row
      BY <1>1, <1>2
    <2>3. SubSeq(s, from, end) \in [1..(end - Offset) -> Row]
      BY <2>1, <2>2
    <2> QED BY <1>2, <2>1, <2>3
  <1>5. Offset + (end - Offset) = end
    BY <1>2
  <1> QED BY <1>2, <1>3, <1>4, <1>5

(* The read variables keep their invariants under the steps of the collector,
   which starts the next read where the last one returned. *)
LEMMA CollectRead ==
  ASSUME TypeOK, ReadInv, [CollectNext]_<<vars, collector>>
  PROVE  TypeOK' /\ ReadInv'
  <1>1. CASE [Next]_vars
    BY <1>1, NextTypeOK, NextReadInv
  <1>2. CASE /\ stage' = "idle"
             /\ UNCHANGED <<table, edits, count, rows, anchors, began, atRecount>>
    <2>1. TypeOK'
      BY <1>2 DEF TypeOK, Stages
    <2>2. ReadInv'
      BY <1>2 DEF ReadInv, SeenIn, Distinct, RowOf
    <2> QED BY <2>1, <2>2
  <1>3. CASE TakePage
    BY <1>1, <1>2, <1>3 DEF TakePage, source, vars
  <1>4. CASE ReadOn \/ ReadRaises \/ RefusePage \/ Edits \/ UNCHANGED <<vars, collector>>
    BY <1>1, <1>4 DEF ReadOn, ReadRaises, RefusePage, Next, vars
  <1> QED BY <1>3, <1>4 DEF CollectNext

(* A step that leaves the collection alone keeps it the beginning of the
   listing of its first page: tables only move forward. *)
LEMMA QuietCollect ==
  ASSUME TypeOK, TypeOK', CollectInv,
         UNCHANGED <<cursor, items, total, first>>,
         outcome' \notin {"running", "complete"} \/ outcome' = outcome,
         outcome' = "complete" => UNCHANGED atRecount,
         Precedes(table, table'),
         stage' \in {"refetching", "returned"} =>
             \/ stage \in {"refetching", "returned"} /\ atRecount' = atRecount
             \/ atRecount' = table
  PROVE  CollectInv'
  <1>1. /\ first \in Table /\ table \in Table /\ table' \in Table
        /\ total = NoTotal => items = <<>> /\ cursor = NoCursor /\ outcome # "complete"
    BY DEF CollectInv, TypeOK
  <1>2. total' = NoTotal => items' = <<>> /\ cursor' = NoCursor /\ outcome' # "complete"
    BY <1>1
  <1>3. ASSUME total # NoTotal
        PROVE  /\ Precedes(first, table)'
               /\ stage' \in {"refetching", "returned"} => Precedes(first, atRecount)'
               /\ \E listing \in Listings(Contents(first))' : Collected(listing)'
    <2>1. /\ Precedes(first, table)
          /\ stage \in {"refetching", "returned"} => Precedes(first, atRecount)
          /\ \E listing \in Listings(Contents(first)) : Collected(listing)
      BY <1>3 DEF CollectInv
    <2>2. Precedes(first, table')
      <3> SUFFICES ASSUME NEW i \in Ids
                   PROVE  /\ first[i].date <= table'[i].date
                          /\ first[i].date = table'[i].date => first[i] = table'[i]
        BY DEF Precedes
      <3>1. first[i].date \in Nat /\ table[i].date \in Nat /\ table'[i].date \in Nat
        BY <1>1 DEF Table
      <3>2. /\ first[i].date <= table[i].date /\ table[i].date <= table'[i].date
            /\ first[i].date = table[i].date => first[i] = table[i]
            /\ table[i].date = table'[i].date => table[i] = table'[i]
        BY <2>1 DEF Precedes
      <3> QED BY <3>1, <3>2
    <2>3. stage' \in {"refetching", "returned"} => Precedes(first, atRecount')
      BY <2>1
    <2>4. PICK listing \in Listings(Contents(first)) : Collected(listing)
      BY <2>1
    <2>5. Collected(listing)'
      BY <2>4 DEF Collected
    <2> QED BY <2>2, <2>3, <2>4, <2>5 DEF Precedes
  <1> QED BY <1>1, <1>2, <1>3 DEF CollectInv

(* A write has a later date than the row it replaces. *)
LEMMA TablesMoveForward ==
  ASSUME TypeOK, ReadInv, Read \/ Edits \/ UNCHANGED table
  PROVE  Precedes(table, table')
  <1>1. CASE Read \/ UNCHANGED table
    <2>1. table' = table
      BY <1>1 DEF Read, CountRows, FetchRows, RecountRows, FetchAnchors, FetchFails,
                  CallRaises, source
    <2>2. \A i \in Ids : table[i].date \in Nat
      BY DEF TypeOK, Table
    <2> QED BY <2>1, <2>2 DEF Precedes
  <1>2. CASE Edits
    <2>1. PICK i \in Ids, v \in Values \cup {Outside} : Edit(i, v)
      BY <1>2 DEF Edits
    <2> SUFFICES ASSUME NEW j \in Ids
                 PROVE  /\ table[j].date <= table'[j].date
                        /\ table[j].date = table'[j].date => table[j] = table'[j]
      BY DEF Precedes
    <2>2. table[j].date \in Nat /\ edits \in Nat /\ table[j].date <= edits
      BY DEF TypeOK, Table, ReadInv
    <2>3. table'[j] = IF j = i THEN [date |-> edits + 1, value |-> v] ELSE table[j]
      BY <2>1 DEF Edit, TypeOK, Table
    <2> QED BY <2>2, <2>3
  <1> QED BY <1>1, <1>2

(* The first page, or one whose cursor was accepted: in both cases the page is
   cut from the listing the collection began with. *)
LEMMA TakenPage ==
  ASSUME TypeOK, ReadInv, CollectInv, TakePage
  PROVE  CollectInv'
  <1> DEFINE A == Contents(atRecount)
  <1>1. /\ outcome = "running" /\ stage = "returned"
        /\ first' = (IF total = NoTotal THEN atRecount ELSE first)
        /\ UNCHANGED <<table, atRecount>>
        /\ table \in Table /\ atRecount \in Table /\ first \in Table
    BY DEF TakePage, TypeOK, CollectInv, source
  <1>2. RowSet(rows) = A
    BY <1>1, PassesAgree
  <1>3. PICK s \in Listings(A) :
          /\ Accepted(s)
          /\ items' = items \o Page(s).items
          /\ total' = Page(s).total
          /\ cursor' = Page(s).next
          /\ outcome' = IF Page(s).next = NoCursor THEN "complete" ELSE "running"
    BY <1>1, <1>2 DEF TakePage
  <1>4. s \in Seq(Row) /\ Len(s) \in Nat /\ DOMAIN s = 1..Len(s) /\ RowSet(s) = A
    BY <1>1, ListingOfTable
  <1>5. CursorMatches(s)
    BY <1>3 DEF Accepted
  (* The state of the collection when the page call returned. *)
  <1>6. /\ s \in Listings(Contents(first')) /\ Contents(first') = A
        /\ items \in Seq(Row) /\ Offset = Len(items) /\ Len(items) <= Len(s)
        /\ \A k \in 1..Len(items) : items[k] = s[k]
    <2>1. CASE total = NoTotal
      <3>1. items = <<>> /\ cursor = NoCursor /\ first' = atRecount
        BY <1>1, <2>1 DEF CollectInv
      <3> QED BY <1>4, <3>1 DEF Offset
    <2>2. CASE total # NoTotal
      <3>1. PICK listing \in Listings(Contents(first)) : Collected(listing)
        BY <2>2 DEF CollectInv
      <3>2. /\ cursor = [bound |-> Fingerprint(listing), offset |-> Len(items)]
            /\ items \in Seq(Row) /\ Len(items) <= Len(listing)
            /\ \A k \in 1..Len(items) : items[k] = listing[k]
        BY <1>1, <3>1 DEF Collected
      <3>3. listing \in Seq(Row) /\ RowSet(listing) = Contents(first)
        BY <1>1, ListingOfTable
      <3>4. cursor # NoCursor
        <4>1. Len(items) \in Nat
          BY <3>2
        <4> QED BY <3>2, <3>3, <4>1, CursorSet
      <3>5. Offset = Len(items) /\ Fingerprint(listing) = Fingerprint(s)
        BY <1>5, <3>2, <3>4 DEF Offset, CursorMatches
      <3>6. Precedes(first, atRecount)
        BY <1>1, <2>2 DEF CollectInv
      <3>7. listing = s
        BY <1>1, <3>5, <3>6, SameListing
      <3>8. first' = first
        BY <1>1, <2>2
      <3> QED BY <1>4, <3>1, <3>2, <3>3, <3>5, <3>7, <3>8
    <2> QED BY <2>1, <2>2
  <1> DEFINE fetched == Page(s).items
  <1>7. /\ Page(s).total = Len(s) /\ fetched \in Seq(Row)
        /\ Len(items) + Len(fetched) <= Len(s)
        /\ \A k \in 1..Len(fetched) : fetched[k] = s[Len(items) + k]
        /\ Page(s).next = IF Len(items) + Len(fetched) < Len(s)
                            THEN [bound |-> Fingerprint(s), offset |-> Len(items) + Len(fetched)]
                            ELSE NoCursor
    BY <1>4, <1>6, PageCut
  <1> HIDE DEF fetched, A
  <1>8. /\ items' \in Seq(Row) /\ Len(items') = Len(items) + Len(fetched)
        /\ \A k \in 1..Len(items') : items'[k] = s[k]
    <2>1. items' = items \o fetched
      BY <1>3 DEF fetched
    <2>2. /\ items' \in Seq(Row) /\ Len(items') = Len(items) + Len(fetched)
          /\ \A k \in 1..Len(items') :
                items'[k] = IF k <= Len(items) THEN items[k] ELSE fetched[k - Len(items)]
      BY <1>6, <1>7, <2>1
    <2>3. ASSUME NEW k \in 1..Len(items') PROVE items'[k] = s[k]
      <3>1. CASE k <= Len(items)
        BY <1>6, <2>2, <3>1
      <3>2. CASE ~(k <= Len(items))
        <4>1. k - Len(items) \in 1..Len(fetched) /\ Len(items) + (k - Len(items)) = k
          BY <1>6, <1>7, <2>2, <3>2
        <4> QED BY <1>7, <2>2, <3>2, <4>1
      <3> QED BY <3>1, <3>2
    <2> QED BY <2>2, <2>3
  <1>9. /\ total' = Len(s) /\ total' # NoTotal
        /\ outcome' = "running" => cursor' = [bound |-> Fingerprint(s), offset |-> Len(items')]
        /\ outcome' = "complete" => Len(items') = Len(s)
    <2>1. total' = Len(s) /\ total' # NoTotal
      BY <1>3, <1>4, <1>7, CollectPagesAssumption
    <2>2. CASE Len(items) + Len(fetched) < Len(s)
      <3>1. cursor' = [bound |-> Fingerprint(s), offset |-> Len(items')]
        BY <1>3, <1>7, <1>8, <2>2
      <3>2. cursor' # NoCursor
        <4>1. Len(items') \in Nat
          BY <1>8
        <4> QED BY <1>4, <3>1, <4>1, CursorSet
      <3> QED BY <1>3, <2>1, <3>1, <3>2
    <2>3. CASE ~(Len(items) + Len(fetched) < Len(s))
      <3>1. Len(items') = Len(s)
        <4>1. Len(items) \in Nat /\ Len(fetched) \in Nat /\ Len(s) \in Nat
          BY <1>4, <1>6, <1>7
        <4>2. Len(items) + Len(fetched) <= Len(s) /\ Len(items') = Len(items) + Len(fetched)
          BY <1>7, <1>8
        <4> QED BY <2>3, <4>1, <4>2
      <3>2. outcome' = "complete"
        BY <1>3, <1>7, <2>3
      <3> QED BY <2>1, <3>1, <3>2
    <2> QED BY <2>2, <2>3
  <1>10. outcome' = "complete" => items' = s
    BY <1>4, <1>8, <1>9
  <1>11. Collected(s)'
    BY <1>1, <1>6, <1>7, <1>8, <1>9, <1>10 DEF Collected, A
  <1>12. Precedes(first', table) /\ Precedes(first', atRecount) /\ first' \in Table
    <2>1. CASE total = NoTotal
      <3>1. first' = atRecount
        BY <1>1, <2>1
      <3>2. Precedes(atRecount, table)
        BY <1>1 DEF ReadInv, Precedes
      <3>3. Precedes(atRecount, atRecount)
        BY <1>1 DEF Precedes, Table
      <3> QED BY <1>1, <3>1, <3>2, <3>3
    <2>2. CASE total # NoTotal
      BY <1>1, <2>2 DEF CollectInv
    <2> QED BY <2>1, <2>2
  <1> QED BY <1>1, <1>6, <1>9, <1>11, <1>12 DEF CollectInv, Precedes

LEMMA CollectStep ==
  ASSUME TypeOK, ReadInv, CollectInv, [CollectNext]_<<vars, collector>>
  PROVE  CollectInv'
  <1>1. TypeOK'
    BY CollectRead
  <1>2. CASE ReadOn
    <2>1. /\ Read /\ outcome = "running" /\ UNCHANGED <<outcome, cursor, items, total, first>>
      BY <1>2 DEF ReadOn
    <2>2. Precedes(table, table')
      BY <2>1, TablesMoveForward
    <2>3. stage' \in {"refetching", "returned"} =>
             \/ stage \in {"refetching", "returned"} /\ atRecount' = atRecount
             \/ atRecount' = table
      BY <2>1 DEF Read, CountRows, FetchRows, RecountRows, FetchAnchors, FetchFails, CallRaises
    <2> QED BY <1>1, <2>1, <2>2, <2>3, QuietCollect
  <1>3. CASE ReadRaises \/ RefusePage
    <2>1. /\ UNCHANGED <<vars, cursor, items, total, first>>
          /\ outcome' \in {"failed", "too_large", "raised"}
      BY <1>3 DEF ReadRaises, RefusePage
    <2>2. Precedes(table, table')
      BY <2>1, TablesMoveForward DEF vars
    <2> QED BY <1>1, <2>1, <2>2, QuietCollect DEF vars
  <1>4. CASE Edits /\ UNCHANGED collector
    <2>1. UNCHANGED <<outcome, cursor, items, total, first>> /\ UNCHANGED <<stage, atRecount>>
      BY <1>4 DEF collector, Edits, Edit, read
    <2>2. Precedes(table, table')
      BY <1>4, TablesMoveForward
    <2> QED BY <1>1, <2>1, <2>2, QuietCollect
  <1>5. CASE UNCHANGED <<vars, collector>>
    <2>1. UNCHANGED <<outcome, cursor, items, total, first>> /\ UNCHANGED <<table, stage, atRecount>>
      BY <1>5 DEF vars, collector
    <2>2. Precedes(table, table')
      BY <2>1, TablesMoveForward
    <2> QED BY <1>1, <2>1, <2>2, QuietCollect
  <1>6. CASE TakePage
    BY <1>6, TakenPage
  <1> QED BY <1>2, <1>3, <1>4, <1>5, <1>6 DEF CollectNext

\* CollectedSnapshot: what _collect_pages returns after any number of page
\* calls is the whole model at one instant, in order, although every page came
\* from a read of its own and Odoo users wrote between any two of them.
THEOREM CollectsOneState == CollectSpec => []CollectedSnapshot
  <1>1. CollectInit => TypeOK /\ ReadInv /\ CollectInv
    <2>1. CollectInit => TypeOK /\ ReadInv
      BY DEF CollectInit, Init, TypeOK, Table, Stages, ReadInv, SeenIn, Distinct
    <2>2. CollectInit => CollectInv
      BY <2>1 DEF CollectInit, CollectInv, TypeOK
    <2> QED BY <2>1, <2>2
  <1>2. TypeOK /\ ReadInv /\ CollectInv /\ [CollectNext]_<<vars, collector>>
          => (TypeOK /\ ReadInv /\ CollectInv)'
    BY CollectRead, CollectStep
  <1>3. CollectInv => CollectedSnapshot
    <2> SUFFICES ASSUME CollectInv, outcome = "complete"
                 PROVE  /\ items \in Listings(Contents(first))
                        /\ Contents(first) = Contents(atRecount)
      BY DEF CollectedSnapshot
    <2>1. PICK listing \in Listings(Contents(first)) : Collected(listing)
      BY DEF CollectInv
    <2> QED BY <2>1 DEF Collected
  <1> QED
    BY <1>1, <1>2, <1>3, PTL DEF CollectSpec

LEMMA NumberOrder ==
    \E R : IsWellFoundedOn(R, Nat) /\ \A x, y \in Nat : <<y, x>> \in R <=> y < x
  <1>1. IsWellFoundedOn(OpToRel(<, Nat), Nat)
    BY NatLessThanWellFounded
  <1>2. \A x, y \in Nat : <<y, x>> \in OpToRel(<, Nat) <=> y < x
    BY DEF OpToRel
  <1> QED
    BY <1>1, <1>2, Zenon

LEMMA LeastIndex ==
    ASSUME NEW T \in SUBSET Nat, T # {}
    PROVE  \E x \in T : \A y \in T : x <= y
  <1>1. PICK R : IsWellFoundedOn(R, Nat) /\ \A x, y \in Nat : <<y, x>> \in R <=> y < x
    BY NumberOrder
  <1>2. PICK x \in T : \A y \in T : ~ (<<y, x>> \in R)
    BY <1>1, WFMin
  <1>3. ASSUME NEW y \in T PROVE x <= y
    <2>1. x \in Nat /\ y \in Nat
      OBVIOUS
    <2>2. ~(y < x)
      BY <1>1, <1>2, <2>1, Zenon
    <2> QED
      BY <2>1, <2>2
  <1> QED
    BY <1>3
----------------------------------------------------------------------------
(* Nothing is refused for nothing.  The rows of a table have one listing: two
   that differ would each have its own row first, where they differ first. *)
LEMMA RowsOrdered ==
  ASSUME NEW t \in Table, NEW p \in Contents(t), NEW q \in Contents(t)
  PROVE  /\ ~Before(p, p)
         /\ ~(Before(p, q) /\ Before(q, p))
         /\ p.id = q.id => p = q
  <1>1. p \in Row /\ q \in Row
    BY ContentsFinite
  <1>2. p.value \in Nat /\ q.value \in Nat /\ p.id \in Nat /\ q.id \in Nat
    BY <1>1, StableReadAssumption DEF Row
  <1>3. p.id = q.id => p = q
    BY DEF Contents, RowOf
  <1> QED BY <1>2, <1>3 DEF Before

LEMMA OneListing ==
  ASSUME NEW t \in Table, NEW s \in Listings(Contents(t)), NEW r \in Listings(Contents(t))
  PROVE  s = r
  <1> DEFINE C == Contents(t)
             n == Cardinality(C)
  <1>1. /\ n \in Nat
        /\ s \in [1..n -> C] /\ r \in [1..n -> C]
        /\ \A a, b \in 1..n : a < b => Before(s[a], s[b]) /\ Before(r[a], r[b])
    BY ContentsFinite DEF Listings
  <1>2. RowSet(s) = C /\ RowSet(r) = C /\ DOMAIN s = 1..n /\ DOMAIN r = 1..n
    BY <1>1, ListingOfTable
  <1>3. \A p, q \in C : ~Before(p, p) /\ ~(Before(p, q) /\ Before(q, p))
    BY RowsOrdered
  <1> HIDE DEF C, n
  <1> DEFINE D == {k \in 1..n : s[k] # r[k]}
  <1>4. ASSUME D # {} PROVE FALSE
    <2>1. D \subseteq Nat
      BY <1>1
    <2>2. PICK k \in D : \A j \in D : k <= j
      BY <1>4, <2>1, LeastIndex
    <2>3. k \in 1..n /\ s[k] # r[k] /\ s[k] \in C /\ r[k] \in C
      BY <1>1, <2>2
    <2>4. PICK i \in 1..n : r[i] = s[k]
      BY <1>2, <2>3 DEF RowSet
    <2>5. PICK j \in 1..n : s[j] = r[k]
      BY <1>2, <2>3 DEF RowSet
    <2>6. k < i
      <3>1. CASE i < k
        <4>1. i \notin D
          BY <1>1, <2>2, <2>3, <2>4, <3>1
        <4>2. s[i] = s[k]
          BY <2>4, <4>1
        <4> QED BY <1>1, <1>3, <2>3, <2>4, <3>1, <4>2
      <3>2. i # k
        BY <2>3, <2>4
      <3> QED BY <1>1, <2>3, <3>1, <3>2
    <2>7. k < j
      <3>1. CASE j < k
        <4>1. j \notin D
          BY <1>1, <2>2, <2>3, <2>5, <3>1
        <4>2. r[j] = r[k]
          BY <2>5, <4>1
        <4> QED BY <1>1, <1>3, <2>3, <2>5, <3>1, <4>2
      <3>2. j # k
        BY <2>3, <2>5
      <3> QED BY <1>1, <2>3, <3>1, <3>2
    <2> QED BY <1>1, <1>3, <2>3, <2>4, <2>5, <2>6, <2>7
  <1>5. \A k \in 1..n : s[k] = r[k]
    BY <1>4
  <1> QED BY <1>1, <1>5

(* No id comes twice in a listing. *)
LEMMA ListingDistinct ==
  ASSUME NEW t \in Table, NEW s \in Listings(Contents(t)),
         NEW a \in DOMAIN s, NEW b \in DOMAIN s, a # b
  PROVE  s[a].id # s[b].id
  <1>1. s[a] \in Contents(t) /\ s[b] \in Contents(t) /\ DOMAIN s = 1..Len(s) /\ Len(s) \in Nat
    BY ListingOfTable
  <1>2. a < b \/ b < a
    BY <1>1
  <1>3. Before(s[a], s[b]) \/ Before(s[b], s[a])
    BY <1>2 DEF Listings
  <1> QED BY <1>1, <1>3, RowsOrdered

LEMMA SeqWider ==
  ASSUME NEW S, NEW T, S \subseteq T, NEW s \in Seq(S)
  PROVE  s \in Seq(T)
  <1>1. /\ Len(s) \in Nat /\ DOMAIN s = 1..Len(s) /\ s = [k \in 1..Len(s) |-> s[k]]
        /\ \A k \in 1..Len(s) : s[k] \in S
    OBVIOUS
  <1>2. s \in [1..Len(s) -> T]
    BY <1>1
  <1> QED BY <1>1, <1>2

(* While nobody writes, a page is the next rows of the one listing, and is
   accepted. *)
LEMMA QuietPage ==
  ASSUME TypeOK, count = SearchCount, NEW T, Row \subseteq T,
         NEW fetched \in Seq(T), Len(fetched) <= count,
         NEW page \in SearchRead(Len(fetched), Requested(fetched)),
         NEW t \in Listings(Contents(table)),
         \A k \in DOMAIN fetched : fetched[k].id = t[k].id
  PROVE  /\ page \in Seq(Row) /\ Len(fetched) + Len(page) <= count
         /\ Len(t) = count /\ t \in Seq(Row)
         /\ \A k \in 1..Len(page) : page[k] = t[Len(fetched) + k]
         /\ Accepts(fetched, page)
  <1> DEFINE limit == Requested(fetched)
  <1>1. table \in Table /\ count \in Nat /\ count = Cardinality(Contents(table))
    BY DEF TypeOK, SearchCount
  <1>2. t \in Seq(Row) /\ Len(t) = count /\ DOMAIN t = 1..count
    BY <1>1, ListingOfTable
  <1>3. PICK s \in Listings(Contents(table)) :
           page = [k \in 1..Smaller(limit, Len(s) - Len(fetched)) |-> s[Len(fetched) + k]]
    BY DEF SearchRead
  <1>4. s = t
    BY <1>1, OneListing
  <1> DEFINE m == Smaller(limit, count - Len(fetched))
  <1>5. page = [k \in 1..m |-> t[Len(fetched) + k]]
    BY <1>2, <1>3, <1>4
  <1>6. /\ m \in Nat /\ Len(fetched) + m <= count /\ Len(fetched) \in Nat
        /\ m = IF count = 0 THEN 0 ELSE Requested(fetched)
    BY <1>1, StableReadAssumption DEF Requested, Smaller
  <1> HIDE DEF m, limit
  <1>7. \A k \in 1..m : t[Len(fetched) + k] \in Row
    <2> SUFFICES ASSUME NEW k \in 1..m PROVE t[Len(fetched) + k] \in Row
      OBVIOUS
    <2>1. Len(fetched) + k \in 1..Len(t)
      BY <1>2, <1>6
    <2> QED BY <1>2, <2>1
  <1>8. page \in Seq(Row) /\ Len(page) = m /\ \A k \in 1..m : page[k] = t[Len(fetched) + k]
    BY <1>5, <1>6, <1>7
  <1>9. page \in Seq(T)
    BY <1>8, SeqWider
  <1>10. /\ fetched \o page \in Seq(T) /\ Len(fetched \o page) = Len(fetched) + m
         /\ \A k \in DOMAIN (fetched \o page) :
               (fetched \o page)[k] = IF k <= Len(fetched) THEN fetched[k] ELSE page[k - Len(fetched)]
    <2>1. Len(page) = m /\ DOMAIN (fetched \o page) = 1..(Len(fetched) + m)
      <3>1. Len(fetched \o page) = Len(fetched) + Len(page) /\ fetched \o page \in Seq(T)
        BY <1>9, ConcatProperties
      <3> QED BY <1>6, <1>8, <3>1
    <2> QED BY <1>9, <2>1, ConcatProperties
  <1>11. \A k \in DOMAIN (fetched \o page) : (fetched \o page)[k].id = t[k].id /\ k \in DOMAIN t
    <2> SUFFICES ASSUME NEW k \in DOMAIN (fetched \o page)
                 PROVE  (fetched \o page)[k].id = t[k].id /\ k \in DOMAIN t
      OBVIOUS
    <2>1. k \in 1..(Len(fetched) + m)
      BY <1>10
    <2>2. k \in DOMAIN t
      BY <1>2, <1>6, <2>1
    <2>3. CASE k <= Len(fetched)
      <3>1. k \in DOMAIN fetched
        BY <1>6, <2>1, <2>3
      <3> QED BY <1>10, <2>2, <2>3, <3>1
    <2>4. CASE ~(k <= Len(fetched))
      <3>1. k - Len(fetched) \in 1..m /\ Len(fetched) + (k - Len(fetched)) = k
        BY <1>6, <2>1, <2>4
      <3>2. page[k - Len(fetched)] = t[k]
        BY <1>8, <3>1
      <3> QED BY <1>10, <2>2, <2>4, <3>2
    <2> QED BY <2>3, <2>4
  <1>12. Distinct(fetched \o page)
    BY <1>1, <1>11, ListingDistinct DEF Distinct
  <1>13. Accepts(fetched, page)
    BY <1>6, <1>8, <1>12 DEF Accepts
  <1> QED BY <1>2, <1>6, <1>8, <1>13

LEMMA QuietPages ==
  ASSUME TypeOK, QuietReadInv, edits = began,
         stage \in {"fetching", "recounting", "refetching", "returned"},
         NEW t \in Listings(Contents(table))
  PROVE  /\ \A k \in DOMAIN rows : rows[k].id = t[k].id /\ rows[k] = t[k]
         /\ \A k \in DOMAIN anchors : anchors[k].id = t[k].id /\ anchors[k] = Anchor(t[k])
         /\ count = SearchCount
  BY DEF QuietReadInv, Anchor

(* Every page of either pass comes from a listing. *)
LEMMA PageHasListing ==
  ASSUME NEW offset, NEW limit, NEW page \in SearchRead(offset, limit)
  PROVE  \E t \in Listings(Contents(table)) : TRUE
  BY DEF SearchRead

LEMMA NextQuietReadInv ==
  ASSUME TypeOK, ReadInv, QuietReadInv, [Next]_vars
  PROVE  QuietReadInv'
  <1>0. TypeOK'
    BY NextTypeOK
  <1>t. /\ table \in Table /\ edits \in Nat /\ began \in Nat /\ count \in Nat /\ began <= edits
        /\ rows \in Seq(Row) /\ anchors \in Seq([id : Ids, date : Nat])
        /\ IsFiniteSet(Contents(table)) /\ Cardinality(Contents(table)) \in Nat
        /\ SearchCount \in Nat
    BY ContentsFinite DEF TypeOK, QuietReadInv, SearchCount
  <1>1. CASE CountRows
    <2>1. /\ rows' = <<>> /\ anchors' = <<>> /\ began' = edits /\ edits' = edits /\ table' = table
          /\ count' = SearchCount /\ stage' \in {"too_large", "fetching"}
      BY <1>1 DEF CountRows, source
    <2> QED BY <1>t, <2>1 DEF QuietReadInv, SearchCount, Contents, Matching, RowOf
  <1>2. CASE FetchRows
    <2>1. /\ UNCHANGED <<table, edits, count, anchors, began, atRecount>>
          /\ stage = "fetching" /\ stage' \in {"fetching", "recounting"}
      BY <1>2 DEF FetchRows, source
    <2>2. ASSUME edits = began, NEW t \in Listings(Contents(table))
          PROVE  \A k \in DOMAIN rows' : rows'[k] = t[k]
      <3>1. PICK page \in SearchRead(Len(rows), Requested(rows)) : rows' = rows \o page
        BY <1>2 DEF FetchRows
      <3>2. Len(rows) <= count
        BY DEF ReadInv
      <3>3. /\ page \in Seq(Row) /\ \A k \in 1..Len(page) : page[k] = t[Len(rows) + k]
        BY <1>t, <2>1, <2>2, <3>1, <3>2, QuietPages, QuietPage
      <3>4. \A k \in DOMAIN rows : rows[k] = t[k]
        BY <2>1, <2>2, QuietPages
      <3>5. ASSUME NEW k \in DOMAIN rows' PROVE rows'[k] = t[k]
        <4>1. k \in 1..(Len(rows) + Len(page)) /\ Len(rows) \in Nat /\ Len(page) \in Nat
          BY <1>t, <3>1, <3>3
        <4>2. rows'[k] = IF k <= Len(rows) THEN rows[k] ELSE page[k - Len(rows)]
          BY <1>t, <3>1, <3>3, <4>1
        <4>3. CASE k <= Len(rows)
          BY <3>4, <4>1, <4>2, <4>3
        <4>4. CASE ~(k <= Len(rows))
          <5>1. k - Len(rows) \in 1..Len(page) /\ Len(rows) + (k - Len(rows)) = k
            BY <4>1, <4>4
          <5> QED BY <3>3, <4>2, <4>4, <5>1
        <4> QED BY <4>3, <4>4
      <3> QED BY <3>5
    <2>3. edits = began => count = SearchCount /\ Len(anchors) <= count
      BY <2>1 DEF QuietReadInv
    <2>4. edits = began => \A t \in Listings(Contents(table)) : \A k \in DOMAIN anchors : anchors[k] = Anchor(t[k])
      BY <2>1 DEF QuietReadInv
    <2>5. /\ Contents(table)' = Contents(table) /\ SearchCount' = SearchCount
      BY <2>1 DEF Contents, Matching, RowOf, SearchCount
    <2> QED BY <1>t, <2>1, <2>2, <2>3, <2>4, <2>5 DEF QuietReadInv, Listings
  <1>3. CASE RecountRows
    <2>1. /\ UNCHANGED <<table, edits, count, rows, anchors, began>> /\ stage = "recounting"
          /\ stage' = IF SearchCount = count THEN "refetching" ELSE "failed"
          /\ atRecount' = table
      BY <1>3 DEF RecountRows, source
    <2>2. edits = began => SearchCount = count
      BY <2>1 DEF QuietReadInv
    <2>3. edits = began => Len(anchors) <= count /\ \A t \in Listings(Contents(table)) :
              /\ \A k \in DOMAIN rows : rows[k] = t[k]
              /\ \A k \in DOMAIN anchors : anchors[k] = Anchor(t[k])
      BY <2>1 DEF QuietReadInv
    <2>4. Contents(table)' = Contents(table) /\ SearchCount' = SearchCount
      BY <2>1 DEF Contents, Matching, RowOf, SearchCount
    <2> QED BY <1>t, <2>1, <2>2, <2>3, <2>4 DEF QuietReadInv, Listings
  <1>4. CASE FetchAnchors
    <2>1. /\ UNCHANGED <<table, edits, count, rows, began, atRecount>> /\ stage = "refetching"
          /\ stage' = IF Len(anchors') < count THEN "refetching"
                      ELSE IF anchors' = Anchors(rows) THEN "returned" ELSE "failed"
      BY <1>4 DEF FetchAnchors, source
    <2>2. PICK page \in SearchRead(Len(anchors), Requested(anchors)) :
             anchors' = anchors \o Anchors(page)
      BY <1>4 DEF FetchAnchors
    <2>3. ASSUME edits = began, NEW t \in Listings(Contents(table))
          PROVE  /\ Len(anchors') <= count
                 /\ \A k \in DOMAIN anchors' : anchors'[k] = Anchor(t[k])
                 /\ stage' # "failed"
      <3> DEFINE A == [id : Ids, date : Nat]
      <3>1. /\ Len(anchors) <= count /\ count = SearchCount
            /\ \A k \in DOMAIN anchors : anchors[k] = Anchor(t[k]) /\ anchors[k].id = t[k].id
            /\ \A k \in DOMAIN rows : rows[k] = t[k]
        BY <2>1, <2>3, QuietPages DEF QuietReadInv
      <3>2. anchors \in Seq(Row \cup A) /\ Row \subseteq Row \cup A
        <4> HIDE DEF A
        <4>1. anchors \in Seq(A)
          BY <1>t DEF A
        <4> QED BY <4>1, SeqWider
      <3>3. /\ page \in Seq(Row) /\ Len(anchors) + Len(page) <= count
            /\ \A k \in 1..Len(page) : page[k] = t[Len(anchors) + k]
            /\ Len(t) = count /\ t \in Seq(Row)
        <4> HIDE DEF A
        <4> QED BY <2>2, <2>3, <3>1, <3>2, QuietPage
      <3>4. /\ Anchors(page) \in Seq(A) /\ Len(Anchors(page)) = Len(page)
            /\ \A k \in 1..Len(page) : Anchors(page)[k] = Anchor(page[k])
        <4>1. Anchors(page) \in Seq(A) /\ DOMAIN Anchors(page) = DOMAIN page
          BY <3>3, AnchorsType
        <4>2. \A k \in DOMAIN page : Anchors(page)[k] = Anchor(page[k])
          BY DEF Anchors
        <4> QED BY <3>3, <4>1, <4>2
      <3>5. /\ Len(anchors') = Len(anchors) + Len(page) /\ DOMAIN anchors' = 1..Len(anchors')
            /\ \A k \in DOMAIN anchors' : anchors'[k] = Anchor(t[k])
        <4>1. /\ Len(anchors') = Len(anchors) + Len(page) /\ DOMAIN anchors' = 1..Len(anchors')
              /\ Len(anchors) \in Nat /\ Len(page) \in Nat
          <5> HIDE DEF A
          <5>1. anchors \in Seq(A)
            BY <1>t DEF A
          <5>2. anchors' \in Seq(A) /\ Len(anchors') = Len(anchors) + Len(Anchors(page))
            BY <2>2, <3>4, <5>1, ConcatProperties
          <5> QED BY <3>3, <3>4, <5>1, <5>2
        <4>2. \A k \in DOMAIN anchors' :
                 anchors'[k] = IF k <= Len(anchors) THEN anchors[k]
                                                    ELSE Anchors(page)[k - Len(anchors)]
          <5> HIDE DEF A
          <5>1. anchors \in Seq(A)
            BY <1>t DEF A
          <5>2. Len(Anchors(page)) = Len(page)
            BY <3>4
          <5> QED BY <2>2, <3>4, <4>1, <5>1, <5>2, ConcatProperties
        <4>3. ASSUME NEW k \in DOMAIN anchors' PROVE anchors'[k] = Anchor(t[k])
          <5>1. k \in 1..(Len(anchors) + Len(page))
            BY <4>1
          <5>2. CASE k <= Len(anchors)
            <6>1. k \in DOMAIN anchors
              BY <1>t, <4>1, <5>1, <5>2
            <6> QED BY <3>1, <4>2, <5>2, <6>1
          <5>3. CASE ~(k <= Len(anchors))
            <6>1. k - Len(anchors) \in 1..Len(page) /\ Len(anchors) + (k - Len(anchors)) = k
              BY <4>1, <5>1, <5>3
            <6> QED BY <3>3, <3>4, <4>2, <5>3, <6>1
          <5> QED BY <5>2, <5>3
        <4> QED BY <4>1, <4>3
      <3>6. Len(anchors') <= count
        BY <3>3, <3>5
      <3>7. ASSUME ~(Len(anchors') < count) PROVE anchors' = Anchors(rows)
        <4>1. Len(rows) = count
          BY <2>1 DEF ReadInv
        <4>2. DOMAIN Anchors(rows) = 1..count /\ \A k \in 1..count : Anchors(rows)[k] = Anchor(rows[k])
          BY <1>t, <4>1 DEF Anchors
        <4>3. Len(anchors') = count
          <5>1. Len(anchors') \in Nat
            BY <1>0 DEF TypeOK
          <5> QED BY <1>t, <3>6, <3>7, <5>1
        <4>4. \A k \in 1..count : anchors'[k] = Anchors(rows)[k]
          BY <1>t, <3>1, <3>5, <4>1, <4>2, <4>3
        <4>5. anchors' \in Seq(A) /\ Anchors(rows) \in Seq(A)
          BY <1>0, <1>t, AnchorsType DEF TypeOK
        <4>6. DOMAIN anchors' = 1..count
          BY <3>5, <4>3
        <4> HIDE DEF A
        <4>7. Len(anchors') = Len(Anchors(rows))
          BY <1>t, <4>2, <4>3, <4>5
        <4> QED BY <4>3, <4>4, <4>5, <4>7, SeqEqual, Zenon
      <3> QED BY <2>1, <3>5, <3>6, <3>7
    <2>4. \E t \in Listings(Contents(table)) : TRUE
      BY <2>2, PageHasListing
    <2>5. edits = began => /\ stage' # "failed" /\ Len(anchors') <= count /\ count = SearchCount
                           /\ atRecount = table
                           /\ \A t \in Listings(Contents(table)) :
                                \A k \in DOMAIN rows : rows[k] = t[k]
      BY <2>1, <2>3, <2>4 DEF QuietReadInv
    <2>6. Contents(table)' = Contents(table) /\ SearchCount' = SearchCount
      BY <2>1 DEF Contents, Matching, RowOf, SearchCount
    <2>7. edits = began => \A t \in Listings(Contents(table)) : \A k \in DOMAIN anchors' : anchors'[k] = Anchor(t[k])
      BY <2>3
    <2> QED BY <1>t, <2>1, <2>5, <2>6, <2>7 DEF QuietReadInv, Listings
  <1>5. CASE FetchFails
    <2>1. UNCHANGED <<table, edits, count, rows, anchors, began, atRecount>> /\ stage' = "failed"
      BY <1>5 DEF FetchFails, source
    <2>2. ASSUME edits = began PROVE FALSE
      <3>1. CASE stage = "fetching" /\ \E page \in SearchRead(Len(rows), Requested(rows)) : ~Accepts(rows, page)
        <4>1. PICK page \in SearchRead(Len(rows), Requested(rows)) : ~Accepts(rows, page)
          BY <3>1
        <4>2. PICK t \in Listings(Contents(table)) : TRUE
          BY <4>1, PageHasListing
        <4>3. Len(rows) <= count
          BY DEF ReadInv
        <4> QED BY <1>t, <2>2, <3>1, <4>1, <4>3, QuietPages, QuietPage
      <3>2. CASE stage = "refetching" /\ \E page \in SearchRead(Len(anchors), Requested(anchors)) : ~Accepts(anchors, page)
        <4> DEFINE A == [id : Ids, date : Nat]
        <4>1. PICK page \in SearchRead(Len(anchors), Requested(anchors)) : ~Accepts(anchors, page)
          BY <3>2
        <4>2. PICK t \in Listings(Contents(table)) : TRUE
          BY <4>1, PageHasListing
        <4>3. Len(anchors) <= count
          BY <2>2, <3>2 DEF QuietReadInv
        <4>4. anchors \in Seq(Row \cup A) /\ Row \subseteq Row \cup A
          <5> HIDE DEF A
          <5>1. anchors \in Seq(A)
            BY <1>t DEF A
          <5> QED BY <5>1, SeqWider
        <4>5. count = SearchCount /\ \A k \in DOMAIN anchors : anchors[k].id = t[k].id
          BY <2>2, <3>2, QuietPages
        <4> HIDE DEF A
        <4> QED BY <4>1, <4>3, <4>4, <4>5, QuietPage
      <3> QED BY <1>5, <3>1, <3>2 DEF FetchFails
    <2> QED BY <2>1, <2>2, <1>t DEF QuietReadInv
  <1>6. CASE Edits
    <2>1. edits' = edits + 1 /\ UNCHANGED read
      BY <1>6 DEF Edits, Edit
    <2> QED BY <1>t, <2>1 DEF QuietReadInv, read
  <1>7. CASE CallRaises
    <2>1. UNCHANGED <<edits, began>> /\ stage' = "raised"
      BY <1>7 DEF CallRaises, source
    <2> QED BY <1>t, <2>1 DEF QuietReadInv
  <1>8. CASE UNCHANGED vars
    BY <1>8 DEF vars, QuietReadInv, Contents, Matching, RowOf, SearchCount, Listings, Anchor
  <1> QED
    BY <1>1, <1>2, <1>3, <1>4, <1>5, <1>6, <1>7, <1>8 DEF Next, Read

\* QuietReadSucceeds: unless a call to Odoo raised, a read is refused only if
\* somebody wrote after it began.
THEOREM QuietReadHolds == Spec => []QuietReadSucceeds
  <1>1. Init => QuietReadInv
    BY DEF Init, QuietReadInv
  <1>2. QuietReadInv => QuietReadSucceeds
    BY DEF QuietReadInv, QuietReadSucceeds
  <1>3. TypeOK /\ ReadInv /\ QuietReadInv /\ [Next]_vars => QuietReadInv'
    BY NextQuietReadInv
  <1> QED
    BY <1>1, <1>2, <1>3, TypeCorrect, ReadInvariant, PTL DEF Spec

(* A page is full if there is another one. *)
LEMMA PageFull ==
  ASSUME NEW s \in Seq(Row), Offset \in Nat, Offset <= Len(s)
  PROVE  /\ Len(Page(s).items) <= Limit
         /\ Page(s).next # NoCursor => Page(s).items # <<>>
  <1> DEFINE end == Smaller(Offset + Limit, Len(s))
             from == Offset + 1
  <1>1. Limit \in Nat \ {0} /\ Len(s) \in Nat
    BY CollectPagesAssumption
  <1>2. end \in Nat /\ end <= Len(s) /\ end <= Offset + Limit /\ Offset <= end
        /\ (end < Len(s) => end = Offset + Limit)
    BY <1>1 DEF Smaller
  <1>3. Page(s).items = SubSeq(s, from, end) /\ (Page(s).next # NoCursor => end < Len(s))
    BY DEF Page
  <1> HIDE DEF end
  <1>4. SubSeq(s, from, end) = [k \in 1..(end - Offset) |-> s[Offset + k]]
    BY <1>1, <1>2
  <1>5. Len(SubSeq(s, from, end)) = end - Offset
    BY <1>2, <1>4
  <1>6. end < Len(s) => Len(SubSeq(s, from, end)) # 0
    BY <1>1, <1>2, <1>5
  <1> QED BY <1>1, <1>2, <1>3, <1>5, <1>6

(* The page that continues the items of the listing it is cut from is well
   formed. *)
LEMMA QuietPageAccepted ==
  ASSUME NEW t \in Table, NEW s \in Listings(Contents(t)),
         items \in Seq(Row), Len(items) <= Len(s), \A k \in 1..Len(items) : items[k] = s[k],
         Offset = Len(items), total \in {NoTotal, Len(s)}, Len(s) <= Cap,
         \A c \in seen : c.offset \in 0..Len(items)
  PROVE  WellFormed(Page(s))
  <1> DEFINE page == Page(s)
             all == items \o page.items
  <1>1. s \in Seq(Row) /\ Len(s) \in Nat /\ DOMAIN s = 1..Len(s) /\ Len(items) \in Nat /\ Cap \in Nat
    BY ListingOfTable, CollectPagesAssumption
  <1>2. /\ page.total = Len(s) /\ page.items \in Seq(Row)
        /\ Len(items) + Len(page.items) <= Len(s)
        /\ \A k \in 1..Len(page.items) : page.items[k] = s[Len(items) + k]
        /\ page.next = IF Len(items) + Len(page.items) < Len(s)
                         THEN [bound |-> Fingerprint(s), offset |-> Len(items) + Len(page.items)]
                         ELSE NoCursor
    BY <1>1, PageCut
  <1>3. Len(page.items) <= Limit /\ (page.next # NoCursor => page.items # <<>>)
    BY <1>1, PageFull
  <1> HIDE DEF page
  <1>4. /\ all \in Seq(Row) /\ Len(all) = Len(items) + Len(page.items)
        /\ \A k \in 1..Len(items) + Len(page.items) :
              all[k] = IF k <= Len(items) THEN items[k] ELSE page.items[k - Len(items)]
    BY <1>2, ConcatProperties
  <1>5. ASSUME NEW k \in DOMAIN all PROVE k \in DOMAIN s /\ all[k] = s[k]
    <2>1. k \in 1..Len(all) /\ Len(page.items) \in Nat /\ k \in DOMAIN s
      BY <1>1, <1>2, <1>4
    <2>2. CASE k <= Len(items)
      BY <1>4, <2>1, <2>2
    <2>3. CASE ~(k <= Len(items))
      <3>1. k - Len(items) \in 1..Len(page.items) /\ Len(items) + (k - Len(items)) = k
        BY <1>1, <1>4, <2>1, <2>3
      <3> QED BY <1>2, <1>4, <2>1, <2>3, <3>1
    <2> QED BY <2>2, <2>3
  <1>6. Distinct(all)
    BY <1>5, ListingDistinct DEF Distinct
  <1>7. page.next # NoCursor => page.items # <<>> /\ page.next \notin seen
    <2> SUFFICES ASSUME page.next # NoCursor PROVE page.next \notin seen
      BY <1>3
    <2>1. page.next.offset = Len(items) + Len(page.items) /\ page.items # <<>>
      BY <1>2, <1>3
    <2>2. Len(page.items) \in Nat /\ Len(page.items) # 0
      BY <1>2, <2>1
    <2>3. page.next.offset > Len(items)
      BY <1>1, <2>1, <2>2
    <2> QED BY <1>1, <2>3
  <1>8. Len(all) <= Cap /\ Len(all) <= page.total /\ (page.next = NoCursor => Len(all) = page.total)
    <2>1. Len(page.items) \in Nat
      BY <1>2
    <2>2. page.next = NoCursor => ~(Len(items) + Len(page.items) < Len(s))
      <3>1. [bound |-> Fingerprint(s), offset |-> Len(items) + Len(page.items)] # NoCursor
        BY <1>1, <2>1, CursorSet
      <3> QED BY <1>2, <3>1
    <2>3. Len(all) = Len(items) + Len(page.items) /\ page.total = Len(s)
      BY <1>2, <1>4
    <2>4. Len(items) + Len(page.items) <= Len(s) /\ Len(s) <= Cap
      BY <1>2
    <2> HIDE DEF all
    <2>5. Len(all) <= Cap /\ Len(all) <= page.total
      BY <1>1, <2>1, <2>3, <2>4
    <2>6. ASSUME page.next = NoCursor PROVE Len(all) = page.total
      <3>1. ~(Len(items) + Len(page.items) < Len(s))
        BY <2>2, <2>6
      <3>2. Len(items) + Len(page.items) = Len(s)
        <4>1. \A a, b, c \in Nat : a + b <= c /\ ~(a + b < c) => a + b = c
          OBVIOUS
        <4>2. Len(items) \in Nat /\ Len(s) \in Nat
          BY <1>1
        <4> QED BY <2>1, <2>4, <3>1, <4>1, <4>2, Zenon
      <3> QED BY <2>3, <3>2
    <2> QED BY <2>5, <2>6
  <1>9. total \in {NoTotal, page.total}
    BY <1>2
  <1> QED BY <1>3, <1>6, <1>7, <1>8, <1>9 DEF WellFormed, all, page

(* A page that is refused was read after somebody wrote. *)
LEMMA QuietPageTaken ==
  ASSUME TypeOK, ReadInv, QuietReadInv, CollectInv, QuietCollectInv,
         outcome = "running", stage = "returned", edits = since,
         NEW s \in Listings(RowSet(rows))
  PROVE  /\ atRecount = table
         /\ \/ Accepted(s)
            \/ CursorMatches(s) /\ total = NoTotal /\ Len(s) > Cap
  <1>1. /\ edits \in Nat /\ began \in Nat /\ table \in Table /\ since <= began /\ began <= edits
    BY DEF TypeOK, QuietReadInv, QuietCollectInv
  <1>2. edits = began /\ atRecount = table
    <2>1. edits = began
      BY <1>1
    <2> QED BY <2>1 DEF QuietReadInv
  <1>3. RowSet(rows) = Contents(table)
    BY <1>2, PassesAgree
  <1>4. s \in Listings(Contents(table)) /\ s \in Seq(Row) /\ Len(s) \in Nat
    BY <1>1, <1>3, ListingOfTable
  <1>5. \A c \in seen : c.offset \in 0..Len(items)
    BY DEF QuietCollectInv
  <1>6. CASE total = NoTotal
    <2>1. items = <<>> /\ cursor = NoCursor /\ Offset = 0
      BY <1>6 DEF CollectInv, Offset
    <2>2. CursorMatches(s)
      BY <1>4, <2>1 DEF CursorMatches
    <2>3. CASE Len(s) > Cap
      BY <1>2, <1>6, <2>2, <2>3
    <2>4. CASE ~(Len(s) > Cap)
      <3>1. Len(s) <= Cap
        BY <1>4, <2>4, CollectPagesAssumption
      <3>2. items \in Seq(Row) /\ Len(items) = 0
        BY <2>1
      <3>3. WellFormed(Page(s))
        BY <1>1, <1>4, <1>5, <1>6, <2>1, <3>1, <3>2, QuietPageAccepted
      <3> QED BY <1>2, <2>2, <3>1, <3>3 DEF Accepted
    <2> QED BY <2>3, <2>4
  <1>7. CASE total # NoTotal
    <2>1. first = table /\ total <= Cap
      BY <1>7 DEF QuietCollectInv
    <2>2. PICK listing \in Listings(Contents(first)) : Collected(listing)
      BY <1>7 DEF CollectInv
    <2>3. listing = s
      BY <1>1, <1>4, <2>1, <2>2, OneListing
    <2>4. /\ total = Len(s) /\ items \in Seq(Row) /\ Len(items) <= Len(s)
          /\ \A k \in 1..Len(items) : items[k] = s[k]
          /\ cursor = [bound |-> Fingerprint(s), offset |-> Len(items)]
      BY <2>2, <2>3 DEF Collected
    <2>5. Offset = Len(items)
      <3>1. Len(items) \in Nat
        BY <2>4
      <3> QED BY <1>4, <2>4, <3>1, CursorSet DEF Offset
    <2>6. CursorMatches(s)
      BY <2>4, <2>5 DEF CursorMatches
    <2>7. WellFormed(Page(s))
      BY <1>1, <1>4, <1>5, <2>1, <2>4, <2>5, QuietPageAccepted
    <2> QED BY <1>2, <1>7, <2>6, <2>7 DEF Accepted
  <1> QED BY <1>6, <1>7

LEMMA QuietCollectStep ==
  ASSUME TypeOK, ReadInv, QuietReadInv, CollectInv, QuietCollectInv,
         [CollectNext]_<<vars, collector>>
  PROVE  QuietReadInv' /\ QuietCollectInv'
  <1>t. /\ edits \in Nat /\ began \in Nat /\ began <= edits /\ since \in 0..edits
        /\ items \in Seq(Row) /\ Len(items) \in Nat
    <2>1. items \in Seq(Row)
      <3>1. CASE total = NoTotal
        BY <3>1 DEF CollectInv
      <3>2. CASE total # NoTotal
        BY <3>2 DEF CollectInv, Collected
      <3> QED BY <3>1, <3>2
    <2> QED BY <2>1 DEF TypeOK, QuietReadInv, QuietCollectInv
  <1>1. CASE ReadOn
    <2>1. /\ Read /\ UNCHANGED <<outcome, seen, items, total, first>> /\ outcome = "running"
          /\ since' = IF total = NoTotal /\ stage = "idle" THEN edits ELSE since
      BY <1>1 DEF ReadOn
    <2>2. QuietReadInv'
      BY <2>1, NextQuietReadInv DEF Next
    <2>3. UNCHANGED <<table, edits>> /\ (stage = "raised" => stage' = "raised")
      BY <2>1 DEF Read, CountRows, FetchRows, RecountRows, FetchAnchors, FetchFails, CallRaises,
                  source
    <2>4. stage' # "raised" => since' <= began'
      <3>1. CASE stage = "idle"
        <4>1. CASE CountRows
          BY <1>t, <2>1, <4>1 DEF CountRows
        <4>2. CASE CallRaises
          BY <4>2 DEF CallRaises
        <4> QED BY <2>1, <3>1, <4>1, <4>2 DEF Read, FetchRows, RecountRows, FetchAnchors, FetchFails
      <3>2. CASE stage # "idle"
        <4>1. began' = began
          BY <2>1, <3>2 DEF Read, CountRows, FetchRows, RecountRows, FetchAnchors, FetchFails, CallRaises
        <4> QED BY <2>1, <2>3, <3>2, <4>1 DEF QuietCollectInv
      <3> QED BY <3>1, <3>2
    <2>5. since' \in 0..edits' /\ (edits' = since' /\ total # NoTotal => first = table)
      BY <1>t, <2>1, <2>3 DEF QuietCollectInv
    <2> QED BY <2>1, <2>2, <2>3, <2>4, <2>5 DEF QuietCollectInv
  <1>2. CASE ReadRaises
    <2>1. /\ UNCHANGED <<vars, cursor, seen, items, total, since, first>> /\ outcome' = stage
      BY <1>2 DEF ReadRaises
    <2>2. QuietReadInv'
      BY <2>1, NextQuietReadInv
    <2>3. stage = "failed" => since < edits
      BY <1>t DEF QuietReadInv, QuietCollectInv
    <2> QED BY <2>1, <2>2, <2>3 DEF QuietCollectInv, vars
  <1>3. CASE RefusePage
    <2>1. /\ UNCHANGED <<vars, cursor, seen, items, total, since, first>>
          /\ outcome = "running" /\ stage = "returned"
      BY <1>3 DEF RefusePage
    <2>2. PICK s \in Listings(RowSet(rows)) :
             /\ ~Accepted(s)
             /\ outcome' = IF CursorMatches(s) /\ total = NoTotal /\ Len(s) > Cap
                             THEN "too_large" ELSE "failed"
      BY <1>3 DEF RefusePage
    <2>3. QuietReadInv'
      BY <2>1, NextQuietReadInv
    <2>4. outcome' = "failed" => edits # since
      BY <2>1, <2>2, QuietPageTaken
    <2>5. outcome' = "failed" => since < edits
      BY <1>t, <2>4
    <2> QED BY <2>1, <2>3, <2>5 DEF QuietCollectInv, vars
  <1>4. CASE TakePage
    <2>1. /\ outcome = "running" /\ stage = "returned" /\ stage' \in {"idle", "returned"}
          /\ UNCHANGED <<table, edits, count, rows, anchors, began, atRecount, since>>
          /\ first' = IF total = NoTotal THEN atRecount ELSE first
          /\ outcome' \in {"running", "complete"}
      BY <1>4 DEF TakePage, source
    <2>2. PICK s \in Listings(RowSet(rows)) :
             /\ Accepted(s) /\ items' = items \o Page(s).items /\ total' = Page(s).total
             /\ seen' = seen \cup ({Page(s).next} \ {NoCursor})
      BY <1>4 DEF TakePage
    <2>3. QuietReadInv'
      BY <1>t, <2>1 DEF QuietReadInv, SearchCount, Contents, Matching, RowOf, Listings, Anchor
    <2>4. s \in Listings(Contents(atRecount)) /\ atRecount \in Table
      BY <2>1, <2>2, PassesAgree DEF TypeOK
    <2>5. s \in Seq(Row) /\ Len(s) \in Nat
      BY <2>4, ListingOfTable
    <2>6. Offset = Len(items) /\ Offset <= Len(s)
      <3>1. CursorMatches(s)
        BY <2>2 DEF Accepted
      <3>2. CASE total = NoTotal
        BY <3>1, <3>2 DEF CollectInv, Offset, CursorMatches
      <3>3. CASE total # NoTotal
        <4>1. PICK listing \in Listings(Contents(first)) : Collected(listing)
          BY <3>3 DEF CollectInv
        <4>2. cursor = [bound |-> Fingerprint(listing), offset |-> Len(items)]
          BY <2>1, <4>1 DEF Collected
        <4>3. listing \in Seq(Row)
          BY <4>1, ListingOfTable DEF CollectInv
        <4>4. cursor # NoCursor
          BY <1>t, <4>2, <4>3, CursorSet
        <4> QED BY <3>1, <4>2, <4>4 DEF Offset, CursorMatches
      <3> QED BY <3>2, <3>3
    <2>7. /\ Page(s).total = Len(s) /\ Page(s).items \in Seq(Row)
          /\ Page(s).next = IF Len(items) + Len(Page(s).items) < Len(s)
                              THEN [bound |-> Fingerprint(s),
                                    offset |-> Len(items) + Len(Page(s).items)]
                              ELSE NoCursor
      BY <1>t, <2>5, <2>6, PageCut
    <2>8. Len(items') = Len(items) + Len(Page(s).items) /\ Len(Page(s).items) \in Nat
      BY <1>t, <2>2, <2>7
    <2>9. \A c \in seen' : c.offset \in 0..Len(items')
      <3>1. \A c \in seen : c.offset \in 0..Len(items')
        BY <1>t, <2>8 DEF QuietCollectInv
      <3>2. Page(s).next # NoCursor => Page(s).next.offset = Len(items')
        BY <2>7, <2>8
      <3>3. Len(items') \in 0..Len(items')
        BY <1>t, <2>8
      <3> QED BY <2>2, <3>1, <3>2, <3>3
    <2>10. total' # NoTotal /\ total' <= Cap
      <3>1. total' = Len(s) /\ total' # NoTotal
        BY <2>2, <2>5, <2>7, CollectPagesAssumption
      <3>2. CASE total = NoTotal
        BY <2>2, <3>1, <3>2 DEF Accepted
      <3>3. CASE total # NoTotal
        <4>1. total = Page(s).total
          BY <2>2, <3>3 DEF Accepted, WellFormed
        <4> QED BY <2>2, <3>1, <3>3, <4>1 DEF QuietCollectInv
      <3> QED BY <3>2, <3>3
    <2>11. edits = since => first' = table
      BY <2>1, <2>2, QuietPageTaken DEF QuietCollectInv
    <2>12. stage' # "raised" => since <= began
      BY <2>1 DEF QuietCollectInv
    <2> QED BY <1>t, <2>1, <2>3, <2>9, <2>10, <2>11, <2>12 DEF QuietCollectInv
  <1>5. CASE Edits /\ UNCHANGED collector
    <2>1. QuietReadInv'
      BY <1>5, NextQuietReadInv DEF Next
    <2>2. edits' = edits + 1 /\ UNCHANGED <<stage, began>>
      BY <1>5 DEF Edits, Edit, read
    <2> QED BY <1>5, <1>t, <2>1, <2>2 DEF QuietCollectInv, collector
  <1>6. CASE UNCHANGED <<vars, collector>>
    <2>1. QuietReadInv'
      BY <1>6, NextQuietReadInv
    <2> QED BY <1>6, <2>1 DEF QuietCollectInv, vars, collector
  <1> QED BY <1>1, <1>2, <1>3, <1>4, <1>5, <1>6 DEF CollectNext

\* QuietCollectionSucceeds: a collection fails only if somebody wrote to the
\* model after it began, and a read of one of its pages only if after that read
\* began; _collect_pages and _stable_rows refuse nothing for nothing.
THEOREM QuietCollectionHolds == CollectSpec => []QuietCollectionSucceeds
  <1>1. CollectInit => TypeOK /\ ReadInv /\ CollectInv /\ QuietReadInv /\ QuietCollectInv
    <2>1. CollectInit => TypeOK /\ ReadInv
      BY DEF CollectInit, Init, TypeOK, Table, Stages, ReadInv, SeenIn, Distinct
    <2>2. CollectInit => CollectInv
      BY <2>1 DEF CollectInit, CollectInv, TypeOK
    <2>3. CollectInit => QuietReadInv /\ QuietCollectInv
      BY DEF CollectInit, Init, QuietReadInv, QuietCollectInv
    <2> QED BY <2>1, <2>2, <2>3
  <1>2. TypeOK /\ ReadInv /\ CollectInv /\ QuietReadInv /\ QuietCollectInv
          /\ [CollectNext]_<<vars, collector>>
          => (TypeOK /\ ReadInv /\ CollectInv /\ QuietReadInv /\ QuietCollectInv)'
    BY CollectRead, CollectStep, QuietCollectStep
  <1>3. QuietReadInv /\ QuietCollectInv => QuietCollectionSucceeds
    BY DEF QuietReadInv, QuietCollectInv, QuietCollectionSucceeds, QuietReadSucceeds
  <1> QED
    BY <1>1, <1>2, <1>3, PTL DEF CollectSpec
----------------------------------------------------------------------------
\* Finite sets of numbers, and rows in order.

LEMMA LeastNumber ==
    ASSUME NEW T \in SUBSET Nat, T # {}
    PROVE  \E x \in T : \A y \in T : x <= y
  <1>1. PICK R : IsWellFoundedOn(R, Nat) /\ \A x, y \in Nat : <<y, x>> \in R <=> y < x
    BY NumberOrder
  <1>2. PICK x \in T : \A y \in T : ~ (<<y, x>> \in R)
    BY <1>1, WFMin
  <1>3. ASSUME NEW y \in T PROVE x <= y
    <2>1. x \in Nat /\ y \in Nat
      OBVIOUS
    <2>2. ~(y < x)
      BY <1>1, <1>2, <2>1, Zenon
    <2> QED
      BY <2>1, <2>2
  <1> QED
    BY <1>3

\* R orders S: what sorted needs.
Orders(R, S) ==
    /\ \A x \in S : <<x, x>> \notin R
    /\ \A x, y, z \in S : <<x, y>> \in R /\ <<y, z>> \in R => <<x, z>> \in R
    /\ \A x, y \in S : x # y => <<x, y>> \in R \/ <<y, x>> \in R

Under(S, R, x) == {y \in S : <<y, x>> \in R}

\* Of two rows the later has more before it.
LEMMA UnderGrows ==
    ASSUME NEW S, IsFiniteSet(S), NEW R, Orders(R, S), NEW x \in S, NEW y \in S, <<x, y>> \in R
    PROVE  /\ Cardinality(Under(S, R, x)) \in Nat /\ Cardinality(Under(S, R, y)) \in Nat
           /\ Cardinality(Under(S, R, x)) < Cardinality(Under(S, R, y))
  <1>1. Under(S, R, x) \subseteq Under(S, R, y) /\ x \in Under(S, R, y) /\ x \notin Under(S, R, x)
    BY DEF Orders, Under
  <1>2. IsFiniteSet(Under(S, R, y))
    BY FS_Subset DEF Under
  <1>3. /\ IsFiniteSet(Under(S, R, x))
        /\ Cardinality(Under(S, R, x)) <= Cardinality(Under(S, R, y))
        /\ Cardinality(Under(S, R, x)) # Cardinality(Under(S, R, y))
    BY <1>1, <1>2, FS_Subset
  <1> QED
    BY <1>2, <1>3, FS_CardinalityType

\* A finite set that is not empty has a first row.
LEMMA FirstRow ==
    ASSUME NEW S, IsFiniteSet(S), S # {}, NEW R, Orders(R, S)
    PROVE  \E x \in S : \A y \in S \ {x} : <<x, y>> \in R
  <1> DEFINE T == {Cardinality(Under(S, R, x)) : x \in S}
  <1>1. \A x \in S : Cardinality(Under(S, R, x)) \in Nat
    BY FS_Subset, FS_CardinalityType DEF Under
  <1>2. T \in SUBSET Nat /\ T # {}
    BY <1>1
  <1>3. PICK n \in T : \A m \in T : n <= m
    <2> HIDE DEF T
    <2> QED BY <1>2, LeastNumber
  <1>4. PICK x \in S : n = Cardinality(Under(S, R, x))
    BY <1>3
  <1>5. ASSUME NEW y \in S \ {x} PROVE <<x, y>> \in R
    <2>1. SUFFICES ASSUME <<y, x>> \in R PROVE FALSE
      BY DEF Orders
    <2>2. Cardinality(Under(S, R, y)) < Cardinality(Under(S, R, x))
      BY <2>1, UnderGrows
    <2>3. Cardinality(Under(S, R, x)) <= Cardinality(Under(S, R, y))
      BY <1>3, <1>4
    <2> QED
      BY <1>1, <2>2, <2>3
  <1> QED
    BY <1>5

LEMMA GreatestNumber ==
    ASSUME NEW S \in SUBSET Int, IsFiniteSet(S), S # {}
    PROVE  \E x \in S : \A y \in S : x >= y
  <1> DEFINE R == {p \in S \X S : p[1] > p[2]}
  <1>1. Orders(R, S)
    <2>1. \A x, y \in S : <<x, y>> \in R <=> x > y
      OBVIOUS
    <2> HIDE DEF R
    <2> QED BY <2>1 DEF Orders
  <1>2. PICK x \in S : \A y \in S \ {x} : <<x, y>> \in R
    <2> HIDE DEF R
    <2> QED BY <1>1, FirstRow
  <1>3. ASSUME NEW y \in S PROVE x >= y
    <2>1. CASE y \in S \ {x}
      <3>1. <<x, y>> \in R
        BY <1>2, <2>1
      <3>2. x > y
        BY <3>1
      <3> QED BY <3>2
    <2>2. CASE y = x
      BY <2>2
    <2> QED BY <2>1, <2>2
  <1> QED
    BY <1>3

LEMMA LeastOfFinite ==
    ASSUME NEW S \in SUBSET Int, IsFiniteSet(S), S # {}
    PROVE  \E x \in S : \A y \in S : x <= y
  <1> DEFINE R == {p \in S \X S : p[1] < p[2]}
  <1>1. Orders(R, S)
    <2>1. \A x, y \in S : <<x, y>> \in R <=> x < y
      OBVIOUS
    <2> HIDE DEF R
    <2> QED BY <2>1 DEF Orders
  <1>2. PICK x \in S : \A y \in S \ {x} : <<x, y>> \in R
    <2> HIDE DEF R
    <2> QED BY <1>1, FirstRow
  <1>3. ASSUME NEW y \in S PROVE x <= y
    <2>1. CASE y \in S \ {x}
      <3>1. <<x, y>> \in R
        BY <1>2, <2>1
      <3>2. x < y
        BY <3>1
      <3> QED BY <3>2
    <2>2. CASE y = x
      BY <2>2
    <2> QED BY <2>1, <2>2
  <1> QED
    BY <1>3

\* The rows of S by R.
Sorted(S, R) ==
    [k \in 1..Cardinality(S) |-> CHOOSE x \in S : Cardinality(Under(S, R, x)) = k - 1]

LEMMA SortedRows ==
    ASSUME NEW S, IsFiniteSet(S), NEW R, Orders(R, S)
    PROVE  /\ Sorted(S, R) \in Seq(S)
           /\ Len(Sorted(S, R)) = Cardinality(S)
           /\ Cardinality(S) \in Nat
           /\ \A x \in S : \E k \in 1..Cardinality(S) : Sorted(S, R)[k] = x
           /\ \A j, k \in 1..Cardinality(S) : j < k => <<Sorted(S, R)[j], Sorted(S, R)[k]>> \in R
  <1> DEFINE n == Cardinality(S)
             r == [x \in S |-> Cardinality(Under(S, R, x))]
             s == Sorted(S, R)
  <1>1. n \in Nat
    BY FS_CardinalityType
  <1>2. \A x \in S : r[x] \in 0..(n - 1)
    <2> SUFFICES ASSUME NEW x \in S PROVE r[x] \in 0..(n - 1)
      OBVIOUS
    <2>1. Under(S, R, x) \subseteq S /\ Under(S, R, x) # S
      BY DEF Under, Orders
    <2>2. /\ IsFiniteSet(Under(S, R, x)) /\ Cardinality(Under(S, R, x)) <= n
          /\ Cardinality(Under(S, R, x)) # n
      BY <2>1, FS_Subset
    <2>3. Cardinality(Under(S, R, x)) \in Nat
      BY <2>2, FS_CardinalityType
    <2> QED
      BY <1>1, <2>2, <2>3
  <1>3. \A x, y \in S : <<x, y>> \in R => r[x] < r[y]
    BY UnderGrows
  <1>4. r \in Injection(S, 0..(n - 1))
    <2>1. r \in [S -> 0..(n - 1)]
      BY <1>2
    <2>2. ASSUME NEW x \in S, NEW y \in S, r[x] = r[y] PROVE x = y
      <3>1. r[x] \in Nat /\ r[y] \in Nat
        BY <1>1, <1>2
      <3>2. /\ <<x, y>> \in R => r[x] < r[y]
            /\ <<y, x>> \in R => r[y] < r[x]
        BY <1>3
      <3>3. <<x, y>> \notin R /\ <<y, x>> \notin R
        <4> HIDE DEF r
        <4> QED BY <2>2, <3>1, <3>2
      <3> QED
        BY <3>3 DEF Orders
    <2> QED
      BY <2>1, <2>2 DEF Injection, IsInjective
  <1>5. Cardinality(0..(n - 1)) = n /\ IsFiniteSet(0..(n - 1))
    <2>1. 0 \in Int /\ n - 1 \in Int
      BY <1>1
    <2>2. IsFiniteSet(0..(n - 1)) /\ Cardinality(0..(n - 1)) = IF 0 > n - 1 THEN 0 ELSE (n - 1) - 0 + 1
      BY <2>1, FS_Interval
    <2> QED
      BY <1>1, <2>2
  <1>6. r \in Surjection(S, 0..(n - 1))
    BY <1>4, <1>5, FS_Injection
  <1> HIDE DEF r
  <1>7. \A k \in 1..n : s[k] \in S /\ r[s[k]] = k - 1
    <2> SUFFICES ASSUME NEW k \in 1..n PROVE s[k] \in S /\ r[s[k]] = k - 1
      OBVIOUS
    <2>1. k - 1 \in 0..(n - 1)
      BY <1>1
    <2>2. \E x \in S : r[x] = k - 1
      BY <1>6, <2>1 DEF Surjection
    <2>3. s[k] = CHOOSE x \in S : Cardinality(Under(S, R, x)) = k - 1
      BY DEF Sorted
    <2>4. \A x \in S : r[x] = Cardinality(Under(S, R, x))
      BY DEF r
    <2> QED
      BY <2>2, <2>3, <2>4
  <1>8. s \in [1..n -> S]
    BY <1>7 DEF Sorted
  <1>9. s \in Seq(S) /\ Len(s) = n
    <2> HIDE DEF s, n
    <2> QED BY <1>1, <1>8
  <1>10. ASSUME NEW x \in S PROVE \E k \in 1..n : s[k] = x
    <2>1. r[x] + 1 \in 1..n /\ (r[x] + 1) - 1 = r[x]
      BY <1>1, <1>2 DEF r
    <2>2. s[r[x] + 1] \in S /\ r[s[r[x] + 1]] = r[x]
      BY <1>7, <2>1
    <2>3. s[r[x] + 1] = x
      BY <1>4, <2>2 DEF Injection, IsInjective
    <2> QED
      BY <2>1, <2>3
  <1>11. ASSUME NEW j \in 1..n, NEW k \in 1..n, j < k PROVE <<s[j], s[k]>> \in R
    <2>1. s[j] \in S /\ s[k] \in S /\ r[s[j]] = j - 1 /\ r[s[k]] = k - 1
      BY <1>7
    <2>2. s[j] # s[k]
      BY <1>1, <1>11, <2>1
    <2>3. CASE <<s[k], s[j]>> \in R
      <3>1. r[s[k]] < r[s[j]]
        BY <1>3, <2>1, <2>3 DEF r
      <3> QED
        BY <1>1, <1>11, <2>1, <3>1
    <2> QED
      BY <2>1, <2>2, <2>3 DEF Orders
  <1> QED
    BY <1>1, <1>9, <1>10, <1>11
----------------------------------------------------------------------------
\* Cutting the next page off a list joins up with what has been cut off before.
LEMMA PageJoins ==
    ASSUME NEW T, NEW s \in Seq(T), NEW k \in Nat, k <= Len(s), NEW m \in Nat, k <= m, m <= Len(s)
    PROVE  /\ SubSeq(s, k + 1, m) \in Seq(T) /\ Len(SubSeq(s, k + 1, m)) = m - k
           /\ \A i \in 1..(m - k) : SubSeq(s, k + 1, m)[i] = s[k + i]
           /\ SubSeq(s, 1, k) \o SubSeq(s, k + 1, m) = SubSeq(s, 1, m)
  <1>1. SubSeq(s, k + 1, m) = [i \in 1..(m - k) |-> s[k + i]]
    OBVIOUS
  <1>2. \A i \in 1..(m - k) : s[k + i] \in T
    OBVIOUS
  <1>3. SubSeq(s, k + 1, m) \in [1..(m - k) -> T]
    BY <1>1, <1>2
  <1>3a. m - k \in Nat
    OBVIOUS
  <1>4. SubSeq(s, k + 1, m) \in Seq(T) /\ Len(SubSeq(s, k + 1, m)) = m - k
    BY <1>3, <1>3a
  <1>5. SubSeq(s, 1, k) \in Seq(T) /\ Len(SubSeq(s, 1, k)) = k
    OBVIOUS
  <1>6. SubSeq(s, 1, m) \in Seq(T) /\ Len(SubSeq(s, 1, m)) = m
    OBVIOUS
  <1> DEFINE c == SubSeq(s, 1, k) \o SubSeq(s, k + 1, m)
  <1>7. c \in Seq(T) /\ Len(c) = m
    BY <1>4, <1>5
  <1>8. \A i \in 1..m : c[i] = SubSeq(s, 1, m)[i]
    BY <1>1, <1>4, <1>5
  <1>9. c = SubSeq(s, 1, m)
    <2> HIDE DEF c
    <2> QED BY <1>6, <1>7, <1>8, SeqEqual
  <1> QED
    BY <1>1, <1>4, <1>9
----------------------------------------------------------------------------

\* Contracts, work entries and attendance.

LEMMA ContextFiniteSets ==
    /\ \A S : Context!IsFiniteSet(S) <=> IsFiniteSet(S)
    /\ \A S : Context!Cardinality(S) = Cardinality(S)
  BY Zenon DEF Context!IsFiniteSet, IsFiniteSet, Context!Cardinality, Cardinality

LEMMA ContextActions ==
    ASSUME Context!Next
    PROVE  \/ Context!ReadEmployees \/ Context!ReadSegments \/ Context!ReadEntries
           \/ Context!ReadRefused \/ Context!Answer
           \/ \E q \in ContextRequests, c \in {Context!FirstPage, answer.next} : Context!Ask(q, c)
           \/ /\ Context!Write
              /\ version' = version
              /\ \/ \E e \in Employees : Context!Rename(e)
                 \/ \E c \in NewContracts : Context!AddContract(c)
                 \/ \E c \in contracts, day \in FirstDay..LastDay : Context!EndContract(c, day)
                 \/ \E e \in entries :
                       \/ Context!DeleteEntry(e)
                       \/ Context!EditEntry(e, "cancelled", e.hours)
                       \/ Context!EditEntry(e, e.state, e.hours + 1)
  BY Zenon DEF Context!Next, Context!Users, Context!Rename, Context!AddContract, Context!EndContract,
     Context!DeleteEntry, Context!EditEntry, Context!Write

\* The steps of the call read Odoo and leave it as it is.
LEMMA ContextReads ==
    ASSUME \/ Context!ReadEmployees \/ Context!ReadSegments \/ Context!ReadEntries
           \/ Context!ReadRefused \/ Context!Answer
    PROVE  UNCHANGED <<version, name, contracts, entries, writes, request, place, stirred>>
  BY DEF Context!ReadEmployees, Context!ReadSegments, Context!ReadEntries, Context!ReadRefused,
     Context!Answer, Context!Quietly, Context!odoo

LEMMA Replaced ==
    ASSUME NEW S, IsFiniteSet(S), Context!Identified(S), NEW x \in S, NEW y, y.id = x.id
    PROVE  /\ IsFiniteSet((S \ {x}) \cup {y})
           /\ Context!Identified((S \ {x}) \cup {y})
  <1>1. IsFiniteSet(S \ {x})
    BY FS_RemoveElement
  <1>2. IsFiniteSet((S \ {x}) \cup {y})
    BY <1>1, FS_AddElement
  <1>3. Context!Identified((S \ {x}) \cup {y})
    BY DEF Context!Identified
  <1> QED
    BY <1>2, <1>3

LEMMA ContextSourceBegins ==
    ASSUME Context!Init
    PROVE  Context!SourceInv
  <1>1. PICK s \in Histories : version = s.version /\ contracts = s.contracts /\ entries = s.entries
    BY DEF Context!Init
  <1>2. /\ s.version \in {18, 19}
        /\ s.contracts \subseteq Context!Contract /\ Context!IsFiniteSet(s.contracts)
        /\ Context!Identified(s.contracts)
        /\ s.entries \subseteq Context!Entry /\ Context!IsFiniteSet(s.entries)
        /\ Context!Identified(s.entries)
        /\ \A c \in s.contracts \cup s.entries : c.wd = 0
        /\ s.version = 19 => \A e \in s.entries : e.from = e.to
    BY PayrollReadsAssumption DEF Context!PayrollContextAssumption
  <1>3. name \in [Employees -> Nat] /\ writes = 0 /\ request \in ContextRequests
    BY DEF Context!Init
  <1> QED
    BY <1>1, <1>2, <1>3 DEF Context!SourceInv

LEMMA ContextSourceStays ==
    ASSUME Context!SourceInv, Context!Next
    PROVE  Context!SourceInv'
  <1>1. CASE UNCHANGED <<version, name, contracts, entries, writes, request>>
    BY <1>1 DEF Context!SourceInv, Context!IsFiniteSet
  <1>2. CASE \E q \in ContextRequests, c \in {Context!FirstPage, answer.next} : Context!Ask(q, c)
    <2>1. UNCHANGED <<version, name, contracts, entries, writes>> /\ request' \in ContextRequests
      BY <1>2 DEF Context!Ask, Context!odoo
    <2> QED
      BY <2>1 DEF Context!SourceInv, Context!IsFiniteSet
  <1>3. CASE /\ Context!Write
             /\ version' = version
             /\ \/ \E e \in Employees : Context!Rename(e)
                \/ \E c \in NewContracts : Context!AddContract(c)
                \/ \E c \in contracts, day \in FirstDay..LastDay : Context!EndContract(c, day)
                \/ \E e \in entries :
                      \/ Context!DeleteEntry(e)
                      \/ Context!EditEntry(e, "cancelled", e.hours)
                      \/ Context!EditEntry(e, e.state, e.hours + 1)
    <2>1. writes \in Nat /\ writes' = writes + 1 /\ writes' \in Nat /\ request' = request
          /\ version' = version
      BY <1>3 DEF Context!Write, Context!SourceInv
    <2>2. /\ version \in {18, 19} /\ name \in [Employees -> Nat] /\ request \in ContextRequests
          /\ contracts \subseteq Context!Contract /\ IsFiniteSet(contracts)
          /\ Context!Identified(contracts)
          /\ entries \subseteq Context!Entry /\ IsFiniteSet(entries) /\ Context!Identified(entries)
          /\ \A e \in entries : e.wd <= writes /\ (version = 19 => e.from = e.to)
      BY ContextFiniteSets DEF Context!SourceInv
    <2>3. \A e \in entries : e.wd \in Nat /\ e.wd <= writes'
      BY <2>1, <2>2 DEF Context!Entry
    <2>4. FirstDay \in Nat /\ LastDay \in Nat /\ NewContracts \subseteq Context!Contract
      BY PayrollReadsAssumption DEF Context!PayrollContextAssumption
    <2> SUFFICES /\ name' \in [Employees -> Nat]
                 /\ contracts' \subseteq Context!Contract /\ IsFiniteSet(contracts')
                 /\ Context!Identified(contracts')
                 /\ entries' \subseteq Context!Entry /\ IsFiniteSet(entries')
                 /\ Context!Identified(entries')
                 /\ \A e \in entries' : e.wd <= writes' /\ (version = 19 => e.from = e.to)
      <3> QED
        BY <2>1, <2>2, ContextFiniteSets DEF Context!SourceInv
    <2>5. ASSUME NEW e \in Employees, Context!Rename(e) PROVE name' \in [Employees -> Nat]
      BY <2>2, <2>5 DEF Context!Rename
    <2>6. ASSUME NEW c \in NewContracts, Context!AddContract(c)
          PROVE  /\ contracts' \subseteq Context!Contract /\ IsFiniteSet(contracts')
                 /\ Context!Identified(contracts')
      <3> DEFINE d == [c EXCEPT !.wd = writes']
      <3>1. d \in Context!Contract /\ d.id = c.id
        BY <2>1, <2>4 DEF Context!Contract
      <3>2. contracts' = contracts \cup {d} /\ \A x \in contracts : x.id # c.id
        BY <2>6 DEF Context!AddContract
      <3> HIDE DEF d
      <3>3. Context!Identified(contracts')
        BY <2>2, <3>1, <3>2 DEF Context!Identified
      <3> QED
        BY <2>2, <3>1, <3>2, <3>3, FS_AddElement
    <2>7. ASSUME NEW c \in contracts, NEW day \in FirstDay..LastDay, Context!EndContract(c, day)
          PROVE  /\ contracts' \subseteq Context!Contract /\ IsFiniteSet(contracts')
                 /\ Context!Identified(contracts')
      <3> DEFINE d == [c EXCEPT !.finish = day, !.wd = writes']
      <3>0. day \in Nat /\ c \in Context!Contract
        BY <2>2, <2>4
      <3>1. d \in Context!Contract /\ d.id = c.id
        BY <2>1, <3>0 DEF Context!Contract
      <3>2. contracts' = (contracts \ {c}) \cup {d}
        BY <2>7 DEF Context!EndContract
      <3> HIDE DEF d
      <3> QED
        BY <2>2, <3>1, <3>2, Replaced
    <2>8. ASSUME NEW e \in entries, Context!DeleteEntry(e)
          PROVE  /\ entries' \subseteq Context!Entry /\ IsFiniteSet(entries')
                 /\ Context!Identified(entries')
                 /\ \A x \in entries' : x.wd <= writes' /\ (version = 19 => x.from = x.to)
      <3>1. entries' = entries \ {e}
        BY <2>8 DEF Context!DeleteEntry
      <3> QED
        BY <2>2, <2>3, <3>1, FS_RemoveElement DEF Context!Identified
    <2>9. ASSUME NEW e \in entries, NEW s \in DOMAIN Context!StateRank, NEW h \in Int,
                 Context!EditEntry(e, s, h)
          PROVE  /\ entries' \subseteq Context!Entry /\ IsFiniteSet(entries')
                 /\ Context!Identified(entries')
                 /\ \A x \in entries' : x.wd <= writes' /\ (version = 19 => x.from = x.to)
      <3> DEFINE d == [e EXCEPT !.state = s, !.hours = h, !.wd = writes']
      <3>1. d \in Context!Entry /\ d.id = e.id /\ d.wd = writes' /\ d.from = e.from /\ d.to = e.to
        BY <2>1, <2>2 DEF Context!Entry
      <3>2. entries' = (entries \ {e}) \cup {d}
        BY <2>9 DEF Context!EditEntry
      <3> HIDE DEF d
      <3>3. \A x \in entries' : x.wd <= writes' /\ (version = 19 => x.from = x.to)
        BY <2>1, <2>2, <2>3, <3>1, <3>2
      <3> QED
        BY <2>2, <3>1, <3>2, <3>3, Replaced
    <2>10. "cancelled" \in DOMAIN Context!StateRank
      BY DEF Context!StateRank
    <2>11. \A e \in entries : e.state \in DOMAIN Context!StateRank /\ e.hours \in Int
      BY <2>2 DEF Context!Entry
    <2>12. ASSUME NEW e \in Employees, Context!Rename(e) PROVE UNCHANGED <<contracts, entries>>
      BY <2>12 DEF Context!Rename
    <2>13. ASSUME NEW c \in NewContracts, Context!AddContract(c) PROVE UNCHANGED <<name, entries>>
      BY <2>13 DEF Context!AddContract
    <2>14. ASSUME NEW c \in contracts, NEW day \in FirstDay..LastDay, Context!EndContract(c, day)
           PROVE UNCHANGED <<name, entries>>
      BY <2>14 DEF Context!EndContract
    <2>15. ASSUME NEW e \in entries, NEW s, NEW h, Context!DeleteEntry(e) \/ Context!EditEntry(e, s, h)
           PROVE  UNCHANGED <<name, contracts>>
      BY <2>15 DEF Context!DeleteEntry, Context!EditEntry
    <2>16. \A e \in entries : e.hours + 1 \in Int
      BY <2>11
    <2>17. CASE \E e \in Employees : Context!Rename(e)
      BY <2>2, <2>3, <2>5, <2>12, <2>17
    <2>18. CASE \E c \in NewContracts : Context!AddContract(c)
      BY <2>2, <2>3, <2>6, <2>13, <2>18
    <2>19. CASE \E c \in contracts, day \in FirstDay..LastDay : Context!EndContract(c, day)
      BY <2>2, <2>3, <2>7, <2>14, <2>19
    <2>20. CASE \E e \in entries : Context!DeleteEntry(e)
      BY <2>2, <2>8, <2>15, <2>20
    <2>21. CASE \E e \in entries : \/ Context!EditEntry(e, "cancelled", e.hours)
                                   \/ Context!EditEntry(e, e.state, e.hours + 1)
      <3>1. PICK e \in entries, s \in DOMAIN Context!StateRank, h \in Int : Context!EditEntry(e, s, h)
        BY <2>10, <2>11, <2>16, <2>21
      <3>2. UNCHANGED <<name, contracts>>
        BY <2>15, <3>1
      <3> QED
        BY <2>2, <2>9, <3>1, <3>2
    <2> QED
      BY <1>3, <2>17, <2>18, <2>19, <2>20, <2>21
  <1> QED
    BY <1>1, <1>2, <1>3, ContextActions, ContextReads
----------------------------------------------------------------------------
\* What a call has read, and Odoo as it is.

LEMMA ContextSame ==
    ASSUME UNCHANGED <<version, name, contracts, entries, request>>
    PROVE  /\ Context!Domain' = Context!Domain
           /\ (Context!Segments(Context!Domain))' = Context!Segments(Context!Domain)
           /\ Context!SegmentsRefused' <=> Context!SegmentsRefused
           /\ (Context!WorkEntries(request.states))' = Context!WorkEntries(request.states)
  <1>1. Context!Domain' = Context!Domain
    BY DEF Context!Domain, Context!InDomain
  <1>2. (Context!Segments(Context!Domain))' = Context!Segments(Context!Domain)
    BY DEF Context!Domain, Context!InDomain, Context!Segments, Context!Begin, Context!Ends,
       Context!Later
  <1>3. Context!Twisted(Context!Domain)' <=> Context!Twisted(Context!Domain)
    BY DEF Context!Domain, Context!InDomain, Context!Twisted, Context!Begin, Context!Ends,
       Context!Later
  <1>4. Context!Overlapping(Context!Segments(Context!Domain))'
          <=> Context!Overlapping(Context!Segments(Context!Domain))
    BY <1>2 DEF Context!Overlapping
  <1>5. (Context!WorkEntries(request.states))' = Context!WorkEntries(request.states)
    BY DEF Context!WorkEntries, Context!EntryRow
  <1> QED
    BY <1>1, <1>2, <1>3, <1>4, <1>5 DEF Context!SegmentsRefused

ContextMade ==
    ~stirred /\ pc = "answered" =>
        IF request.tool = "attendance"
        THEN listed = Context!AttendanceItems(Context!WorkEntries(request.states))
        ELSE listed = Context!SegmentItems(Context!Segments(Context!Domain))
             /\ ~Context!SegmentsRefused

LEMMA ContextQuietBegins ==
    ASSUME Context!Init
    PROVE  Context!QuietInv
  BY DEF Context!Init, Context!QuietInv, Context!Underway, Context!Nothing

LEMMA ContextQuietStays ==
    ASSUME Context!SourceInv, Context!QuietInv, Context!Next
    PROVE  Context!QuietInv'
  <1>1. /\ pc \in {"employees", "answered", "refused", "segments", "entries", "answer"}
        /\ pc \in {"employees", "answered", "refused"} => got = Context!Nothing
        /\ pc = "entries" => request.tool # "context"
        /\ pc = "segments" /\ request.tool = "attendance" => \E e \in got.entries : e.contract # 0
    BY DEF Context!QuietInv, Context!Underway
  <1>2. ~stirred /\ pc \in {"segments", "entries", "answer"} =>
          /\ got = [name |-> name,
                    segments |-> IF Context!SegmentsRead THEN Context!Segments(Context!Domain)
                                 ELSE {},
                    entries |-> IF Context!EntriesRead THEN Context!WorkEntries(request.states)
                                ELSE {}]
          /\ Context!SegmentsRead => ~Context!SegmentsRefused
    BY DEF Context!QuietInv, Context!Underway
  <1>3. ContextMade
    BY Zenon DEF Context!QuietInv, ContextMade
  <1>4. request.tool \in Context!Tools
    BY PayrollReadsAssumption DEF Context!SourceInv, Context!PayrollContextAssumption
  <1>5. SUFFICES
          /\ pc' \in {"employees", "answered", "refused", "segments", "entries", "answer"}
          /\ pc' \in {"employees", "answered", "refused"} => got' = Context!Nothing
          /\ pc' = "entries" => request'.tool # "context"
          /\ pc' = "segments" /\ request'.tool = "attendance"
               => \E e \in got'.entries : e.contract # 0
          /\ ~stirred' /\ pc' \in {"segments", "entries", "answer"} =>
               /\ got' = [name |-> name',
                          segments |-> IF Context!SegmentsRead'
                                       THEN (Context!Segments(Context!Domain))' ELSE {},
                          entries |-> IF Context!EntriesRead'
                                      THEN (Context!WorkEntries(request.states))' ELSE {}]
               /\ Context!SegmentsRead' => ~Context!SegmentsRefused'
          /\ ContextMade'
    BY Zenon DEF Context!QuietInv, Context!Underway, ContextMade
  <1> DEFINE same == UNCHANGED <<version, name, contracts, entries, request, stirred>>
  <1>6. same => UNCHANGED <<version, name, contracts, entries, request>>
    OBVIOUS
  <1>7. CASE Context!ReadEmployees
    <2>1. /\ pc = "employees" /\ same
          /\ got' = [Context!Nothing EXCEPT !.name = name]
          /\ pc' = IF request.tool = "attendance" THEN "entries" ELSE "segments"
      BY <1>1, <1>7 DEF Context!ReadEmployees, Context!Quietly, Context!odoo
    <2>2. got' = [name |-> name, segments |-> {}, entries |-> {}]
      BY <2>1 DEF Context!Nothing
    <2>3. ~Context!SegmentsRead' /\ ~Context!EntriesRead'
      BY <2>1, <2>2, <1>4 DEF Context!SegmentsRead, Context!EntriesRead, Context!Tools
    <2>4. ContextMade'
      BY <2>1 DEF ContextMade
    <2> QED
      BY <1>4, <2>1, <2>2, <2>3, <2>4 DEF Context!Tools
  <1>8. CASE Context!ReadSegments
    <2> DEFINE g == [got EXCEPT !.segments = Context!Segments(Context!Domain)]
    <2>1. pc = "segments" /\ same
      BY <1>8 DEF Context!ReadSegments, Context!Quietly, Context!odoo
    <2>2. CASE pc' = "refused" /\ got' = Context!Nothing
      BY <2>1, <2>2 DEF ContextMade
    <2>3. CASE /\ ~Context!SegmentsRefused /\ got' = g
               /\ pc' = IF request.tool = "snapshot" THEN "entries" ELSE "answer"
      <3>1. ~stirred =>
              g = [name |-> name, segments |-> Context!Segments(Context!Domain),
                   entries |-> IF Context!EntriesRead THEN Context!WorkEntries(request.states)
                               ELSE {}]
        BY <1>2, <2>1
      <3>2. Context!EntriesRead <=> request.tool = "attendance"
        BY <2>1, <1>4 DEF Context!EntriesRead, Context!Tools
      <3>3. Context!EntriesRead' <=> request.tool = "attendance"
        BY <2>1, <2>3, <1>4 DEF Context!EntriesRead, Context!Tools
      <3>4. ~stirred => Context!SegmentsRead'
        <4>1. ASSUME ~stirred, request.tool = "attendance"
              PROVE  \E e \in got'.entries : e.contract # 0
          <5>1. \E e \in got.entries : e.contract # 0
            BY <1>1, <2>1, <4>1
          <5>2. got.entries = got'.entries
            BY <1>2, <2>1, <2>3, <3>1, <4>1
          <5> QED BY <5>1, <5>2
        <4> QED
          BY <2>1, <2>3, <4>1, <1>4 DEF Context!SegmentsRead, Context!Tools
      <3>5. ContextMade'
        BY <2>1, <2>3, <1>4 DEF ContextMade, Context!Tools
      <3> QED
        BY <1>4, <1>6, <2>1, <2>3, <3>1, <3>2, <3>3, <3>4, <3>5, ContextSame DEF Context!Tools
    <2> QED
      BY <1>8, <2>2, <2>3 DEF Context!ReadSegments, Context!Refuse
  <1>9. CASE Context!ReadEntries
    <2> DEFINE fresh == Context!WorkEntries(request.states)
    <2>1. /\ pc = "entries" /\ same /\ got' = [got EXCEPT !.entries = fresh]
          /\ pc' = IF request.tool = "attendance" /\ \E e \in fresh : e.contract # 0
                   THEN "segments" ELSE "answer"
      BY <1>9 DEF Context!ReadEntries, Context!Quietly, Context!odoo
    <2>2. ~stirred =>
            got' = [name |-> name,
                    segments |-> IF Context!SegmentsRead THEN Context!Segments(Context!Domain)
                                 ELSE {},
                    entries |-> fresh]
      BY <1>2, <2>1
    <2>3. Context!EntriesRead'
      BY <1>1, <1>4, <2>1 DEF Context!EntriesRead, Context!Tools
    <2>4. Context!SegmentsRead <=> request.tool = "snapshot"
      BY <1>1, <1>4, <2>1 DEF Context!SegmentsRead, Context!Tools
    <2>5. ASSUME ~stirred PROVE Context!SegmentsRead' <=> request.tool = "snapshot"
      <3>1. request.tool = "attendance" /\ pc' = "answer" => ~(\E e \in got'.entries : e.contract # 0)
        BY <2>1, <2>2, <2>5
      <3> QED
        BY <1>1, <1>4, <2>1, <3>1 DEF Context!SegmentsRead, Context!Tools
    <2>6. ~stirred /\ Context!SegmentsRead => ~Context!SegmentsRefused
      BY <1>2, <2>1
    <2>7. ContextMade'
      BY <2>1 DEF ContextMade
    <2>8. pc' = "segments" => \E e \in got'.entries : e.contract # 0
      BY <2>1, <1>1
    <2> HIDE DEF fresh
    <2> QED
      BY <1>4, <1>6, <2>1, <2>2, <2>3, <2>4, <2>5, <2>6, <2>7, <2>8, ContextSame DEF fresh
  <1>10. CASE Context!ReadRefused
    <2>1. pc' = "refused" /\ got' = Context!Nothing
      BY <1>10 DEF Context!ReadRefused, Context!Refuse
    <2> QED
      BY <2>1 DEF ContextMade
  <1>11. CASE Context!Answer
    <2>1. /\ pc = "answer" /\ same /\ got' = Context!Nothing /\ pc' \in {"answered", "refused"}
          /\ pc' = "answered" =>
               listed' = IF request.tool = "attendance" THEN Context!AttendanceItems(got.entries)
                         ELSE Context!SegmentItems(got.segments)
      BY <1>11 DEF Context!Answer, Context!odoo
    <2>2. ASSUME ~stirred, pc' = "answered", request.tool = "attendance"
          PROVE  listed' = Context!AttendanceItems(Context!WorkEntries(request.states))
      <3>1. Context!EntriesRead
        BY <2>1, <2>2 DEF Context!EntriesRead
      <3> QED
        BY <1>2, <2>1, <2>2, <3>1
    <2>3. ASSUME ~stirred, pc' = "answered", request.tool # "attendance"
          PROVE  listed' = Context!SegmentItems(Context!Segments(Context!Domain))
                 /\ ~Context!SegmentsRefused
      <3>1. Context!SegmentsRead
        BY <2>1, <2>3 DEF Context!SegmentsRead
      <3> QED
        BY <1>2, <2>1, <2>3, <3>1
    <2>4. ContextMade'
      <3>1. (Context!AttendanceItems(Context!WorkEntries(request.states)))'
              = Context!AttendanceItems(Context!WorkEntries(request.states))
        BY <1>6, <2>1, ContextSame
      <3>2. (Context!SegmentItems(Context!Segments(Context!Domain)))'
              = Context!SegmentItems(Context!Segments(Context!Domain))
        BY <1>6, <2>1, ContextSame
      <3> QED
        BY <1>6, <2>1, <2>2, <2>3, <3>1, <3>2, ContextSame DEF ContextMade
    <2> QED
      BY <2>1, <2>4
  <1>12. CASE \E q \in ContextRequests, c \in {Context!FirstPage, answer.next} : Context!Ask(q, c)
    <2>1. pc \in {"answered", "refused"} /\ pc' = "employees" /\ got' = got
      BY <1>12 DEF Context!Ask
    <2> QED
      BY <1>1, <2>1 DEF ContextMade
  <1>13. CASE Context!Write
    <2>1. stirred' /\ UNCHANGED <<pc, got, request>>
      BY <1>13 DEF Context!Write
    <2> QED
      BY <1>1, <2>1 DEF ContextMade
  <1> QED
    BY <1>7, <1>8, <1>9, <1>10, <1>11, <1>12, <1>13, ContextActions
----------------------------------------------------------------------------
\* The items of an attendance summary.

ItemsOf(S) == {Context!AttendanceItem(e, S) : e \in S}

LEMMA ItemIs ==
    ASSUME NEW S, NEW e
    PROVE  /\ Context!AttendanceItem(e, S).emp = e.emp
           /\ Context!AttendanceItem(e, S).state = e.state
           /\ Context!AttendanceItem(e, S).hours
                = Context!Hours({d \in S : d.emp = e.emp /\ d.state = e.state})
  BY DEF Context!AttendanceItem

LEMMA ItemOne ==
    ASSUME NEW S, NEW d, NEW e, d.emp = e.emp, d.state = e.state
    PROVE  Context!AttendanceItem(d, S) = Context!AttendanceItem(e, S)
  BY DEF Context!AttendanceItem

Ranked(a, b) ==
    \/ a.emp < b.emp
    \/ a.emp = b.emp /\ Context!StateRank[a.state] < Context!StateRank[b.state]

LEMMA StateRanks ==
    /\ \A s \in DOMAIN Context!StateRank : Context!StateRank[s] \in Nat
    /\ \A s, t \in DOMAIN Context!StateRank : Context!StateRank[s] = Context!StateRank[t] => s = t
  <1>1. DOMAIN Context!StateRank = {"cancelled", "conflict", "draft", "validated"}
    BY DEF Context!StateRank
  <1>2. /\ Context!StateRank["cancelled"] = 1 /\ Context!StateRank["conflict"] = 2
        /\ Context!StateRank["draft"] = 3 /\ Context!StateRank["validated"] = 4
    BY DEF Context!StateRank
  <1> QED
    BY <1>1, <1>2

LEMMA ItemsFinite ==
    ASSUME NEW S, IsFiniteSet(S), S \subseteq Context!ReadEntry
    PROVE  /\ IsFiniteSet(ItemsOf(S))
           /\ \A a \in ItemsOf(S) : a.emp \in Nat /\ a.state \in DOMAIN Context!StateRank
           /\ \A a, b \in ItemsOf(S) : a.emp = b.emp /\ a.state = b.state => a = b
  <1>1. IsFiniteSet(ItemsOf(S))
    <2> DEFINE f == [e \in S |-> Context!AttendanceItem(e, S)]
    <2>1. f \in Surjection(S, ItemsOf(S))
      BY DEF Surjection, ItemsOf
    <2> HIDE DEF f
    <2> QED BY <2>1, FS_Surjection
  <1>2. Employees \subseteq Nat
    BY PayrollReadsAssumption DEF Context!PayrollContextAssumption
  <1>3. \A e \in S : e.emp \in Nat /\ e.state \in DOMAIN Context!StateRank
    BY <1>2 DEF Context!ReadEntry
  <1>4. ASSUME NEW a \in ItemsOf(S)
        PROVE  \E e \in S : a = Context!AttendanceItem(e, S) /\ a.emp = e.emp /\ a.state = e.state
    <2>1. PICK e \in S : a = Context!AttendanceItem(e, S)
      BY DEF ItemsOf
    <2> QED
      BY <2>1, ItemIs
  <1>5. \A a \in ItemsOf(S) : a.emp \in Nat /\ a.state \in DOMAIN Context!StateRank
    BY <1>3, <1>4
  <1>6. ASSUME NEW a \in ItemsOf(S), NEW b \in ItemsOf(S), a.emp = b.emp, a.state = b.state
        PROVE  a = b
    <2>1. PICK d \in S : a = Context!AttendanceItem(d, S) /\ a.emp = d.emp /\ a.state = d.state
      BY <1>4
    <2>2. PICK e \in S : b = Context!AttendanceItem(e, S) /\ b.emp = e.emp /\ b.state = e.state
      BY <1>4
    <2> QED
      BY <1>6, <2>1, <2>2, ItemOne
  <1> QED
    BY <1>1, <1>5, <1>6

LEMMA SeqDomain ==
    ASSUME NEW T, NEW s \in Seq(T)
    PROVE  DOMAIN s = 1..Len(s)
  OBVIOUS

LEMMA AttendanceSorted ==
    ASSUME NEW S, IsFiniteSet(S), S \subseteq Context!ReadEntry
    PROVE  /\ Context!AttendanceItems(S) \in Seq(ItemsOf(S))
           /\ \A a \in ItemsOf(S) : \E k \in DOMAIN Context!AttendanceItems(S) :
                 Context!AttendanceItems(S)[k] = a
           /\ \A j, k \in DOMAIN Context!AttendanceItems(S) :
                 j # k => Context!AttendanceItems(S)[j] # Context!AttendanceItems(S)[k]
  <1> DEFINE T == ItemsOf(S)
             R == {p \in T \X T : Ranked(p[1], p[2])}
  <1>1. /\ IsFiniteSet(T)
        /\ \A a \in T : a.emp \in Nat /\ a.state \in DOMAIN Context!StateRank
        /\ \A a, b \in T : a.emp = b.emp /\ a.state = b.state => a = b
    BY ItemsFinite
  <1>2. \A a, b \in T : <<a, b>> \in R <=> Ranked(a, b)
    OBVIOUS
  <1>3. Orders(R, T)
    <2> HIDE DEF T, R
    <2>1. \A a \in T : Context!StateRank[a.state] \in Nat
      BY <1>1, StateRanks
    <2>2. \A a, b \in T : a # b => \/ a.emp # b.emp
                                   \/ Context!StateRank[a.state] # Context!StateRank[b.state]
      BY <1>1, StateRanks
    <2>3. \A a \in T : <<a, a>> \notin R
      BY <1>1, <1>2, <2>1 DEF Ranked
    <2>4. \A a, b, c \in T : <<a, b>> \in R /\ <<b, c>> \in R => <<a, c>> \in R
      BY <1>1, <1>2, <2>1 DEF Ranked
    <2>5. \A a, b \in T : a # b => <<a, b>> \in R \/ <<b, a>> \in R
      BY <1>1, <1>2, <2>1, <2>2 DEF Ranked
    <2> QED
      BY <2>3, <2>4, <2>5 DEF Orders
  <1>4. \A x \in T : {y \in T : Ranked(y, x)} = Under(T, R, x)
    BY DEF Under
  <1>5. Context!AttendanceItems(S) = Sorted(T, R)
    <2> HIDE DEF R
    <2>1. Context!AttendanceItems(S)
            = [k \in 1..Context!Cardinality(T) |->
                 CHOOSE x \in T : Context!Cardinality({y \in T : Ranked(y, x)}) = k - 1]
      BY Zenon DEF Context!AttendanceItems, Context!InOrder, Ranked, ItemsOf
    <2> HIDE DEF T
    <2>2. ASSUME NEW k
          PROVE  (CHOOSE x \in T : Context!Cardinality({y \in T : Ranked(y, x)}) = k - 1)
                   = (CHOOSE x \in T : Cardinality(Under(T, R, x)) = k - 1)
      BY <1>4, ContextFiniteSets
    <2>3. Context!Cardinality(T) = Cardinality(T)
      BY ContextFiniteSets
    <2> QED
      BY <2>1, <2>2, <2>3, Zenon DEF Sorted
  <1> HIDE DEF R, T
  <1>6. /\ Sorted(T, R) \in Seq(T)
        /\ Len(Sorted(T, R)) = Cardinality(T)
        /\ Cardinality(T) \in Nat
        /\ \A x \in T : \E k \in 1..Cardinality(T) : Sorted(T, R)[k] = x
        /\ \A j, k \in 1..Cardinality(T) : j < k => <<Sorted(T, R)[j], Sorted(T, R)[k]>> \in R
    BY <1>1, <1>3, SortedRows
  <1> DEFINE s == Sorted(T, R)
  <1>7. DOMAIN s = 1..Cardinality(T)
    BY <1>6, SeqDomain
  <1>8. \A j, k \in DOMAIN s : j # k => s[j] # s[k]
    <2> SUFFICES ASSUME NEW j \in DOMAIN s, NEW k \in DOMAIN s, j < k PROVE s[j] # s[k]
      <3>1. \A i \in DOMAIN s : i \in Int
        BY <1>6, <1>7
      <3> QED BY <3>1
    <2>1. <<s[j], s[k]>> \in R /\ s[j] \in T
      BY <1>6, <1>7
    <2> QED
      BY <1>3, <2>1 DEF Orders
  <1> QED
    BY <1>5, <1>6, <1>7, <1>8 DEF T
----------------------------------------------------------------------------
\* Rows read earlier, while users write.

Now == {Context!EntryRow(e) : e \in entries}

LEMMA EntriesStep ==
    ASSUME Context!SourceInv, Context!Next
    PROVE  /\ version' = version /\ writes \in Nat
           /\ \A d \in entries' : d \in entries \/ (d.wd = writes + 1 /\ \E c \in entries : c.id = d.id)
  <1>0. writes \in Nat /\ \A e \in entries : e \in Context!Entry
    BY DEF Context!SourceInv
  <1>1. CASE UNCHANGED <<version, entries>>
    BY <1>0, <1>1
  <1>2. ASSUME NEW e \in entries, Context!Write, version' = version, Context!DeleteEntry(e)
        PROVE  \A d \in entries' : d \in entries
    BY <1>2 DEF Context!DeleteEntry
  <1>3. ASSUME NEW e \in entries, NEW s, NEW h, Context!Write, Context!EditEntry(e, s, h)
        PROVE  \A d \in entries' : d \in entries \/ (d.wd = writes + 1 /\ \E c \in entries : c.id = d.id)
    <2> DEFINE y == [e EXCEPT !.state = s, !.hours = h, !.wd = writes']
    <2>1. writes' = writes + 1 /\ entries' = (entries \ {e}) \cup {y}
      BY <1>3 DEF Context!EditEntry, Context!Write
    <2>2. y.id = e.id /\ y.wd = writes'
      BY <1>0 DEF Context!Entry
    <2> HIDE DEF y
    <2> QED
      BY <2>1, <2>2
  <1>4. CASE \E q \in ContextRequests, c \in {Context!FirstPage, answer.next} : Context!Ask(q, c)
    <2>1. UNCHANGED <<version, entries>>
      BY <1>4 DEF Context!Ask, Context!odoo
    <2> QED BY <1>0, <2>1
  <1>5. CASE /\ Context!Write
             /\ version' = version
             /\ \/ \E e \in Employees : Context!Rename(e)
                \/ \E c \in NewContracts : Context!AddContract(c)
                \/ \E c \in contracts, day \in FirstDay..LastDay : Context!EndContract(c, day)
                \/ \E e \in entries :
                      \/ Context!DeleteEntry(e)
                      \/ Context!EditEntry(e, "cancelled", e.hours)
                      \/ Context!EditEntry(e, e.state, e.hours + 1)
    <2>1. CASE entries' = entries
      BY <1>0, <1>5, <2>1
    <2>2. CASE \E e \in entries : \/ Context!DeleteEntry(e)
                                  \/ Context!EditEntry(e, "cancelled", e.hours)
                                  \/ Context!EditEntry(e, e.state, e.hours + 1)
      BY <1>0, <1>2, <1>3, <1>5, <2>2
    <2> QED
      BY <1>5, <2>1, <2>2 DEF Context!Rename, Context!AddContract, Context!EndContract
  <1> QED
    BY <1>1, <1>4, <1>5, ContextActions, ContextReads

LEMMA RowIs ==
    ASSUME NEW e
    PROVE  /\ Context!EntryRow(e).id = e.id /\ Context!EntryRow(e).wd = e.wd
           /\ Context!EntryRow(e).emp = e.emp /\ Context!EntryRow(e).state = e.state
           /\ Context!EntryRow(e).from = e.from /\ Context!EntryRow(e).to = e.to
           /\ Context!EntryRow(e).hours = e.hours /\ Context!EntryRow(e).name = name[e.emp]
           /\ Context!EntryRow(e).contract = IF version = 18 THEN 0 ELSE e.contract
           /\ Context!Unnamed(Context!EntryRow(e))
                = [id |-> e.id, emp |-> e.emp, name |-> 0, from |-> e.from, to |-> e.to,
                   contract |-> IF version = 18 THEN 0 ELSE e.contract, hours |-> e.hours,
                   state |-> e.state, wd |-> e.wd]
  BY DEF Context!EntryRow, Context!Unnamed

LEMMA OlderIs ==
    ASSUME NEW S
    PROVE  Context!Older(S) <=> /\ IsFiniteSet(S) /\ S \subseteq Context!ReadEntry
                                /\ Context!Precede(S, Now)
  BY ContextFiniteSets DEF Context!Older, Now

LEMMA OlderNothing == Context!Older({}) /\ \A S : Context!Precede(S, {})
  BY OlderIs, FS_EmptySet DEF Context!Precede

LEMMA OlderStays ==
    ASSUME Context!SourceInv, Context!Next, NEW S, Context!Older(S)
    PROVE  Context!Older(S)'
  <1>1. IsFiniteSet(S) /\ S \subseteq Context!ReadEntry /\ Context!Precede(S, Now)
    BY OlderIs
  <1>2. /\ version' = version /\ writes \in Nat
        /\ \A d \in entries' : d \in entries \/ (d.wd = writes + 1 /\ \E c \in entries : c.id = d.id)
    BY EntriesStep
  <1>3. \A e \in entries : e.wd <= writes /\ e.wd \in Nat
    BY DEF Context!SourceInv, Context!Entry
  <1>4. ASSUME NEW e \in S, NEW d \in entries', e.id = d.id
        PROVE  /\ e.wd <= d.wd
               /\ e.wd = d.wd => Context!Unnamed(e) = (Context!Unnamed(Context!EntryRow(d)))'
    <2>1. e.wd \in Nat
      BY <1>1 DEF Context!ReadEntry
    <2>2. CASE d \in entries
      <3>1. Context!EntryRow(d) \in Now /\ Context!EntryRow(d).id = d.id /\ Context!EntryRow(d).wd = d.wd
        BY <2>2, RowIs DEF Now
      <3>2. e.wd <= d.wd /\ (e.wd = d.wd => Context!Unnamed(e) = Context!Unnamed(Context!EntryRow(d)))
        BY <1>1, <1>4, <3>1 DEF Context!Precede
      <3>3. (Context!Unnamed(Context!EntryRow(d)))' = Context!Unnamed(Context!EntryRow(d))
        BY <1>2 DEF Context!Unnamed, Context!EntryRow
      <3> QED BY <3>2, <3>3
    <2>3. CASE d.wd = writes + 1 /\ \E c \in entries : c.id = d.id
      <3>1. PICK c \in entries : c.id = d.id
        BY <2>3
      <3>2. Context!EntryRow(c) \in Now /\ Context!EntryRow(c).id = c.id /\ Context!EntryRow(c).wd = c.wd
        BY RowIs DEF Now
      <3>3. e.wd <= c.wd
        BY <1>1, <1>4, <3>1, <3>2 DEF Context!Precede
      <3> QED BY <1>2, <1>3, <2>1, <2>3, <3>3
    <2> QED BY <1>2, <2>2, <2>3
  <1>5. Context!Precede(S, Now)'
    <2>1. \A d \in entries' : (Context!EntryRow(d))'.id = d.id /\ (Context!EntryRow(d))'.wd = d.wd
      BY DEF Context!EntryRow
    <2> SUFFICES ASSUME NEW e \in S, NEW d \in Now', e.id = d.id
                 PROVE  e.wd <= d.wd /\ (e.wd = d.wd => Context!Unnamed(e) = Context!Unnamed(d))
      BY DEF Context!Precede
    <2>2. PICK x \in entries' : d = (Context!EntryRow(x))'
      BY DEF Now
    <2>3. (Context!Unnamed(Context!EntryRow(x)))' = Context!Unnamed(d)
      BY <2>2 DEF Context!Unnamed
    <2> QED BY <1>4, <2>1, <2>2, <2>3
  <1> QED
    BY <1>1, <1>5, ContextFiniteSets DEF Context!Older, Now

LEMMA ReadNow ==
    ASSUME Context!SourceInv, NEW states
    PROVE  Context!Older(Context!WorkEntries(states)) /\ Context!WorkEntries(states) \subseteq Now
  <1> DEFINE D == {d \in entries : d.from <= LastDay /\ d.to >= FirstDay /\ d.state \in states}
             W == Context!WorkEntries(states)
  <1>1. W = {Context!EntryRow(e) : e \in D}
    BY DEF Context!WorkEntries
  <1>2. /\ IsFiniteSet(entries) /\ entries \subseteq Context!Entry /\ Context!Identified(entries)
        /\ name \in [Employees -> Nat]
    BY ContextFiniteSets DEF Context!SourceInv
  <1>3. IsFiniteSet(W)
    <2> DEFINE f == [e \in D |-> Context!EntryRow(e)]
    <2>1. IsFiniteSet(D)
      BY <1>2, FS_Subset
    <2>2. f \in Surjection(D, W)
      BY <1>1 DEF Surjection
    <2> HIDE DEF f, D, W
    <2> QED BY <2>1, <2>2, FS_Surjection
  <1>4. W \subseteq Context!ReadEntry
    <2> SUFFICES ASSUME NEW e \in D PROVE Context!EntryRow(e) \in Context!ReadEntry
      BY <1>1
    <2>1. e \in Context!Entry
      BY <1>2
    <2>2. name[e.emp] \in Nat
      BY <1>2, <2>1 DEF Context!Entry
    <2> QED
      BY <2>1, <2>2 DEF Context!Entry, Context!EntryRow, Context!ReadEntry
  <1>5. W \subseteq Now
    BY <1>1 DEF Now
  <1>6. Context!Precede(W, Now)
    <2> SUFFICES ASSUME NEW x \in entries, NEW y \in entries, x.id = y.id
                 PROVE  x.wd <= y.wd /\ Context!EntryRow(x) = Context!EntryRow(y)
      <3>1. \A d \in W : \E x \in entries : d = Context!EntryRow(x)
        BY <1>1
      <3>2. \A d \in Now : \E x \in entries : d = Context!EntryRow(x)
        BY DEF Now
      <3> QED BY <3>1, <3>2, RowIs DEF Context!Precede
    <2>1. x = y
      BY <1>2 DEF Context!Identified
    <2>2. x.wd \in Nat
      BY <1>2 DEF Context!Entry
    <2> QED BY <2>1, <2>2
  <1> QED
    BY <1>3, <1>4, <1>5, <1>6, OlderIs
----------------------------------------------------------------------------
\* A page begins where the pages before it end.

ContextPage(b, p, j) ==
    /\ b.request.tool = "attendance"
    /\ p.print = {<<b.request, Context!Anchors(b.got)>>}
    /\ p.offset \in 0..Len(Context!AttendanceItems(b.got.entries))
    /\ j = SubSeq(Context!AttendanceItems(b.got.entries), 1, p.offset)
    /\ \A e \in b.got.entries : e.emp \in DOMAIN b.got.name /\ e.name = b.got.name[e.emp]

ContextPages ==
    /\ Context!Older(got.entries) /\ IsFiniteSet(got.segments)
    /\ Context!Place = Context!FirstPage /\ pc \notin {"answered", "refused"} => joined = <<>>
    /\ pc = "answered" /\ request.tool = "attendance" => joined = SubSeq(listed, 1, Len(joined))
    /\ Context!Place # Context!FirstPage =>
          \E b \in basis : /\ ContextPage(b, Context!Place, joined)
                           /\ Context!Older(b.got.entries)
                           /\ Context!Precede(b.got.entries, got.entries)

LEMMA ContextPagesIs == Context!PagesInv <=> ContextPages
  BY Zenon, ContextFiniteSets DEF Context!PagesInv, ContextPages, ContextPage

LEMMA SameEntry ==
    ASSUME NEW d \in Context!ReadEntry, NEW e \in Context!ReadEntry, d.name = e.name,
           Context!Unnamed(d) = Context!Unnamed(e)
    PROVE  d = e
  <1>1. /\ d.id = e.id /\ d.emp = e.emp /\ d.from = e.from /\ d.to = e.to
        /\ d.contract = e.contract /\ d.hours = e.hours /\ d.state = e.state /\ d.wd = e.wd
    <2>1. \A x \in Context!ReadEntry :
             Context!Unnamed(x) = [id |-> x.id, emp |-> x.emp, name |-> 0, from |-> x.from,
                                   to |-> x.to, contract |-> x.contract, hours |-> x.hours,
                                   state |-> x.state, wd |-> x.wd]
      BY DEF Context!ReadEntry, Context!Unnamed
    <2> QED
      BY <2>1
  <1> QED
    BY <1>1 DEF Context!ReadEntry

\* The anchors tell whether a row has been written, or an employee renamed.
LEMMA ContextAnchors ==
    ASSUME NEW g, NEW h, Context!Anchors(g) = Context!Anchors(h),
           g.entries \subseteq Context!ReadEntry, h.entries \subseteq Context!ReadEntry,
           \A e \in g.entries : e.emp \in DOMAIN g.name /\ e.name = g.name[e.emp],
           \A e \in h.entries : e.emp \in DOMAIN h.name /\ e.name = h.name[e.emp],
           Context!Precede(g.entries, h.entries)
    PROVE  g.entries = h.entries
  <1>1. ASSUME NEW x, NEW y, Context!Anchors(x) = Context!Anchors(y), NEW e \in x.entries
        PROVE  \E d \in y.entries : d.id = e.id /\ d.wd = e.wd
    <2>1. <<"entry", e.id, e.wd>> \in Context!Anchors(y)
      BY <1>1 DEF Context!Anchors
    <2> QED
      BY <2>1 DEF Context!Anchors
  <1>2. ASSUME NEW x, NEW y, Context!Anchors(x) = Context!Anchors(y), NEW e \in DOMAIN x.name
        PROVE  e \in DOMAIN y.name /\ y.name[e] = x.name[e]
    <2>1. <<"employee", e, x.name[e]>> \in Context!Anchors(y)
      BY <1>2 DEF Context!Anchors
    <2> QED
      BY <2>1 DEF Context!Anchors
  <1>3. ASSUME NEW e \in g.entries, NEW d \in h.entries, d.id = e.id, d.wd = e.wd
        PROVE  d = e
    <2>1. Context!Unnamed(e) = Context!Unnamed(d)
      BY <1>3 DEF Context!Precede
    <2>2. e.emp = d.emp
      <3>1. Context!Unnamed(e).emp = e.emp /\ Context!Unnamed(d).emp = d.emp
        BY DEF Context!Unnamed, Context!ReadEntry
      <3> QED BY <2>1, <3>1
    <2>3. e.name = d.name
      BY <1>2, <2>2
    <2> QED
      BY <2>1, <2>3, SameEntry
  <1>4. g.entries \subseteq h.entries
    BY <1>1, <1>3
  <1>5. h.entries \subseteq g.entries
    BY <1>1, <1>3
  <1> QED
    BY <1>4, <1>5

LEMMA ContextLeast ==
    ASSUME NEW m \in Nat, NEW n \in Nat
    PROVE  Context!Min({m, n}) = IF m <= n THEN m ELSE n
  BY DEF Context!Min

LEMMA SegmentsLen ==
    ASSUME NEW S, IsFiniteSet(S)
    PROVE  Len(Context!SegmentItems(S)) \in Nat
  <1>1. Cardinality(S) \in Nat
    BY FS_CardinalityType
  <1>2. DOMAIN Context!SegmentItems(S) = 1..Context!Cardinality(S)
    BY DEF Context!SegmentItems, Context!InOrder
  <1> QED
    BY <1>1, <1>2, ContextFiniteSets

LEMMA ContextAnswerPages ==
    ASSUME Context!SourceInv, ContextPages, Context!Answer
    PROVE  ContextPages'
  <1> DEFINE list == IF request.tool = "attendance" THEN Context!AttendanceItems(got.entries)
                     ELSE Context!SegmentItems(got.segments)
             cut == IF request.tool # "attendance" THEN list
                    ELSE SubSeq(list, place.offset + 1,
                                Context!Min({place.offset + PageRows, Len(list)}))
             after == place.offset + Len(cut)
             next == IF after < Len(list)
                     THEN [print |-> Context!Fingerprint(got), offset |-> after]
                     ELSE Context!FirstPage
  <1>1. /\ pc = "answer" /\ got' = Context!Nothing
        /\ UNCHANGED <<version, name, contracts, entries, writes, request, place, stirred>>
        /\ \/ pc' = "refused"
           \/ /\ Context!EntriesValid(got)
              /\ place # Context!FirstPage => place.print = Context!Fingerprint(got)
              /\ ~(place.offset > Len(list))
              /\ pc' = "answered" /\ answer'.next = next
              /\ listed' = list /\ joined' = joined \o cut
              /\ basis' = {[request |-> request, got |-> got]}
    <2>1. /\ pc = "answer" /\ got' = Context!Nothing
          /\ UNCHANGED <<version, name, contracts, entries, writes, request, place, stirred>>
      BY DEF Context!Answer, Context!odoo
    <2>2. \/ pc' = "refused"
          \/ /\ Context!EntriesValid(got)
             /\ ~(place # Context!FirstPage /\ place.print # Context!Fingerprint(got))
             /\ ~(place.offset > Len(list))
             /\ pc' = "answered" /\ answer' = [items |-> cut, next |-> next]
             /\ listed' = list /\ joined' = joined \o cut
             /\ basis' = {[request |-> request, got |-> got]}
      BY Zenon DEF Context!Answer
    <2> HIDE DEF list, cut, next
    <2> QED
      BY <2>1, <2>2
  <1>2. got'.entries = {} /\ got'.segments = {}
    BY <1>1 DEF Context!Nothing
  <1>3. Context!Older(got'.entries)
    BY <1>2, OlderNothing
  <1>4. Context!Older(got.entries)'
    <2>1. Context!Older({})'
      <3>1. Context!Precede({}, Now)'
        BY DEF Context!Precede
      <3> QED
        BY <3>1, ContextFiniteSets, FS_EmptySet DEF Context!Older, Now
    <2> QED
      BY <2>1, <1>2
  <1>5. IsFiniteSet(got'.segments)
    BY <1>2, FS_EmptySet
  <1>6. CASE pc' = "refused"
    <2>1. Context!Place' = Context!FirstPage
      BY <1>6 DEF Context!Place, Context!FirstPage
    <2> QED
      BY <1>4, <1>5, <1>6, <2>1 DEF ContextPages
  <1>7. CASE pc' = "answered"
    <2> HIDE DEF list, cut, after, next
    <2>1. /\ Context!EntriesValid(got)
          /\ place # Context!FirstPage => place.print = Context!Fingerprint(got)
          /\ ~(place.offset > Len(list))
          /\ answer'.next = next
          /\ listed' = list /\ joined' = joined \o cut
          /\ basis' = {[request |-> request, got |-> got]}
      BY <1>1, <1>7
    <2>2. Context!Place = place /\ Context!Place' = next
      BY <1>1, <1>7, <2>1 DEF Context!Place
    <2>3. \A e \in got.entries : e.emp \in DOMAIN got.name /\ e.name = got.name[e.emp]
      BY <2>1 DEF Context!EntriesValid
    <2>4. Context!Older(got.entries)
      BY DEF ContextPages
    <2>5. IsFiniteSet(got.entries) /\ got.entries \subseteq Context!ReadEntry
      BY <2>4, OlderIs
    <2>6. place = Context!FirstPage => joined = <<>> /\ place.offset = 0
      BY <1>1, <2>2 DEF ContextPages, Context!FirstPage
    <2>7. ASSUME place # Context!FirstPage
          PROVE  /\ request.tool = "attendance"
                 /\ place.offset \in 0..Len(Context!AttendanceItems(got.entries))
                 /\ joined = SubSeq(Context!AttendanceItems(got.entries), 1, place.offset)
      <3>1. PICK b \in basis : /\ ContextPage(b, place, joined)
                               /\ Context!Older(b.got.entries)
                               /\ Context!Precede(b.got.entries, got.entries)
        BY <2>2, <2>7 DEF ContextPages
      <3>2. {<<b.request, Context!Anchors(b.got)>>} = {<<request, Context!Anchors(got)>>}
        BY <2>1, <2>7, <3>1 DEF ContextPage, Context!Fingerprint
      <3>3. b.request = request /\ Context!Anchors(b.got) = Context!Anchors(got)
        <4>1. <<b.request, Context!Anchors(b.got)>> \in {<<request, Context!Anchors(got)>>}
          BY <3>2
        <4> QED BY <4>1
      <3>4. b.got.entries \subseteq Context!ReadEntry
        BY <3>1, OlderIs
      <3>5. b.got.entries = got.entries
        BY <2>3, <2>5, <3>1, <3>3, <3>4, ContextAnchors DEF ContextPage
      <3> QED
        BY <3>1, <3>3, <3>5 DEF ContextPage
    <2>8. CASE request.tool # "attendance"
      <3>1. Len(list) \in Nat /\ cut = list /\ place.offset = 0
        BY <2>6, <2>7, <2>8, SegmentsLen DEF ContextPages, list, cut
      <3>2. next = Context!FirstPage
        BY <3>1 DEF next, after
      <3> QED
        BY <1>1, <1>4, <1>5, <1>7, <2>2, <2>8, <3>2 DEF ContextPages
    <2>9. CASE request.tool = "attendance"
      <3> DEFINE T == ItemsOf(got.entries)
                 m == Context!Min({place.offset + PageRows, Len(list)})
      <3>1. list = Context!AttendanceItems(got.entries) /\ list \in Seq(T) /\ Len(list) \in Nat
        <4>1. Context!AttendanceItems(got.entries) \in Seq(T)
          BY <2>5, AttendanceSorted
        <4> HIDE DEF T
        <4> QED
          BY <2>9, <4>1 DEF list
      <3> HIDE DEF T
      <3>2. place.offset \in Nat /\ place.offset <= Len(list) /\ joined = SubSeq(list, 1, place.offset)
        <4>1. CASE place = Context!FirstPage
          <5>1. SubSeq(list, 1, 0) = <<>>
            BY <3>1
          <5> QED BY <2>6, <3>1, <4>1, <5>1
        <4>2. CASE place # Context!FirstPage
          BY <2>7, <3>1, <4>2
        <4> QED BY <4>1, <4>2
      <3>3. PageRows \in Nat
        BY PayrollReadsAssumption DEF Context!PayrollContextAssumption
      <3>4. m \in Nat /\ place.offset <= m /\ m <= Len(list)
        <4>1. place.offset + PageRows \in Nat
          BY <3>2, <3>3
        <4>2. m = IF place.offset + PageRows <= Len(list) THEN place.offset + PageRows
                  ELSE Len(list)
          BY <3>1, <4>1, ContextLeast
        <4> HIDE DEF m
        <4> QED BY <3>1, <3>2, <3>3, <4>2
      <3>5. cut = SubSeq(list, place.offset + 1, m)
        BY <2>9 DEF cut
      <3> HIDE DEF m
      <3>6. Len(cut) = m - place.offset /\ joined' = SubSeq(list, 1, m)
        <4>1. /\ Len(SubSeq(list, place.offset + 1, m)) = m - place.offset
              /\ SubSeq(list, 1, place.offset) \o SubSeq(list, place.offset + 1, m) = SubSeq(list, 1, m)
          <5>1. \A k \in Nat : k <= Len(list) /\ k <= m =>
                  /\ Len(SubSeq(list, k + 1, m)) = m - k
                  /\ SubSeq(list, 1, k) \o SubSeq(list, k + 1, m) = SubSeq(list, 1, m)
            BY <3>1, <3>4, PageJoins
          <5> QED BY <3>2, <3>4, <5>1
        <4> QED BY <2>1, <3>2, <3>5, <4>1
      <3>7. after = m
        BY <3>2, <3>4, <3>6 DEF after
      <3>8. Len(SubSeq(list, 1, m)) = m
        BY <3>1, <3>4
      <3>9. joined' = SubSeq(listed', 1, Len(joined'))
        BY <2>1, <3>6, <3>8
      <3>10. ASSUME next # Context!FirstPage
             PROVE  \E b \in basis' : /\ ContextPage(b, next, joined')
                                      /\ Context!Older(b.got.entries)'
                                      /\ Context!Precede(b.got.entries, got'.entries)
        <4>0. PICK b : b = [request |-> request, got |-> got]
          OBVIOUS
        <4>1. b \in basis' /\ b.got = got /\ b.request = request
          BY <2>1, <4>0
        <4>2. next.print = {<<request, Context!Anchors(got)>>} /\ next.offset = m
          BY <3>7, <3>10 DEF next, Context!Fingerprint
        <4>3. ContextPage(b, next, joined')
          <5>1. m \in 0..Len(list)
            BY <3>1, <3>4
          <5> QED
            BY <2>3, <2>9, <3>1, <3>6, <4>1, <4>2, <5>1 DEF ContextPage
        <4>4. Context!Next
          BY DEF Context!Next
        <4>5. ASSUME NEW S, Context!Older(S) PROVE Context!Older(S)'
          BY <4>4, <4>5, OlderStays
        <4>6. Context!Older(b.got.entries)'
          <5>1. \A S : Context!Older(S) => Context!Older(S)'
            BY <4>5
          <5>2. Context!Older(b.got.entries)
            BY <2>4, <4>1
          <5> QED
            BY <5>1, <5>2
        <4>7. Context!Precede(b.got.entries, got'.entries)
          BY <1>2, OlderNothing
        <4> QED BY <4>1, <4>3, <4>6, <4>7
      <3> QED
        BY <1>1, <1>4, <1>5, <1>7, <2>2, <3>9, <3>10 DEF ContextPages
    <2> QED BY <2>8, <2>9
  <1> QED
    BY <1>1, <1>6, <1>7

LEMMA ContextPagesBegin ==
    ASSUME Context!Init
    PROVE  ContextPages
  <1>1. got.entries = {} /\ got.segments = {} /\ joined = <<>> /\ pc = "employees"
        /\ place = Context!FirstPage
    BY DEF Context!Init, Context!Nothing
  <1> QED
    BY <1>1, OlderNothing, FS_EmptySet DEF ContextPages, Context!Place

LEMMA SegmentsFinite ==
    ASSUME Context!SourceInv
    PROVE  /\ IsFiniteSet(Context!Domain) /\ Context!Domain \subseteq contracts
           /\ IsFiniteSet(Context!Segments(Context!Domain))
  <1>1. IsFiniteSet(contracts)
    BY ContextFiniteSets DEF Context!SourceInv
  <1>2. Context!Domain \subseteq contracts /\ IsFiniteSet(Context!Domain)
    BY <1>1, FS_Subset DEF Context!Domain
  <1> DEFINE D == {c \in Context!Domain : /\ Context!Begin(c) <= LastDay
                                          /\ \A e \in Context!Ends(c, Context!Domain) : FirstDay <= e}
             f == [c \in D |-> [id |-> c.id, emp |-> c.emp, name |-> name[c.emp],
                                from |-> Context!Max({Context!Begin(c), FirstDay}),
                                to |-> Context!Min(Context!Ends(c, Context!Domain) \cup {LastDay}),
                                wd |-> c.wd]]
  <1>3. IsFiniteSet(D)
    BY <1>2, FS_Subset
  <1>4. f \in Surjection(D, Context!Segments(Context!Domain))
    BY DEF Context!Segments, Surjection
  <1> HIDE DEF f, D
  <1> QED
    BY <1>2, <1>3, <1>4, FS_Surjection

LEMMA ContextPagesStay ==
    ASSUME Context!SourceInv, Context!QuietInv, ContextPages, Context!Next
    PROVE  ContextPages'
  <1>1. \A S : Context!Older(S) => Context!Older(S)'
    BY OlderStays
  <1>2. CASE Context!Answer
    BY <1>2, ContextAnswerPages
  <1> DEFINE kept == /\ UNCHANGED <<joined, basis, listed, request>>
                     /\ Context!Place' = Context!Place
                     /\ pc' = pc \/ pc' \notin {"answered", "refused"}
                     /\ pc \in {"answered", "refused"} => pc' = pc
             newer == \/ got'.entries = got.entries
                      \/ got'.entries = {}
                      \/ Context!Older(got'.entries) /\ got'.entries \subseteq Now
             ended == pc' = "refused"
  <1>3. Context!Older(got.entries)
    BY DEF ContextPages
  <1>4. Context!Older({})
    BY OlderNothing
  <1>5. ASSUME newer PROVE Context!Older(got.entries)'
    <2>1. Context!Older(got'.entries)
      BY <1>3, <1>4, <1>5
    <2>2. Context!Older({}) => Context!Older({})'
      BY <1>1
    <2>3. PICK S : S = got'.entries
      OBVIOUS
    <2>4. Context!Older(S)'
      BY <1>1, <2>1, <2>3
    <2> QED BY <2>3, <2>4
  <1>6. ASSUME newer, kept, IsFiniteSet(got'.segments)
        PROVE  ContextPages'
    <2>1. ASSUME NEW b \in basis, Context!Older(b.got.entries), Context!Precede(b.got.entries, got.entries)
          PROVE  Context!Older(b.got.entries)' /\ Context!Precede(b.got.entries, got'.entries)
      <3>1. Context!Older(b.got.entries)'
        BY <1>1, <2>1
      <3>2. Context!Precede(b.got.entries, Now)
        BY <2>1, OlderIs
      <3>3. Context!Precede(b.got.entries, got'.entries)
        BY <1>6, <2>1, <3>2 DEF Context!Precede
      <3> QED BY <3>1, <3>3
    <2>2. Context!Place # Context!FirstPage =>
            \E b \in basis : /\ ContextPage(b, Context!Place, joined)
                             /\ Context!Older(b.got.entries)'
                             /\ Context!Precede(b.got.entries, got'.entries)
      BY <2>1 DEF ContextPages
    <2>3. Context!Older(got.entries)'
      BY <1>5, <1>6
    <2> QED
      BY <1>6, <2>2, <2>3 DEF ContextPages
  <1>7. ASSUME newer, ended, IsFiniteSet(got'.segments)
        PROVE  ContextPages'
    <2>1. Context!Place' = Context!FirstPage
      BY <1>7 DEF Context!Place, Context!FirstPage
    <2>2. Context!Older(got.entries)'
      BY <1>5, <1>7
    <2> QED
      BY <1>7, <2>1, <2>2 DEF ContextPages
  <1>8. Context!Nothing.entries = {} /\ Context!Nothing.segments = {} /\ IsFiniteSet({})
    BY FS_EmptySet DEF Context!Nothing
  <1>9. IsFiniteSet(got.segments)
    BY DEF ContextPages
  <1>10. pc \in {"employees", "answered", "refused"} => got = Context!Nothing
    BY DEF Context!QuietInv, Context!Underway
  <1>11. CASE Context!ReadRefused
    <2>1. pc' = "refused" /\ got' = Context!Nothing
      BY <1>11 DEF Context!ReadRefused, Context!Refuse
    <2> QED
      BY <1>7, <1>8, <2>1
  <1>12. CASE Context!ReadEmployees
    <2>1. /\ pc = "employees" /\ pc' \in {"entries", "segments"}
          /\ UNCHANGED <<joined, basis, listed, request, place>>
          /\ got' = [Context!Nothing EXCEPT !.name = name]
      BY <1>10, <1>12 DEF Context!ReadEmployees, Context!Quietly
    <2>2. got'.entries = {} /\ got'.segments = {}
      BY <2>1 DEF Context!Nothing
    <2>3. Context!Place' = Context!Place
      BY <2>1 DEF Context!Place
    <2> QED
      BY <1>6, <1>8, <2>1, <2>2, <2>3
  <1>13. CASE Context!ReadSegments
    <2>1. CASE pc' = "refused" /\ got' = Context!Nothing
      BY <1>7, <1>8, <2>1
    <2>2. CASE /\ got' = [got EXCEPT !.segments = Context!Segments(Context!Domain)]
               /\ pc' \in {"entries", "answer"}
      <3>1. pc = "segments" /\ UNCHANGED <<joined, basis, listed, request, place>>
        BY <1>13 DEF Context!ReadSegments, Context!Quietly
      <3>2. Context!Place' = Context!Place
        BY <2>2, <3>1 DEF Context!Place
      <3>3. got'.entries = got.entries
        BY <2>2
      <3>4. IsFiniteSet(got'.segments)
        <4>1. got'.segments = Context!Segments(Context!Domain) \/ got'.segments = got.segments
          BY <2>2
        <4> QED BY <1>9, <4>1, SegmentsFinite
      <3> QED
        BY <1>6, <2>2, <3>1, <3>2, <3>3, <3>4
    <2> QED
      BY <1>13, <2>1, <2>2 DEF Context!ReadSegments, Context!Refuse
  <1>14. CASE Context!ReadEntries
    <2>1. /\ pc = "entries" /\ pc' \in {"segments", "answer"}
          /\ UNCHANGED <<joined, basis, listed, request, place>>
          /\ got' = [got EXCEPT !.entries = Context!WorkEntries(request.states)]
      BY <1>14 DEF Context!ReadEntries, Context!Quietly
    <2>2. got'.segments = got.segments
      BY <2>1
    <2>3. Context!Place' = Context!Place
      BY <2>1 DEF Context!Place
    <2>4. newer
      <3>1. got'.entries = Context!WorkEntries(request.states) \/ got'.entries = got.entries
        BY <2>1
      <3> QED
        BY <3>1, ReadNow
    <2> QED
      BY <1>6, <1>9, <2>1, <2>2, <2>3, <2>4
  <1>15. CASE \E q \in ContextRequests, c \in {Context!FirstPage, answer.next} : Context!Ask(q, c)
    <2>1. PICK c : /\ pc \in {"answered", "refused"} /\ place' = c /\ pc' = "employees"
                   /\ c = Context!FirstPage \/ (pc = "answered" /\ c = answer.next)
                   /\ joined' = IF c = Context!FirstPage THEN <<>> ELSE joined
                   /\ basis' = IF c = Context!FirstPage THEN {} ELSE basis
                   /\ got' = got
      BY <1>15 DEF Context!Ask
    <2>2. Context!Place' = c
      BY <2>1 DEF Context!Place
    <2>3. Context!Older(got.entries)'
      BY <1>5, <2>1
    <2>4. CASE c = Context!FirstPage
      BY <1>9, <2>1, <2>2, <2>3, <2>4 DEF ContextPages
    <2>5. CASE c # Context!FirstPage
      <3>1. Context!Place = c
        BY <2>1, <2>5 DEF Context!Place
      <3>2. PICK b \in basis : /\ ContextPage(b, c, joined)
                               /\ Context!Older(b.got.entries)
                               /\ Context!Precede(b.got.entries, got.entries)
        BY <2>5, <3>1 DEF ContextPages
      <3>3. Context!Older(b.got.entries)'
        BY <1>1, <3>2
      <3>4. b \in basis' /\ joined' = joined
        BY <2>1, <2>5
      <3> QED
        BY <1>9, <2>1, <2>2, <2>3, <2>5, <3>2, <3>3, <3>4 DEF ContextPages
    <2> QED BY <2>4, <2>5
  <1>16. CASE Context!Write
    <2>1. UNCHANGED <<request, place, pc, got, answer, listed, joined, basis>>
      BY <1>16 DEF Context!Write
    <2>2. Context!Place' = Context!Place
      BY <2>1 DEF Context!Place
    <2> QED
      BY <1>6, <1>9, <2>1, <2>2
  <1> QED
    BY <1>2, <1>11, <1>12, <1>13, <1>14, <1>15, <1>16, ContextActions

LEMMA AttendanceHolds ==
    ASSUME Context!SourceInv, Context!QuietInv, ContextPages
    PROVE  Context!AttendanceOfOneMoment
  <1> SUFFICES ASSUME pc = "answered", request.tool = "attendance"
               PROVE  /\ joined = SubSeq(listed, 1, Len(joined))
                      /\ ~stirred =>
                           LET W == Context!WorkEntries(request.states)
                               of(x) == {e \in W : e.emp = x.emp /\ e.state = x.state}
                           IN  /\ \A e \in W : \E k \in DOMAIN listed : e \in of(listed[k])
                               /\ \A k \in DOMAIN listed :
                                     /\ listed[k].hours = Context!Hours(of(listed[k]))
                                     /\ \A j \in DOMAIN listed \ {k} : of(listed[j]) # of(listed[k])
    BY DEF Context!AttendanceOfOneMoment
  <1>1. joined = SubSeq(listed, 1, Len(joined))
    BY DEF ContextPages
  <1>2. ASSUME ~stirred
        PROVE  listed = Context!AttendanceItems(Context!WorkEntries(request.states))
    BY <1>2 DEF Context!QuietInv
  <1> DEFINE W == Context!WorkEntries(request.states)
             of(x) == {e \in W : e.emp = x.emp /\ e.state = x.state}
  <1>3. IsFiniteSet(W) /\ W \subseteq Context!ReadEntry
    BY ReadNow, OlderIs
  <1> HIDE DEF W
  <1>4. ASSUME NEW e \in W
        PROVE  /\ Context!AttendanceItem(e, W).emp = e.emp
               /\ Context!AttendanceItem(e, W).state = e.state
               /\ Context!AttendanceItem(e, W).hours = Context!Hours(of(e))
               /\ of(Context!AttendanceItem(e, W)) = of(e)
    BY ItemIs
  <1>5. ASSUME ~stirred
        PROVE  /\ \A e \in W : \E k \in DOMAIN listed : e \in of(listed[k])
               /\ \A k \in DOMAIN listed :
                     /\ listed[k].hours = Context!Hours(of(listed[k]))
                     /\ \A j \in DOMAIN listed \ {k} : of(listed[j]) # of(listed[k])
    <2>1. /\ listed \in Seq(ItemsOf(W))
          /\ \A a \in ItemsOf(W) : \E k \in DOMAIN listed : listed[k] = a
          /\ \A j, k \in DOMAIN listed : j # k => listed[j] # listed[k]
      BY <1>2, <1>3, <1>5, AttendanceSorted DEF W
    <2>2. \A k \in DOMAIN listed : listed[k] \in ItemsOf(W)
      BY <2>1
    <2>3. \A k \in DOMAIN listed : \E e \in W : listed[k] = Context!AttendanceItem(e, W)
      BY <2>2 DEF ItemsOf
    <2>4. ASSUME NEW e \in W PROVE \E k \in DOMAIN listed : e \in of(listed[k])
      <3>1. PICK k \in DOMAIN listed : listed[k] = Context!AttendanceItem(e, W)
        BY <2>1 DEF ItemsOf
      <3> QED BY <1>4, <3>1
    <2>5. ASSUME NEW k \in DOMAIN listed PROVE listed[k].hours = Context!Hours(of(listed[k]))
      <3>1. PICK e \in W : listed[k] = Context!AttendanceItem(e, W)
        BY <2>3
      <3>2. of(listed[k]) = of(e) /\ listed[k].hours = Context!Hours(of(e))
        BY <1>4, <3>1
      <3> HIDE DEF of
      <3> QED BY <3>2
    <2>6. ASSUME NEW k \in DOMAIN listed, NEW j \in DOMAIN listed \ {k}, of(listed[j]) = of(listed[k])
          PROVE  FALSE
      <3>1. PICK d \in W : listed[j] = Context!AttendanceItem(d, W)
        BY <2>3
      <3>2. PICK e \in W : listed[k] = Context!AttendanceItem(e, W)
        BY <2>3
      <3>3. d \in of(listed[j]) /\ d \in of(listed[k])
        BY <1>4, <2>6, <3>1
      <3>4. d.emp = e.emp /\ d.state = e.state
        BY <1>4, <3>2, <3>3
      <3> QED
        BY <2>1, <3>1, <3>2, <3>4, ItemOne
    <2> QED BY <2>4, <2>5, <2>6
  <1> QED
    BY <1>1, <1>5 DEF W
----------------------------------------------------------------------------
\* The contract of the day.

LEMMA LeastIs ==
    ASSUME NEW S \in SUBSET Nat, S # {}
    PROVE  Context!Min(S) \in S /\ \A y \in S : Context!Min(S) <= y
  <1>1. \E x \in S : \A y \in S : x <= y
    BY LeastNumber
  <1> QED
    BY <1>1 DEF Context!Min

LEMMA MostOfTwo ==
    ASSUME NEW m \in Nat, NEW n \in Nat
    PROVE  Context!Max({m, n}) = IF m >= n THEN m ELSE n
  BY DEF Context!Max

LEMMA ContractTypes ==
    ASSUME Context!SourceInv
    PROVE  /\ version \in {18, 19} /\ FirstDay \in Nat /\ LastDay \in Nat /\ FirstDay <= LastDay
           /\ Context!Identified(contracts)
           /\ \A c \in contracts : /\ c.id \in Nat /\ c.rev \in Nat /\ c.start \in Nat
                                   /\ c.finish \in Nat /\ c.emp \in Employees
  BY PayrollReadsAssumption DEF Context!SourceInv, Context!PayrollContextAssumption, Context!Contract

\* What a row of the domain begins and ends with, in numbers.
LEMMA Bounds ==
    ASSUME Context!SourceInv, NEW c \in contracts
    PROVE  /\ Context!Begin(c) \in Nat
           /\ \A day \in Nat : Context!Begin(c) <= day
                 <=> c.start <= day /\ (version = 19 => c.rev <= day)
           /\ Context!Ends(c, Context!Domain) \in SUBSET Nat
           /\ \A day \in Nat : (\A e \in Context!Ends(c, Context!Domain) : day <= e)
                 <=> /\ c.finish = 0 \/ day <= c.finish
                     /\ version = 19 => \A d \in Context!Domain :
                                           d.emp = c.emp /\ d.rev > c.rev => day < d.rev
  <1>0. /\ version \in {18, 19} /\ c.rev \in Nat /\ c.start \in Nat /\ c.finish \in Nat
        /\ \A d \in Context!Domain : d.rev \in Nat
    BY ContractTypes DEF Context!Domain
  <1> DEFINE L == Context!Later(c, Context!Domain)
  <1>1. /\ L \in SUBSET Nat
        /\ \A r : r \in L <=> \E d \in Context!Domain : d.emp = c.emp /\ d.rev > c.rev /\ r = d.rev
    BY <1>0 DEF Context!Later
  <1>2. Context!Begin(c) \in Nat
        /\ \A day \in Nat : Context!Begin(c) <= day <=> c.start <= day /\ (version = 19 => c.rev <= day)
    BY <1>0, MostOfTwo DEF Context!Begin
  <1>3. Context!Ends(c, Context!Domain) = ({c.finish} \ {0})
            \cup (IF version = 19 /\ L # {} THEN {Context!Min(L) - 1} ELSE {})
    BY DEF Context!Ends
  <1> HIDE DEF L
  <1>4. ASSUME L # {}
        PROVE  /\ Context!Min(L) \in Nat /\ Context!Min(L) - 1 \in Nat
               /\ \A day \in Nat : day <= Context!Min(L) - 1 <=> \A r \in L : day < r
    <2>1. Context!Min(L) \in L /\ \A y \in L : Context!Min(L) <= y
      BY <1>1, <1>4, LeastIs
    <2>2. Context!Min(L) \in Nat /\ Context!Min(L) > c.rev
      BY <1>1, <2>1
    <2>3. \A r \in L : r \in Nat
      BY <1>1
    <2>4. Context!Min(L) - 1 \in Nat
      BY <1>0, <2>2
    <2>5. ASSUME NEW day \in Nat, day <= Context!Min(L) - 1, NEW r \in L PROVE day < r
      BY <2>1, <2>2, <2>3, <2>5
    <2>6. ASSUME NEW day \in Nat, \A r \in L : day < r PROVE day <= Context!Min(L) - 1
      <3>1. day < Context!Min(L)
        BY <2>1, <2>6
      <3> QED BY <2>2, <3>1
    <2> QED BY <2>2, <2>4, <2>5, <2>6
  <1>5. Context!Ends(c, Context!Domain) \in SUBSET Nat
    BY <1>0, <1>3, <1>4
  <1>6. ASSUME NEW day \in Nat
        PROVE  (\A e \in Context!Ends(c, Context!Domain) : day <= e)
                 <=> /\ c.finish = 0 \/ day <= c.finish
                     /\ version = 19 => \A d \in Context!Domain :
                                           d.emp = c.emp /\ d.rev > c.rev => day < d.rev
    <2>1. (\A e \in Context!Ends(c, Context!Domain) : day <= e)
            <=> /\ c.finish = 0 \/ day <= c.finish
                /\ version = 19 /\ L # {} => day <= Context!Min(L) - 1
      BY <1>3
    <2>2. L # {} => (day <= Context!Min(L) - 1 <=> \A r \in L : day < r)
      BY <1>4
    <2>3. (\A r \in L : day < r) <=> \A d \in Context!Domain :
                                           d.emp = c.emp /\ d.rev > c.rev => day < d.rev
      BY <1>1
    <2> QED BY <2>1, <2>2, <2>3
  <1> QED
    BY <1>2, <1>5, <1>6

SegmentOf(c) ==
    [id |-> c.id, emp |-> c.emp, name |-> name[c.emp],
     from |-> Context!Max({Context!Begin(c), FirstDay}),
     to |-> Context!Min(Context!Ends(c, Context!Domain) \cup {LastDay}), wd |-> c.wd]

Shown == {c \in Context!Domain : /\ Context!Begin(c) <= LastDay
                                 /\ \A e \in Context!Ends(c, Context!Domain) : FirstDay <= e}

LEMMA SegmentsAre ==
    ASSUME Context!SourceInv
    PROVE  /\ Context!Segments(Context!Domain) = {SegmentOf(c) : c \in Shown}
           /\ \A c \in Shown :
                 LET s == SegmentOf(c)
                 IN  /\ s.id = c.id /\ s.emp = c.emp /\ s.name = name[c.emp]
                     /\ s.from \in Nat /\ s.to \in Nat
                     /\ FirstDay <= s.from /\ Context!Begin(c) <= s.from /\ s.to <= LastDay
                     /\ \A e \in Context!Ends(c, Context!Domain) : s.to <= e
                     /\ \A day \in FirstDay..LastDay :
                           s.from <= day /\ day <= s.to
                             <=> /\ Context!Begin(c) <= day
                                 /\ \A e \in Context!Ends(c, Context!Domain) : day <= e
                     /\ (\A e \in Context!Ends(c, Context!Domain) : Context!Begin(c) <= e)
                           => s.from <= s.to
  <1>1. Context!Segments(Context!Domain) = {SegmentOf(c) : c \in Shown}
    BY DEF Context!Segments, SegmentOf, Shown
  <1>2. ASSUME NEW c \in Shown
        PROVE  LET s == SegmentOf(c)
               IN  /\ s.id = c.id /\ s.emp = c.emp /\ s.name = name[c.emp]
                   /\ s.from \in Nat /\ s.to \in Nat
                   /\ FirstDay <= s.from /\ Context!Begin(c) <= s.from /\ s.to <= LastDay
                   /\ \A e \in Context!Ends(c, Context!Domain) : s.to <= e
                   /\ \A day \in FirstDay..LastDay :
                         s.from <= day /\ day <= s.to
                           <=> /\ Context!Begin(c) <= day
                               /\ \A e \in Context!Ends(c, Context!Domain) : day <= e
                   /\ (\A e \in Context!Ends(c, Context!Domain) : Context!Begin(c) <= e)
                         => s.from <= s.to
    <2> DEFINE s == SegmentOf(c)
               E == Context!Ends(c, Context!Domain)
    <2>1. /\ FirstDay \in Nat /\ LastDay \in Nat /\ FirstDay <= LastDay
          /\ Context!Begin(c) \in Nat /\ E \in SUBSET Nat
          /\ Context!Begin(c) <= LastDay /\ \A e \in E : FirstDay <= e
      BY ContractTypes, Bounds DEF Shown, Context!Domain
    <2>2. s.id = c.id /\ s.emp = c.emp /\ s.name = name[c.emp]
      BY DEF SegmentOf
    <2>3. s.from = IF Context!Begin(c) >= FirstDay THEN Context!Begin(c) ELSE FirstDay
      BY <2>1, MostOfTwo DEF SegmentOf
    <2>4. s.to = Context!Min(E \cup {LastDay})
      BY DEF SegmentOf
    <2>5. s.to \in E \cup {LastDay} /\ \A e \in E \cup {LastDay} : s.to <= e
      <3> HIDE DEF E, s
      <3> QED BY <2>1, <2>4, LeastIs
    <2> HIDE DEF E, s
    <2>6. s.to \in Nat /\ s.to <= LastDay /\ \A e \in E : s.to <= e
      BY <2>1, <2>5
    <2>7. s.from \in Nat /\ FirstDay <= s.from /\ Context!Begin(c) <= s.from
      BY <2>1, <2>3
    <2>8. ASSUME NEW day \in FirstDay..LastDay
          PROVE  s.from <= day /\ day <= s.to <=> Context!Begin(c) <= day /\ \A e \in E : day <= e
      <3>1. day \in Nat /\ FirstDay <= day /\ day <= LastDay
        BY <2>1
      <3>2. s.from <= day <=> Context!Begin(c) <= day
        BY <2>1, <2>3, <3>1
      <3>3. ASSUME day <= s.to, NEW e \in E PROVE day <= e
        <4>1. e \in Nat /\ s.to <= e /\ s.to \in Nat
          BY <2>1, <2>5
        <4> QED BY <3>1, <3>3, <4>1
      <3>4. ASSUME \A e \in E : day <= e PROVE day <= s.to
        BY <2>5, <3>1, <3>4
      <3> QED BY <3>2, <3>3, <3>4
    <2>9. (\A e \in E : Context!Begin(c) <= e) => s.from <= s.to
      BY <2>1, <2>3, <2>5
    <2> QED
      BY <2>2, <2>6, <2>7, <2>8, <2>9 DEF E, s
  <1> QED
    BY <1>1, <1>2

LEMMA ForceIs ==
    ASSUME Context!SourceInv, NEW c \in contracts, NEW day \in FirstDay..LastDay
    PROVE  Context!InForce(c, day)
             <=> /\ c \in Context!Domain /\ Context!Begin(c) <= day
                 /\ \A e \in Context!Ends(c, Context!Domain) : day <= e
  <1>1. /\ version \in {18, 19} /\ c.rev \in Nat /\ c.start \in Nat /\ c.finish \in Nat
        /\ FirstDay \in Nat /\ LastDay \in Nat
        /\ \A d \in contracts : d.rev \in Nat
        /\ day \in Nat /\ FirstDay <= day /\ day <= LastDay
    BY ContractTypes
  <1>2. Context!Begin(c) <= day <=> c.start <= day /\ (version = 19 => c.rev <= day)
    BY <1>1, Bounds
  <1>3. (\A e \in Context!Ends(c, Context!Domain) : day <= e)
           <=> /\ c.finish = 0 \/ day <= c.finish
               /\ version = 19 => \A d \in Context!Domain :
                                     d.emp = c.emp /\ d.rev > c.rev => day < d.rev
    BY <1>1, Bounds
  <1>4. \A d : d \in Context!Domain <=> d \in contracts /\ Context!InDomain(d)
    BY DEF Context!Domain
  <1>5. CASE version = 18
    <2>1. Context!InForce(c, day) <=> c.start <= day /\ (c.finish = 0 \/ day <= c.finish)
      BY <1>5 DEF Context!InForce
    <2>2. Context!InDomain(c) <=> c.start <= LastDay /\ (c.finish = 0 \/ c.finish >= FirstDay)
      BY <1>5 DEF Context!InDomain
    <2> QED
      BY <1>1, <1>2, <1>3, <1>4, <1>5, <2>1, <2>2
  <1>6. CASE version = 19
    <2>1. Context!InForce(c, day)
            <=> /\ c.start <= day /\ (c.finish = 0 \/ day <= c.finish) /\ c.rev <= day
                /\ \A d \in contracts : d.emp = c.emp /\ d.rev <= day => d.rev <= c.rev
      BY <1>6 DEF Context!InForce
    <2>2. \A d : Context!InDomain(d) <=> d.rev <= LastDay
      BY <1>6 DEF Context!InDomain
    <2>3. ASSUME \A d \in contracts : d.emp = c.emp /\ d.rev <= day => d.rev <= c.rev
          PROVE  \A d \in Context!Domain : d.emp = c.emp /\ d.rev > c.rev => day < d.rev
      BY <1>1, <1>4, <2>3
    <2>4. ASSUME \A d \in Context!Domain : d.emp = c.emp /\ d.rev > c.rev => day < d.rev,
                 NEW d \in contracts, d.emp = c.emp, d.rev <= day
          PROVE  d.rev <= c.rev
      <3>1. d \in Context!Domain
        BY <1>1, <1>4, <2>2, <2>4
      <3> QED BY <1>1, <2>4, <3>1
    <2> QED
      BY <1>1, <1>2, <1>3, <1>4, <1>6, <2>1, <2>2, <2>3, <2>4
  <1> QED
    BY <1>1, <1>5, <1>6

\* A version has begun and has not ended when it is in force.
LEMMA ForceBounds ==
    ASSUME Context!SourceInv, NEW c \in contracts, NEW day \in Nat, Context!InForce(c, day)
    PROVE  /\ Context!Begin(c) <= day
           /\ \A e \in Context!Ends(c, Context!Domain) : day <= e
  <1>1. /\ version \in {18, 19} /\ c.rev \in Nat
        /\ \A d \in contracts : d.rev \in Nat
    BY ContractTypes
  <1>2. Context!Domain \subseteq contracts
    BY DEF Context!Domain
  <1>3. /\ c.start <= day /\ (c.finish = 0 \/ day <= c.finish)
        /\ version = 19 => /\ c.rev <= day
                           /\ \A d \in contracts : d.emp = c.emp /\ d.rev <= day => d.rev <= c.rev
    BY DEF Context!InForce
  <1>4. Context!Begin(c) <= day
    BY <1>3, Bounds
  <1>5. version = 19 => \A d \in Context!Domain : d.emp = c.emp /\ d.rev > c.rev => day < d.rev
    BY <1>1, <1>2, <1>3
  <1>6. \A e \in Context!Ends(c, Context!Domain) : day <= e
    BY <1>3, <1>5, Bounds
  <1> QED
    BY <1>4, <1>6

Earlier(a, b) == a.from < b.from \/ (a.from = b.from /\ a.id < b.id)

\* A context lists the segments, each once.
LEMMA SegmentsListed ==
    ASSUME Context!SourceInv
    PROVE  LET S == Context!Segments(Context!Domain)
               s == Context!SegmentItems(S)
           IN  (\A k \in DOMAIN s : s[k] \in S) /\ (\A x \in S : \E k \in DOMAIN s : s[k] = x)
  <1> DEFINE S == Context!Segments(Context!Domain)
             R == {p \in S \X S : Earlier(p[1], p[2])}
  <1>1. IsFiniteSet(S)
    BY SegmentsFinite
  <1>2. Context!Domain \subseteq contracts
    BY SegmentsFinite
  <1>3. \A x \in S : \E c \in contracts : x = SegmentOf(c) /\ x.id = c.id /\ x.from \in Nat /\ x.id \in Nat
    <2> SUFFICES ASSUME NEW c \in Shown
                 PROVE  /\ c \in contracts /\ SegmentOf(c).id = c.id /\ SegmentOf(c).from \in Nat
                        /\ SegmentOf(c).id \in Nat
      BY SegmentsAre
    <2>1. c \in contracts
      BY <1>2 DEF Shown
    <2> QED BY <2>1, SegmentsAre, ContractTypes
  <1>4. \A x, y \in S : x.id = y.id => x = y
    <2> HIDE DEF S
    <2> QED BY <1>3, ContractTypes DEF Context!Identified
  <1>5. \A x, y \in S : <<x, y>> \in R <=> Earlier(x, y)
    OBVIOUS
  <1>6. Orders(R, S)
    <2> HIDE DEF R, S
    <2> QED BY <1>3, <1>4, <1>5 DEF Orders, Earlier
  <1>7. \A x \in S : {y \in S : Earlier(y, x)} = Under(S, R, x)
    BY DEF Under
  <1> HIDE DEF R
  <1>8. Context!SegmentItems(S) = Sorted(S, R)
    <2> HIDE DEF S
    <2>1. Context!SegmentItems(S)
            = [k \in 1..Context!Cardinality(S) |->
                 CHOOSE x \in S : Context!Cardinality({y \in S : Earlier(y, x)}) = k - 1]
      BY Zenon DEF Context!SegmentItems, Context!InOrder, Earlier
    <2>2. ASSUME NEW k
          PROVE  (CHOOSE x \in S : Context!Cardinality({y \in S : Earlier(y, x)}) = k - 1)
                   = (CHOOSE x \in S : Cardinality(Under(S, R, x)) = k - 1)
      BY <1>7, ContextFiniteSets
    <2>3. Context!Cardinality(S) = Cardinality(S)
      BY ContextFiniteSets
    <2> QED
      BY <2>1, <2>2, <2>3, Zenon DEF Sorted
  <1> HIDE DEF S
  <1>9. /\ Sorted(S, R) \in Seq(S) /\ Len(Sorted(S, R)) = Cardinality(S)
        /\ \A x \in S : \E k \in 1..Cardinality(S) : Sorted(S, R)[k] = x
    BY <1>1, <1>6, SortedRows
  <1>10. DOMAIN Sorted(S, R) = 1..Cardinality(S)
    BY <1>9, SeqDomain
  <1>11. \A k \in DOMAIN Sorted(S, R) : Sorted(S, R)[k] \in S
    BY <1>9
  <1> QED
    BY <1>8, <1>9, <1>10, <1>11 DEF S

LEMMA DayShown ==
    ASSUME Context!SourceInv, NEW c \in contracts, NEW day \in FirstDay..LastDay
    PROVE  Context!InForce(c, day)
             <=> \E s \in Context!Segments(Context!Domain) :
                    s.id = c.id /\ s.emp = c.emp /\ s.from <= day /\ day <= s.to
  <1>1. Context!InForce(c, day)
          <=> /\ c \in Context!Domain /\ Context!Begin(c) <= day
              /\ \A e \in Context!Ends(c, Context!Domain) : day <= e
    BY ForceIs
  <1>2. Context!Domain \subseteq contracts
    BY SegmentsFinite
  <1>3. /\ FirstDay \in Nat /\ LastDay \in Nat /\ day \in Nat /\ FirstDay <= day /\ day <= LastDay
        /\ Context!Begin(c) \in Nat /\ Context!Ends(c, Context!Domain) \in SUBSET Nat
        /\ Context!Identified(contracts)
    BY ContractTypes, Bounds
  <1>4. ASSUME Context!InForce(c, day)
        PROVE  \E s \in Context!Segments(Context!Domain) :
                    s.id = c.id /\ s.emp = c.emp /\ s.from <= day /\ day <= s.to
    <2>0. \A e \in Context!Ends(c, Context!Domain) : e \in Nat /\ day <= e
      BY <1>1, <1>3, <1>4
    <2>1. c \in Shown
      BY <1>1, <1>3, <1>4, <2>0 DEF Shown
    <2> QED
      BY <1>1, <1>4, <2>1, SegmentsAre
  <1>5. ASSUME NEW s \in Context!Segments(Context!Domain), s.id = c.id, s.from <= day, day <= s.to
        PROVE  Context!InForce(c, day)
    <2>1. PICK d \in Shown : s = SegmentOf(d)
      BY SegmentsAre
    <2>2. d \in contracts /\ s.id = d.id
      BY <1>2, <2>1, SegmentsAre DEF Shown
    <2>3. d = c
      BY <1>3, <1>5, <2>2 DEF Context!Identified
    <2>4. c \in Context!Domain /\ c \in Shown
      BY <2>1, <2>3 DEF Shown
    <2> QED
      BY <1>1, <1>5, <2>1, <2>3, <2>4, SegmentsAre
  <1> QED
    BY <1>4, <1>5

LEMMA ContractHolds ==
    ASSUME Context!SourceInv, Context!QuietInv
    PROVE  Context!ContractOfTheDay
  <1> SUFFICES ASSUME pc = "answered", request.tool = "context", ~stirred
               PROVE  /\ \A day \in FirstDay..LastDay, c \in contracts :
                            Context!InForce(c, day)
                              <=> \E k \in DOMAIN listed : /\ listed[k].id = c.id
                                                           /\ listed[k].from <= day
                                                           /\ day <= listed[k].to
                      /\ \A k \in DOMAIN listed : FirstDay <= listed[k].from /\ listed[k].to <= LastDay
    BY DEF Context!ContractOfTheDay
  <1> DEFINE S == Context!Segments(Context!Domain)
  <1>1. listed = Context!SegmentItems(S)
    BY DEF Context!QuietInv
  <1>2. (\A k \in DOMAIN listed : listed[k] \in S) /\ (\A x \in S : \E k \in DOMAIN listed : listed[k] = x)
    BY <1>1, SegmentsListed
  <1>3. \A x \in S : FirstDay <= x.from /\ x.to <= LastDay
    BY SegmentsAre
  <1>4. Context!Domain \subseteq contracts /\ Context!Identified(contracts)
    BY SegmentsFinite, ContractTypes
  <1>5. ASSUME NEW c \in contracts, NEW x \in S, x.id = c.id PROVE x.emp = c.emp
    <2>1. PICK d \in Shown : x = SegmentOf(d)
      BY SegmentsAre
    <2>2. d \in contracts /\ x.id = d.id /\ x.emp = d.emp
      BY <1>4, <2>1, SegmentsAre DEF Shown
    <2> QED
      BY <1>4, <1>5, <2>2 DEF Context!Identified
  <1> HIDE DEF S
  <1>6. ASSUME NEW day \in FirstDay..LastDay, NEW c \in contracts
        PROVE  Context!InForce(c, day)
                 <=> \E k \in DOMAIN listed : /\ listed[k].id = c.id
                                              /\ listed[k].from <= day
                                              /\ day <= listed[k].to
    <2>1. Context!InForce(c, day)
            <=> \E s \in S : s.id = c.id /\ s.emp = c.emp /\ s.from <= day /\ day <= s.to
      BY DayShown DEF S
    <2> QED
      BY <1>2, <1>5, <2>1
  <1> QED
    BY <1>2, <1>3, <1>6
----------------------------------------------------------------------------
\* Why an undisturbed call is refused.

ContextReason ==
    \/ version = 18 /\ \E c, d \in contracts, day \in FirstDay..LastDay :
           c # d /\ c.emp = d.emp /\ Context!InForce(c, day) /\ Context!InForce(d, day)
    \/ version = 18 /\ \E c \in contracts : c.finish # 0 /\ c.finish < c.start
    \/ version = 19 /\ \E c \in contracts :
           /\ Context!InDomain(c)
           /\ \/ \E d \in contracts : d # c /\ d.emp = c.emp /\ d.rev = c.rev
              \/ \A day \in 1..LastDay + 1 : ~Context!InForce(c, day)
    \/ request.tool = "context"
       /\ \A c \in contracts, day \in FirstDay..LastDay : ~Context!InForce(c, day)
    \/ version = 19 /\ \E e \in entries : \A c \in contracts :
           c.id = e.contract /\ c.emp = e.emp => \E day \in e.from..e.to : ~Context!InForce(c, day)
    \/ request.tool = "snapshot" /\ \E e \in entries : e.from < FirstDay \/ e.to > LastDay

LEMMA ContextRefusalIs ==
    Context!NoFalseRefusal
      <=> (pc = "refused" /\ ~stirred /\ place = Context!FirstPage => ContextReason)
  BY Zenon DEF Context!NoFalseRefusal, ContextReason

LEMMA TwistedReason ==
    ASSUME Context!SourceInv, Context!Twisted(Context!Domain)
    PROVE  ContextReason
  <1>1. Context!Domain \subseteq contracts /\ \A c \in Context!Domain : Context!InDomain(c)
    BY DEF Context!Domain
  <1>2. version \in {18, 19} /\ LastDay \in Nat
    BY ContractTypes
  <1>3. CASE \E c \in Context!Domain : \E e \in Context!Ends(c, Context!Domain) : e < Context!Begin(c)
    <2>0. PICK c \in Context!Domain :
              \E e \in Context!Ends(c, Context!Domain) : e < Context!Begin(c)
      BY <1>3
    <2>1. PICK e \in Context!Ends(c, Context!Domain) : e < Context!Begin(c)
      BY <2>0
    <2>2. c \in contracts /\ Context!InDomain(c) /\ e \in Nat /\ Context!Begin(c) \in Nat
      BY <1>1, <2>1, Bounds
    <2>3. CASE version = 18
      <3>1. e = c.finish /\ c.finish # 0 /\ Context!Begin(c) = c.start
        BY <2>1, <2>3 DEF Context!Ends, Context!Begin
      <3> QED
        BY <2>1, <2>2, <2>3, <3>1 DEF ContextReason
    <2>4. CASE version = 19
      <3>1. ASSUME NEW day \in 1..LastDay + 1, Context!InForce(c, day) PROVE FALSE
        <4>1. day \in Nat
          BY <1>2
        <4>2. Context!Begin(c) <= day /\ day <= e
          BY <2>1, <2>2, <3>1, <4>1, ForceBounds
        <4> QED BY <2>1, <2>2, <4>1, <4>2
      <3> QED
        BY <2>2, <2>4, <3>1 DEF ContextReason
    <2> QED BY <1>2, <2>3, <2>4
  <1>4. CASE version = 19 /\ \E c, d \in Context!Domain : c # d /\ c.emp = d.emp /\ c.rev = d.rev
    BY <1>1, <1>4 DEF ContextReason
  <1> QED
    BY <1>3, <1>4 DEF Context!Twisted

LEMMA OverlappingReason ==
    ASSUME Context!SourceInv, ~Context!Twisted(Context!Domain),
           Context!Overlapping(Context!Segments(Context!Domain))
    PROVE  ContextReason
  <1>1. PICK a \in Context!Segments(Context!Domain), b \in Context!Segments(Context!Domain) :
            a # b /\ a.emp = b.emp /\ a.from <= b.to /\ b.from <= a.to
    BY DEF Context!Overlapping
  <1>2. PICK c \in Shown : a = SegmentOf(c)
    BY SegmentsAre
  <1>3. PICK d \in Shown : b = SegmentOf(d)
    BY SegmentsAre
  <1>4. /\ c \in Context!Domain /\ d \in Context!Domain /\ c \in contracts /\ d \in contracts /\ c # d
    BY <1>1, <1>2, <1>3 DEF Shown, Context!Domain
  <1>5. /\ a.id = c.id /\ a.emp = c.emp /\ b.id = d.id /\ b.emp = d.emp
        /\ a.from \in Nat /\ a.to \in Nat /\ b.from \in Nat /\ b.to \in Nat
        /\ FirstDay <= a.from /\ a.to <= LastDay /\ FirstDay <= b.from /\ b.to <= LastDay
        /\ Context!Begin(c) <= a.from /\ Context!Begin(d) <= b.from
        /\ \A e \in Context!Ends(c, Context!Domain) : a.to <= e
        /\ \A e \in Context!Ends(d, Context!Domain) : b.to <= e
    BY <1>2, <1>3, SegmentsAre
  <1>6. \A x \in Context!Domain : \A e \in Context!Ends(x, Context!Domain) :
            x \in contracts /\ Context!Begin(x) \in Nat /\ e \in Nat /\ ~(e < Context!Begin(x))
    BY Bounds DEF Context!Twisted, Context!Domain
  <1>7. a.from <= a.to /\ b.from <= b.to
    <2>1. \A e \in Context!Ends(c, Context!Domain) : Context!Begin(c) <= e
      BY <1>4, <1>6
    <2>2. \A e \in Context!Ends(d, Context!Domain) : Context!Begin(d) <= e
      BY <1>4, <1>6
    <2> QED BY <1>2, <1>3, <2>1, <2>2, SegmentsAre
  <1>8. version \in {18, 19} /\ c.rev \in Nat /\ d.rev \in Nat /\ FirstDay \in Nat /\ LastDay \in Nat
    BY <1>4, ContractTypes
  <1>9. CASE version = 18
    <2> DEFINE day == IF a.from >= b.from THEN a.from ELSE b.from
    <2>1. day \in FirstDay..LastDay /\ a.from <= day /\ day <= a.to /\ b.from <= day /\ day <= b.to
      BY <1>1, <1>5, <1>7, <1>8
    <2> HIDE DEF day
    <2>2. Context!InForce(c, day) /\ Context!InForce(d, day)
      BY <1>1, <1>4, <1>5, <2>1, DayShown
    <2> QED
      BY <1>1, <1>4, <1>5, <1>9, <2>1, <2>2 DEF ContextReason
  <1>10. CASE version = 19
    <2>1. c.rev # d.rev
      BY <1>1, <1>4, <1>5, <1>10 DEF Context!Twisted
    <2>2. ASSUME NEW x \in Context!Domain, NEW y \in Context!Domain, x.emp = y.emp, y.rev > x.rev,
                 NEW m \in Nat, NEW n \in Nat, x \in contracts, y \in contracts,
                 \A e \in Context!Ends(x, Context!Domain) : m <= e,
                 Context!Begin(y) <= n
          PROVE  m < n
      <3>1. m < y.rev
        BY <1>10, <2>2, Bounds
      <3>2. y.rev <= n
        BY <1>10, <2>2, Bounds
      <3>3. y.rev \in Nat
        BY <2>2, ContractTypes
      <3> QED BY <3>1, <3>2, <3>3
    <2>3. CASE d.rev > c.rev
      <3>1. a.to < b.from
        BY <1>1, <1>4, <1>5, <2>2, <2>3
      <3> QED BY <1>1, <1>5, <3>1
    <2>4. CASE c.rev > d.rev
      <3>1. b.to < a.from
        BY <1>1, <1>4, <1>5, <2>2, <2>4
      <3> QED BY <1>1, <1>5, <3>1
    <2> QED BY <1>8, <2>1, <2>3, <2>4
  <1> QED BY <1>8, <1>9, <1>10

LEMMA ContextRefusalBegins ==
    ASSUME Context!Init
    PROVE  Context!NoFalseRefusal
  BY DEF Context!Init, Context!NoFalseRefusal

LEMMA ContextRefusalStays ==
    ASSUME Context!SourceInv, Context!QuietInv, ContextPages, Context!NoFalseRefusal, Context!Next
    PROVE  Context!NoFalseRefusal'
  <1>1. SUFFICES ASSUME pc' = "refused", ~stirred', place' = Context!FirstPage
                 PROVE  ContextReason'
    BY ContextRefusalIs DEF Context!NoFalseRefusal, ContextReason
  <1>2. /\ pc \in {"segments", "entries", "answer"} /\ ~stirred =>
             /\ got = [name |-> name,
                       segments |-> IF Context!SegmentsRead THEN Context!Segments(Context!Domain)
                                    ELSE {},
                       entries |-> IF Context!EntriesRead THEN Context!WorkEntries(request.states)
                                   ELSE {}]
    BY DEF Context!QuietInv, Context!Underway
  <1>3. ASSUME UNCHANGED <<version, contracts, entries, request>>, ContextReason
        PROVE  ContextReason'
    <2>1. \A c, day : Context!InForce(c, day)' <=> Context!InForce(c, day)
      BY <1>3 DEF Context!InForce
    <2>2. \A c : Context!InDomain(c)' <=> Context!InDomain(c)
      BY <1>3 DEF Context!InDomain
    <2> QED
      BY <1>3, <2>1, <2>2 DEF ContextReason
  <1>4. /\ name \in [Employees -> Nat] /\ Context!Domain \subseteq contracts
        /\ \A c \in contracts : c.emp \in Employees
        /\ \A s \in Context!Segments(Context!Domain) : s.emp \in DOMAIN name /\ s.name = name[s.emp]
    <2>1. name \in [Employees -> Nat] /\ Context!Domain \subseteq contracts
          /\ \A c \in contracts : c.emp \in Employees
      BY ContractTypes DEF Context!SourceInv, Context!Domain
    <2>2. \A c \in Shown : /\ SegmentOf(c).emp = c.emp /\ SegmentOf(c).name = name[c.emp]
                           /\ c.emp \in Employees
      BY <2>1, SegmentsAre DEF Shown
    <2> QED BY <2>1, <2>2, SegmentsAre
  <1>5. CASE Context!ReadSegments
    <2> DEFINE g == [got EXCEPT !.segments = Context!Segments(Context!Domain)]
    <2>1. /\ pc = "segments" /\ UNCHANGED <<version, contracts, entries, request, stirred>>
      BY <1>5 DEF Context!ReadSegments, Context!Quietly, Context!odoo
    <2>2. \/ Context!SegmentsRefused
          \/ ~Context!SegmentsValid(g)
          \/ request.tool = "context" /\ g.segments = {}
      BY <1>1, <1>5, Zenon DEF Context!ReadSegments
    <2>3. g.name = name /\ g.segments = Context!Segments(Context!Domain)
      BY <1>1, <1>2, <2>1
    <2>4. Context!SegmentsValid(g)
      BY <1>4, <2>3 DEF Context!SegmentsValid
    <2>5. CASE Context!SegmentsRefused
      BY <1>3, <2>1, <2>5, TwistedReason, OverlappingReason DEF Context!SegmentsRefused
    <2>6. CASE request.tool = "context" /\ g.segments = {}
      <3>1. \A c \in contracts, day \in FirstDay..LastDay : ~Context!InForce(c, day)
        BY <2>3, <2>6, DayShown
      <3> QED
        BY <1>3, <2>1, <2>6, <3>1 DEF ContextReason
    <2> QED BY <2>2, <2>4, <2>5, <2>6
  <1>6. CASE Context!Answer
    <2>1. /\ pc = "answer" /\ UNCHANGED <<version, contracts, entries, request, stirred, place>>
      BY <1>6 DEF Context!Answer, Context!odoo
    <2> DEFINE list == IF request.tool = "attendance" THEN Context!AttendanceItems(got.entries)
                       ELSE Context!SegmentItems(got.segments)
    <2>2. \/ ~Context!EntriesValid(got)
          \/ place # Context!FirstPage
          \/ place.offset > Len(list)
      BY <1>1, <1>6, Zenon DEF Context!Answer
    <2>3. Len(list) \in Nat
      <3>1. IsFiniteSet(got.entries) /\ got.entries \subseteq Context!ReadEntry /\ IsFiniteSet(got.segments)
        BY OlderIs DEF ContextPages
      <3>2. Context!AttendanceItems(got.entries) \in Seq(ItemsOf(got.entries))
        BY <3>1, AttendanceSorted
      <3> QED BY <3>1, <3>2, SegmentsLen
    <2> HIDE DEF list
    <2>4. place.offset = 0
      BY <1>1, <2>1 DEF Context!FirstPage
    <2>5. ~Context!EntriesValid(got)
      BY <1>1, <2>1, <2>2, <2>3, <2>4
    <2>6. /\ got.name = name
          /\ got.entries = IF Context!EntriesRead THEN Context!WorkEntries(request.states) ELSE {}
          /\ Context!SegmentsRead => got.segments = Context!Segments(Context!Domain)
      BY <1>1, <1>2, <2>1
    <2>7. PICK e \in got.entries :
            ~ /\ e.emp \in DOMAIN got.name /\ e.name = got.name[e.emp]
              /\ e.contract # 0 => Context!UnderContract(e, got.segments)
              /\ request.tool = "snapshot" => FirstDay <= e.from /\ e.to <= LastDay
      BY <2>5 DEF Context!EntriesValid
    <2>8. Context!EntriesRead /\ e \in Context!WorkEntries(request.states)
      BY <2>6, <2>7
    <2>9. PICK x \in entries : /\ e = Context!EntryRow(x)
                               /\ x.from <= LastDay /\ x.to >= FirstDay
      BY <2>8 DEF Context!WorkEntries
    <2>10. /\ e.emp = x.emp /\ e.name = name[x.emp] /\ e.from = x.from /\ e.to = x.to
           /\ e.contract = IF version = 18 THEN 0 ELSE x.contract
      BY <2>9, RowIs
    <2>11. /\ x.emp \in Employees /\ x.from \in Nat /\ x.to \in Nat
           /\ FirstDay \in Nat /\ LastDay \in Nat /\ version \in {18, 19}
           /\ version = 19 => x.from = x.to
      BY ContractTypes DEF Context!SourceInv, Context!Entry
    <2>12. CASE request.tool = "snapshot" /\ ~(FirstDay <= e.from /\ e.to <= LastDay)
      BY <1>3, <2>1, <2>10, <2>11, <2>12 DEF ContextReason
    <2>13. CASE e.contract # 0 /\ ~Context!UnderContract(e, got.segments)
      <3>1. version = 19 /\ x.from = x.to /\ e.contract = x.contract
        BY <2>10, <2>11, <2>13
      <3>2. Context!SegmentsRead
        BY <2>1, <2>7, <2>8, <2>13 DEF Context!SegmentsRead, Context!EntriesRead
      <3>3. x.from \in FirstDay..LastDay
        BY <2>9, <2>11, <3>1
      <3>4. ASSUME NEW c \in contracts, c.id = x.contract, c.emp = x.emp,
                   Context!InForce(c, x.from)
            PROVE  FALSE
        <4>1. PICK s \in Context!Segments(Context!Domain) :
                 s.id = c.id /\ s.emp = c.emp /\ s.from <= x.from /\ x.from <= s.to
          BY <3>3, <3>4, DayShown
        <4>2. Context!UnderContract(e, got.segments)
          BY <2>6, <2>10, <3>1, <3>2, <3>4, <4>1 DEF Context!UnderContract
        <4> QED BY <2>13, <4>2
      <3>5. x.from \in x.from..x.to
        BY <2>11, <3>1
      <3> QED
        BY <1>3, <2>1, <3>1, <3>4, <3>5 DEF ContextReason
    <2> QED
      BY <1>4, <2>6, <2>7, <2>10, <2>11, <2>12, <2>13
  <1>7. CASE Context!ReadRefused
    BY <1>1, <1>7 DEF Context!ReadRefused, Context!Quietly
  <1>8. CASE Context!ReadEmployees \/ Context!ReadEntries
    BY <1>1, <1>8 DEF Context!ReadEmployees, Context!ReadEntries
  <1>9. CASE \E q \in ContextRequests, c \in {Context!FirstPage, answer.next} : Context!Ask(q, c)
    BY <1>1, <1>9 DEF Context!Ask
  <1>10. CASE Context!Write
    BY <1>1, <1>10 DEF Context!Write
  <1> QED
    BY <1>5, <1>6, <1>7, <1>8, <1>9, <1>10, ContextActions
----------------------------------------------------------------------------
\* Payslips, their lines and inputs.

LEMMA EvidenceFiniteSets ==
    /\ \A S : Evidence!IsFiniteSet(S) <=> IsFiniteSet(S)
    /\ \A S : Evidence!Cardinality(S) = Cardinality(S)
  BY Zenon DEF Evidence!IsFiniteSet, IsFiniteSet, Evidence!Cardinality, Cardinality

EvidenceUsers ==
    \/ \E i \in Slips : Evidence!ChangeSlip(i)
    \/ \E i \in Slips, R \in (SUBSET Evidence!Rules) \ {{}} : Evidence!Recalculate(i, R)
    \/ \E l \in line, r \in Evidence!Rules : Evidence!EditLine(l, r)
    \/ \E P \in SUBSET Periods : Evidence!ChangeRun(P)
    \/ \E i \in input : Evidence!DeleteInput(i)
    \/ \E t \in DOMAIN types : Evidence!ArchiveType(t)

EvidenceAsk == \E q \in EvidenceRequests, c \in {Evidence!FirstPage, answer.next} : Evidence!Ask(q, c)

LEMMA EvidenceActions ==
    ASSUME Evidence!Next
    PROVE  \/ Evidence!ReadWindow \/ Evidence!ReadRun \/ Evidence!ReadMembers
           \/ Evidence!ReadPeriod \/ Evidence!ReadSlip \/ Evidence!ReadLines
           \/ Evidence!ReadWorkedDays \/ Evidence!ReadInputs \/ Evidence!ReadTypes
           \/ Evidence!ReadRefused \/ Evidence!Answer
           \/ EvidenceAsk \/ Evidence!Tick
           \/ Evidence!Write /\ EvidenceUsers
  BY Zenon DEF Evidence!Next, Evidence!Read, Evidence!Users, EvidenceUsers, EvidenceAsk,
     Evidence!ChangeSlip, Evidence!Recalculate, Evidence!EditLine, Evidence!ChangeRun,
     Evidence!DeleteInput, Evidence!ArchiveType

\* The steps of the call read Odoo and leave it as it is.
LEMMA EvidenceReads ==
    ASSUME \/ Evidence!ReadWindow \/ Evidence!ReadRun \/ Evidence!ReadMembers
           \/ Evidence!ReadPeriod \/ Evidence!ReadSlip \/ Evidence!ReadLines
           \/ Evidence!ReadWorkedDays \/ Evidence!ReadInputs \/ Evidence!ReadTypes
           \/ Evidence!ReadRefused \/ Evidence!Answer
    PROVE  UNCHANGED <<run, slip, line, input, types, now, lastLine, writes, blurred, request, place,
                       stirred>>
  BY DEF Evidence!ReadWindow, Evidence!ReadRun, Evidence!ReadMembers, Evidence!ReadPeriod,
     Evidence!ReadSlip, Evidence!ReadLines, Evidence!ReadWorkedDays, Evidence!ReadInputs,
     Evidence!ReadTypes, Evidence!ReadRefused, Evidence!Answer, Evidence!Quietly, Evidence!odoo

LEMMA EvidenceAsks ==
    ASSUME EvidenceAsk
    PROVE  /\ UNCHANGED <<run, slip, line, input, types, now, lastLine, writes, blurred, got, chunks>>
           /\ pc \in {"answered", "refused"} /\ request' \in EvidenceRequests
           /\ pc' = Evidence!FirstRead(request') /\ stirred' = FALSE
           /\ place' = Evidence!FirstPage \/ (pc = "answered" /\ place' = answer.next)
           /\ joined' = IF place' = Evidence!FirstPage THEN <<>> ELSE joined
           /\ basis' = IF place' = Evidence!FirstPage THEN {} ELSE basis
           /\ answer' = Evidence!NoAnswer /\ listed' = <<>>
  BY DEF EvidenceAsk, Evidence!Ask, Evidence!odoo

LEMMA EvidenceConstants ==
    /\ Slips \subseteq Nat /\ IsFiniteSet(Slips) /\ Periods \subseteq Nat
    /\ Evidence!Rules \subseteq Nat \ {0} /\ IsFiniteSet(Evidence!Rules)
    /\ States \subseteq STRING
    /\ Chunk \in Nat \ {0} /\ PageRows \in Nat \ {0} /\ MaxLines \in Nat /\ MaxTime \in Nat
    /\ \A q \in EvidenceRequests : Evidence!WellAsked(q)
  BY PayrollReadsAssumption, EvidenceFiniteSets DEF Evidence!PayrollEvidenceAssumption

LEMMA Exchanged ==
    ASSUME NEW S, IsFiniteSet(S), Evidence!Identified(S), NEW x \in S, NEW y, y.id = x.id
    PROVE  /\ IsFiniteSet((S \ {x}) \cup {y})
           /\ Evidence!Identified((S \ {x}) \cup {y})
  <1>1. IsFiniteSet(S \ {x})
    BY FS_RemoveElement
  <1>2. IsFiniteSet((S \ {x}) \cup {y})
    BY <1>1, FS_AddElement
  <1>3. Evidence!Identified((S \ {x}) \cup {y})
    BY DEF Evidence!Identified
  <1> QED
    BY <1>2, <1>3

\* The greatest of a finite set of numbers.
LEMMA GreatestIs ==
    ASSUME NEW S \in SUBSET Nat, IsFiniteSet(S), S # {}
    PROVE  Evidence!Max(S) \in S /\ \A y \in S : y <= Evidence!Max(S)
  <1>1. \E x \in S : \A y \in S : x >= y
    BY GreatestNumber
  <1>2. Evidence!Max(S) \in S /\ \A y \in S : Evidence!Max(S) >= y
    BY <1>1 DEF Evidence!Max
  <1> QED
    BY <1>2

LEMMA EvidenceSourceBegins ==
    ASSUME Evidence!Init
    PROVE  Evidence!SourceInv
  <1>1. PICK s \in Payrolls : run = s.run /\ slip = s.slip /\ line = s.line /\ input = s.input
    BY DEF Evidence!Init
  <1>2. /\ s.run \in Evidence!Run
        /\ s.slip \in [Slips -> Evidence!Payslip] /\ \A i \in Slips : s.slip[i].wd = 0
        /\ s.line \subseteq Evidence!Line /\ IsFiniteSet(s.line) /\ Evidence!Identified(s.line)
        /\ \A l \in s.line : l.wd = 0
        /\ s.input \subseteq Evidence!Input /\ IsFiniteSet(s.input) /\ Evidence!Identified(s.input)
    BY PayrollReadsAssumption, EvidenceFiniteSets DEF Evidence!PayrollEvidenceAssumption
  <1>3. now = 1 /\ lastLine = Evidence!Max({l.id : l \in line} \cup {0}) /\ request \in EvidenceRequests
    BY DEF Evidence!Init
  <1> DEFINE I == {l.id : l \in line}
  <1>4. I \cup {0} \in SUBSET Nat
    BY <1>1, <1>2 DEF Evidence!Line
  <1>5. IsFiniteSet(I)
    <2> DEFINE f == [l \in line |-> l.id]
    <2>1. f \in Surjection(line, I)
      BY DEF Surjection
    <2> HIDE DEF f, I
    <2> QED BY <1>1, <1>2, <2>1, FS_Surjection
  <1>6. lastLine \in I \cup {0} /\ \A y \in I \cup {0} : y <= lastLine
    <2>1. IsFiniteSet(I \cup {0})
      BY <1>5, FS_AddElement
    <2> QED BY <1>3, <1>4, <2>1, GreatestIs
  <1>7. \A l \in line : l.id <= lastLine /\ l.wd <= now
    BY <1>1, <1>2, <1>3, <1>6
  <1>8. \A i \in Slips : slip[i].wd <= now
    BY <1>1, <1>2, <1>3
  <1>9. lastLine \in Nat /\ now \in Nat
    BY <1>3, <1>4, <1>6
  <1> QED
    BY <1>1, <1>2, <1>3, <1>7, <1>8, <1>9, EvidenceFiniteSets DEF Evidence!SourceInv

LEMMA EvidenceSource ==
    ASSUME Evidence!SourceInv
    PROVE  /\ now \in Nat /\ lastLine \in Nat /\ request \in EvidenceRequests
           /\ run \in Evidence!Run
           /\ slip \in [Slips -> Evidence!Payslip] /\ \A i \in Slips : slip[i].wd <= now
           /\ line \subseteq Evidence!Line /\ IsFiniteSet(line) /\ Evidence!Identified(line)
           /\ \A l \in line : l.wd <= now /\ l.id <= lastLine
           /\ input \subseteq Evidence!Input /\ IsFiniteSet(input) /\ Evidence!Identified(input)
  BY EvidenceFiniteSets DEF Evidence!SourceInv

\* What compute_sheet leaves.
LEMMA EvidenceRecalculated ==
    ASSUME Evidence!SourceInv, NEW i \in Slips, NEW R \in (SUBSET Evidence!Rules) \ {{}},
           Evidence!Recalculate(i, R)
    PROVE  /\ line' \subseteq Evidence!Line /\ IsFiniteSet(line') /\ Evidence!Identified(line')
           /\ lastLine' \in Nat /\ lastLine' > lastLine
           /\ \A l \in line' : l.wd <= now /\ l.id <= lastLine'
           /\ \A l \in line' : l \in line \/ (l.id > lastLine /\ l.slip = i)
           /\ \A l \in line : l.slip # i => l \in line'
  <1> DEFINE N == {[id |-> lastLine + r, slip |-> i, of |-> r, edition |-> 1, value |-> 2, wd |-> now] : r \in R}
             kept == {l \in line : l.slip # i}
  <1>1. /\ now \in Nat /\ lastLine \in Nat
        /\ line \subseteq Evidence!Line /\ IsFiniteSet(line) /\ Evidence!Identified(line)
        /\ \A l \in line : l.wd <= now /\ l.id <= lastLine
    BY EvidenceSource
  <1>2. R \subseteq Evidence!Rules /\ R # {} /\ R \in SUBSET Nat /\ \A r \in R : r > 0 /\ r \in Nat
    <2>1. R \subseteq Evidence!Rules /\ R # {}
      OBVIOUS
    <2>2. R \subseteq Nat \ {0}
      BY <2>1, EvidenceConstants
    <2> QED BY <2>1, <2>2
  <1>3. IsFiniteSet(R)
    BY <1>2, EvidenceConstants, FS_Subset
  <1>4. Evidence!Max(R) \in R /\ \A r \in R : r <= Evidence!Max(R)
    BY <1>2, <1>3, GreatestIs
  <1>5. line' = kept \cup N /\ lastLine' = lastLine + Evidence!Max(R)
    BY DEF Evidence!Recalculate
  <1>6. IsFiniteSet(kept) /\ kept \subseteq line
    BY <1>1, FS_Subset
  <1>7. IsFiniteSet(N)
    <2> DEFINE f == [r \in R |-> [id |-> lastLine + r, slip |-> i, of |-> r, edition |-> 1, value |-> 2, wd |-> now]]
    <2>1. f \in Surjection(R, N)
      BY DEF Surjection
    <2> HIDE DEF f, N
    <2> QED BY <1>3, <2>1, FS_Surjection
  <1>8. \A l \in N : \E r \in R : /\ l = [id |-> lastLine + r, slip |-> i, of |-> r, edition |-> 1, value |-> 2,
                                           wd |-> now]
                                  /\ l.id = lastLine + r /\ l.slip = i /\ l.wd = now
    OBVIOUS
  <1>9. ASSUME NEW l \in N
        PROVE  l \in Evidence!Line /\ l.id > lastLine /\ l.id <= lastLine' /\ l.slip = i /\ l.wd = now
    <2>1. PICK r \in R : /\ l = [id |-> lastLine + r, slip |-> i, of |-> r, edition |-> 1, value |-> 2, wd |-> now]
                         /\ l.id = lastLine + r /\ l.slip = i /\ l.wd = now
      BY <1>8
    <2>2. r \in Nat /\ r > 0 /\ r <= Evidence!Max(R) /\ Evidence!Max(R) \in Nat
      BY <1>2, <1>4
    <2>3. l \in Evidence!Line
      BY <1>1, <1>2, <2>1, <2>2 DEF Evidence!Line
    <2> QED BY <1>1, <1>5, <2>1, <2>2, <2>3
  <1>10. \A a, b \in N : a.id = b.id => a = b
    <2> SUFFICES ASSUME NEW a \in N, NEW b \in N, a.id = b.id PROVE a = b
      OBVIOUS
    <2>1. PICK r \in R : /\ a = [id |-> lastLine + r, slip |-> i, of |-> r, edition |-> 1, value |-> 2, wd |-> now]
                         /\ a.id = lastLine + r
      BY <1>8
    <2>2. PICK q \in R : /\ b = [id |-> lastLine + q, slip |-> i, of |-> q, edition |-> 1, value |-> 2, wd |-> now]
                         /\ b.id = lastLine + q
      BY <1>8
    <2>3. a.id = lastLine + r /\ b.id = lastLine + q
      BY <2>1, <2>2
    <2>4. lastLine + r = lastLine + q
      BY <2>3
    <2>5. r \in Int /\ q \in Int /\ lastLine \in Int
      BY <1>1, <1>2
    <2>6. r = q
      <3>1. \A m, x, y \in Int : m + x = m + y => x = y
        OBVIOUS
      <3> QED BY <2>4, <2>5, <3>1, Zenon
    <2> QED BY <2>1, <2>2, <2>6
  <1> HIDE DEF N
  <1>11. Evidence!Identified(line')
    <2>1. \A a \in kept, b \in N : a.id # b.id
      <3> SUFFICES ASSUME NEW a \in kept, NEW b \in N PROVE a.id # b.id
        OBVIOUS
      <3>1. a.id <= lastLine /\ a.id \in Nat
        BY <1>1 DEF Evidence!Line
      <3>2. b.id > lastLine /\ b.id \in Nat
        BY <1>9 DEF Evidence!Line
      <3> QED BY <1>1, <3>1, <3>2
    <2> QED BY <1>1, <1>5, <1>10, <2>1 DEF Evidence!Identified
  <1>12. IsFiniteSet(line')
    BY <1>5, <1>6, <1>7, FS_Union
  <1>13. lastLine' \in Nat /\ lastLine' > lastLine
    <2>1. Evidence!Max(R) \in Nat /\ Evidence!Max(R) > 0
      BY <1>2, <1>4
    <2> QED BY <1>1, <1>5, <2>1
  <1>14. \A l \in line' : l.wd <= now /\ l.id <= lastLine' /\ l \in Evidence!Line
    <2>1. ASSUME NEW l \in kept PROVE l.wd <= now /\ l.id <= lastLine' /\ l \in Evidence!Line
      <3>1. l.id \in Nat /\ l.id <= lastLine
        BY <1>1 DEF Evidence!Line
      <3> QED BY <1>1, <1>13, <3>1
    <2>2. ASSUME NEW l \in N PROVE l.wd <= now /\ l.id <= lastLine' /\ l \in Evidence!Line
      BY <1>1, <1>9
    <2> QED BY <1>5, <2>1, <2>2
  <1> QED
    BY <1>5, <1>9, <1>11, <1>12, <1>13, <1>14

\* What the user of a payslip writes.
LEMMA EvidenceChangedSlip ==
    ASSUME Evidence!SourceInv, NEW i \in Slips, Evidence!ChangeSlip(i)
    PROVE  /\ slip' \in [Slips -> Evidence!Payslip] /\ slip'[i].wd = now
           /\ \A j \in Slips : j # i => slip'[j] = slip[j]
           /\ blurred' = (blurred \/ slip[i].wd = now)
           /\ UNCHANGED <<run, line, input, types, now, lastLine>>
  <1>1. slip \in [Slips -> Evidence!Payslip] /\ now \in Nat /\ run \in Evidence!Run
    BY EvidenceSource
  <1>2. run.there \in BOOLEAN /\ States \subseteq STRING
    BY <1>1, EvidenceConstants DEF Evidence!Run
  <1> DEFINE P == {[slip[i] EXCEPT !.period = p] : p \in Periods}
                 \cup {[slip[i] EXCEPT !.state = s] : s \in States}
                 \cup {[slip[i] EXCEPT !.member = m] : m \in {FALSE, run.there}}
                 \cup {[slip[i] EXCEPT !.currency = c] : c \in Currencies}
  <1>3. PICK row \in P : slip' = [slip EXCEPT ![i] = [row EXCEPT !.wd = now]]
    BY DEF Evidence!ChangeSlip
  <1>4. slip[i] \in Evidence!Payslip
    BY <1>1
  <1>5. row \in Evidence!Payslip
    BY <1>2, <1>4 DEF Evidence!Payslip
  <1> HIDE DEF P
  <1>6. [row EXCEPT !.wd = now] \in Evidence!Payslip /\ [row EXCEPT !.wd = now].wd = now
    BY <1>1, <1>5 DEF Evidence!Payslip
  <1>7. UNCHANGED <<run, line, input, types, now, lastLine>>
        /\ blurred' = (blurred \/ slip[i].wd = now)
    BY DEF Evidence!ChangeSlip, Evidence!Write
  <1> QED
    BY <1>1, <1>3, <1>6, <1>7

LEMMA EvidenceEdited ==
    ASSUME Evidence!SourceInv, NEW l \in line, NEW r \in Evidence!Rules, Evidence!EditLine(l, r)
    PROVE  LET d == [l EXCEPT !.of = r, !.wd = now]
           IN  /\ line' = (line \ {l}) \cup {d}
               /\ d \in Evidence!Line /\ d.id = l.id /\ d.slip = l.slip /\ d.wd = now
               /\ line' \subseteq Evidence!Line /\ IsFiniteSet(line') /\ Evidence!Identified(line')
               /\ blurred' = (blurred \/ l.wd = now)
               /\ UNCHANGED <<run, slip, input, types, now, lastLine>>
  <1> DEFINE d == [l EXCEPT !.of = r, !.wd = now]
  <1>1. /\ now \in Nat /\ line \subseteq Evidence!Line /\ IsFiniteSet(line)
        /\ Evidence!Identified(line)
    BY EvidenceSource
  <1>2. l \in Evidence!Line
    BY <1>1
  <1>3. d \in Evidence!Line /\ d.id = l.id /\ d.slip = l.slip /\ d.wd = now
    BY <1>1, <1>2 DEF Evidence!Line
  <1>4. line' = (line \ {l}) \cup {d}
    BY DEF Evidence!EditLine
  <1>5. /\ blurred' = (blurred \/ l.wd = now)
        /\ UNCHANGED <<run, slip, input, types, now, lastLine>>
    BY DEF Evidence!EditLine, Evidence!Write
  <1> HIDE DEF d
  <1>6. IsFiniteSet(line') /\ Evidence!Identified(line')
    BY <1>1, <1>3, <1>4, Exchanged
  <1>7. line' \subseteq Evidence!Line
    BY <1>1, <1>3, <1>4
  <1> QED
    BY <1>3, <1>4, <1>5, <1>6, <1>7 DEF d

LEMMA EvidenceSourceStays ==
    ASSUME Evidence!SourceInv, Evidence!Next
    PROVE  Evidence!SourceInv'
  <1>1. CASE UNCHANGED <<run, slip, line, input, types, now, lastLine, request>>
    BY <1>1 DEF Evidence!SourceInv, Evidence!IsFiniteSet, Evidence!Identified
  <1>2. CASE EvidenceAsk
    <2>1. /\ UNCHANGED <<run, slip, line, input, types, now, lastLine>>
          /\ request' \in EvidenceRequests
      BY <1>2, EvidenceAsks
    <2> QED
      BY <2>1 DEF Evidence!SourceInv, Evidence!IsFiniteSet, Evidence!Identified
  <1> USE EvidenceSource
  <1>3. CASE Evidence!Tick
    <2>1. now' = now + 1 /\ UNCHANGED <<run, slip, line, input, types, lastLine, request>>
      BY <1>3 DEF Evidence!Tick, Evidence!call
    <2>2. \A i \in Slips : slip[i].wd \in Nat
      BY DEF Evidence!Payslip
    <2>3. \A l \in line : l.wd \in Nat
      BY DEF Evidence!Line
    <2>4. now' \in Nat /\ (\A i \in Slips : slip'[i].wd <= now') /\ (\A l \in line' : l.wd <= now')
      BY <2>1, <2>2, <2>3
    <2> QED
      BY <2>1, <2>4, EvidenceFiniteSets DEF Evidence!SourceInv
  <1>4. CASE Evidence!Write /\ EvidenceUsers
    <2>1. request' = request /\ now' = now
      BY <1>4 DEF Evidence!Write, Evidence!call
    <2>2. ASSUME NEW i \in Slips, Evidence!ChangeSlip(i) PROVE Evidence!SourceInv'
      <3>1. /\ slip' \in [Slips -> Evidence!Payslip] /\ slip'[i].wd = now
            /\ \A j \in Slips : j # i => slip'[j] = slip[j]
            /\ UNCHANGED <<run, line, input, types, now, lastLine>>
        BY <2>2, EvidenceChangedSlip
      <3>2. \A j \in Slips : slip'[j].wd <= now
        BY <3>1
      <3> QED BY <2>1, <3>1, <3>2, EvidenceFiniteSets DEF Evidence!SourceInv
    <2>3. ASSUME NEW i \in Slips, NEW R \in (SUBSET Evidence!Rules) \ {{}}, Evidence!Recalculate(i, R)
          PROVE  Evidence!SourceInv'
      <3>1. /\ line' \subseteq Evidence!Line /\ IsFiniteSet(line') /\ Evidence!Identified(line')
            /\ lastLine' \in Nat
            /\ \A l \in line' : l.wd <= now /\ l.id <= lastLine'
        BY <2>3, EvidenceRecalculated
      <3>2. UNCHANGED <<run, slip, input>>
        BY <2>3 DEF Evidence!Recalculate
      <3> QED BY <2>1, <3>1, <3>2, EvidenceFiniteSets DEF Evidence!SourceInv
    <2>4. ASSUME NEW l \in line, NEW r \in Evidence!Rules, Evidence!EditLine(l, r)
          PROVE  Evidence!SourceInv'
      <3> DEFINE d == [l EXCEPT !.of = r, !.wd = now]
      <3>1. /\ line' = (line \ {l}) \cup {d}
            /\ d \in Evidence!Line /\ d.id = l.id /\ d.slip = l.slip /\ d.wd = now
            /\ line' \subseteq Evidence!Line /\ IsFiniteSet(line') /\ Evidence!Identified(line')
            /\ UNCHANGED <<run, slip, input, types, now, lastLine>>
        BY <2>4, EvidenceEdited
      <3> HIDE DEF d
      <3>2. \A k \in line' : k.wd <= now /\ k.id <= lastLine
        BY <3>1
      <3> QED BY <2>1, <3>1, <3>2, EvidenceFiniteSets DEF Evidence!SourceInv
    <2>5. ASSUME NEW P \in SUBSET Periods, Evidence!ChangeRun(P) PROVE Evidence!SourceInv'
      <3>1. run' = [run EXCEPT !.covers = P, !.wd = now] /\ UNCHANGED <<slip, line, input, lastLine>>
        BY <2>5 DEF Evidence!ChangeRun
      <3>2. run' \in Evidence!Run
        BY <3>1 DEF Evidence!Run
      <3> QED BY <2>1, <3>1, <3>2, EvidenceFiniteSets DEF Evidence!SourceInv
    <2>6. ASSUME NEW i \in input, Evidence!DeleteInput(i) PROVE Evidence!SourceInv'
      <3>1. input' = input \ {i} /\ UNCHANGED <<run, slip, line, lastLine>>
        BY <2>6 DEF Evidence!DeleteInput
      <3>2. IsFiniteSet(input') /\ Evidence!Identified(input')
        BY <3>1, FS_RemoveElement DEF Evidence!Identified
      <3> QED BY <2>1, <3>1, <3>2, EvidenceFiniteSets DEF Evidence!SourceInv
    <2>7. ASSUME NEW t \in DOMAIN types, Evidence!ArchiveType(t) PROVE Evidence!SourceInv'
      <3>1. UNCHANGED <<run, slip, line, input, lastLine>>
        BY <2>7 DEF Evidence!ArchiveType
      <3> QED BY <2>1, <3>1, EvidenceFiniteSets DEF Evidence!SourceInv
    <2> QED
      BY <1>4, <2>2, <2>3, <2>4, <2>5, <2>6, <2>7 DEF EvidenceUsers
  <1> QED
    BY <1>1, <1>2, <1>3, <1>4, EvidenceActions, EvidenceReads
----------------------------------------------------------------------------
\* The stages of a call.

Asked ==
    /\ request.tool \in {"payslips", "rules", "periods", "batch", "payslip"}
    /\ request.tool = "periods" => request.scope = "window"
    /\ request.tool = "batch" => request.scope = "batch"
    /\ request.tool \in {"payslips", "rules"} => request.scope \in {"batch", "period", "both"}
    /\ request.tool = "payslip" => request.scope = "slip" /\ request.slip \in Slips

LEMMA EvidenceAsked ==
    ASSUME request \in EvidenceRequests
    PROVE  Asked
  BY EvidenceConstants DEF Asked, Evidence!WellAsked, Evidence!Tools, Evidence!Lists

\* Where the reading of payslips leads.
Afterwards(S, ids) ==
    IF request.tool \in {"batch", "rules"}
    THEN chunks' = ids /\ pc' = IF Evidence!Included(request, S) = {} THEN "answer" ELSE "lines"
    ELSE chunks' = chunks /\ pc' = "answer"

SortedIds(S) == [k \in DOMAIN Evidence!Sorted(S) |-> Evidence!Sorted(S)[k].id]

LEMMA AfterSlipsIs ==
    ASSUME NEW S, Evidence!AfterSlips(S)
    PROVE  Afterwards(S, SortedIds(Evidence!Included(request, S)))
  BY Zenon DEF Evidence!AfterSlips, Evidence!ToLines, Afterwards, SortedIds

Members == {r \in Evidence!Payslips : r.member}
OfThePeriod == {r \in Evidence!Payslips : r.period = request.period}
Kept ==
    IF request.scope = "both"
    THEN {s \in got.slips : s.id \in Evidence!IdsOf(OfThePeriod) /\ s.period = request.period}
    ELSE OfThePeriod
OfTheId == {r \in Evidence!Payslips : r.id = request.slip}
NextIds == Evidence!Range(SubSeq(chunks, 1, Evidence!Min({Chunk, Len(chunks)})))
RestIds == SubSeq(chunks, Chunk + 1, Len(chunks))

Refused == pc' = "refused" /\ got' = Evidence!Nothing

\* What each reading step does.
LEMMA EvidenceReading ==
    /\ Evidence!ReadWindow =>
          /\ pc = "window" /\ pc' = "answer"
          /\ got' = [got EXCEPT !.slips = {r \in Evidence!Payslips : r.state \in request.states}]
    /\ Evidence!ReadRun =>
          /\ pc = "run"
          /\ \/ run.there /\ pc' = "members" /\ got' = [got EXCEPT !.run = {run}]
             \/ ~run.there /\ Refused
    /\ Evidence!ReadMembers =>
          /\ pc = "members"
          /\ \/ Refused /\ \E s \in Members, r \in got.run : s.period \notin r.covers
             \/ /\ got' = [got EXCEPT !.slips = Members]
                /\ IF request.tool # "batch" /\ request.scope = "both"
                   THEN pc' = "period" /\ chunks' = chunks
                   ELSE Evidence!AfterSlips(Members)
    /\ Evidence!ReadPeriod =>
          /\ pc = "period"
          /\ \/ Refused /\ OfThePeriod = {}
             \/ got' = [got EXCEPT !.slips = Kept] /\ Evidence!AfterSlips(Kept)
    /\ Evidence!ReadSlip =>
          /\ pc = "slip" /\ got' = [got EXCEPT !.slips = OfTheId]
          /\ chunks' = SortedIds(OfTheId) /\ pc' = IF OfTheId = {} THEN "answer" ELSE "lines"
    /\ Evidence!ReadLines =>
          /\ pc = "lines"
          /\ \/ /\ Refused
                /\ Evidence!Cardinality(got.lines \cup Evidence!Lines(NextIds)) > MaxLines
             \/ /\ got' = [got EXCEPT !.lines = got.lines \cup Evidence!Lines(NextIds)]
                /\ chunks' = RestIds
                /\ pc' = IF RestIds # <<>> THEN "lines"
                         ELSE IF request.tool = "payslip" THEN "worked" ELSE "answer"
    /\ Evidence!ReadWorkedDays =>
          /\ pc = "worked" /\ pc' = "inputs"
          /\ got' = [got EXCEPT !.worked = Evidence!WorkedDays({request.slip})]
    /\ Evidence!ReadInputs =>
          /\ pc = "inputs"
          /\ got' = [got EXCEPT !.inputs = Evidence!Inputs({request.slip})]
          /\ pc' = IF Evidence!Inputs({request.slip}) = {} THEN "answer" ELSE "types"
    /\ Evidence!ReadTypes =>
          /\ pc = "types"
          /\ \/ Refused /\ ~(\A i \in got.inputs : i.of \in DOMAIN types)
             \/ pc' = "answer" /\ got' = [got EXCEPT !.types = types]
    /\ Evidence!ReadRefused => Refused /\ stirred
    /\ Evidence!Answer =>
          pc = "answer" /\ pc' \in {"answered", "refused"} /\ got' = Evidence!Nothing
  <1>1. ASSUME Evidence!ReadWindow
        PROVE  /\ pc = "window" /\ pc' = "answer"
               /\ got' = [got EXCEPT !.slips = {r \in Evidence!Payslips : r.state \in request.states}]
    BY <1>1, Zenon DEF Evidence!ReadWindow
  <1>2. ASSUME Evidence!ReadRun
        PROVE  /\ pc = "run"
               /\ \/ run.there /\ pc' = "members" /\ got' = [got EXCEPT !.run = {run}]
                  \/ ~run.there /\ Refused
    BY <1>2, Zenon DEF Evidence!ReadRun, Evidence!Refuse, Refused
  <1>3. ASSUME Evidence!ReadMembers
        PROVE  /\ pc = "members"
               /\ \/ Refused /\ \E s \in Members, r \in got.run : s.period \notin r.covers
                  \/ /\ got' = [got EXCEPT !.slips = Members]
                     /\ IF request.tool # "batch" /\ request.scope = "both"
                        THEN pc' = "period" /\ chunks' = chunks
                        ELSE Evidence!AfterSlips(Members)
    BY <1>3, Zenon DEF Evidence!ReadMembers, Evidence!Refuse, Refused, Members
  <1>4. ASSUME Evidence!ReadPeriod
        PROVE  /\ pc = "period"
               /\ \/ Refused /\ OfThePeriod = {}
                  \/ got' = [got EXCEPT !.slips = Kept] /\ Evidence!AfterSlips(Kept)
    BY <1>4, Zenon DEF Evidence!ReadPeriod, Evidence!Refuse, Refused, OfThePeriod, Kept
  <1>5. ASSUME Evidence!ReadSlip
        PROVE  /\ pc = "slip" /\ got' = [got EXCEPT !.slips = OfTheId]
               /\ chunks' = SortedIds(OfTheId) /\ pc' = IF OfTheId = {} THEN "answer" ELSE "lines"
    BY <1>5, Zenon DEF Evidence!ReadSlip, Evidence!ToLines, OfTheId, SortedIds
  <1>6. ASSUME Evidence!ReadLines
        PROVE  /\ pc = "lines"
               /\ \/ /\ Refused
                     /\ Evidence!Cardinality(got.lines \cup Evidence!Lines(NextIds)) > MaxLines
                  \/ /\ got' = [got EXCEPT !.lines = got.lines \cup Evidence!Lines(NextIds)]
                     /\ chunks' = RestIds
                     /\ pc' = IF RestIds # <<>> THEN "lines"
                              ELSE IF request.tool = "payslip" THEN "worked" ELSE "answer"
    BY <1>6, Zenon DEF Evidence!ReadLines, Evidence!Refuse, Refused, NextIds, RestIds
  <1>7. ASSUME Evidence!ReadWorkedDays
        PROVE  /\ pc = "worked" /\ pc' = "inputs"
               /\ got' = [got EXCEPT !.worked = Evidence!WorkedDays({request.slip})]
    BY <1>7, Zenon DEF Evidence!ReadWorkedDays
  <1>8. ASSUME Evidence!ReadInputs
        PROVE  /\ pc = "inputs"
               /\ got' = [got EXCEPT !.inputs = Evidence!Inputs({request.slip})]
               /\ pc' = IF Evidence!Inputs({request.slip}) = {} THEN "answer" ELSE "types"
    BY <1>8, Zenon DEF Evidence!ReadInputs
  <1>9. ASSUME Evidence!ReadTypes
        PROVE  /\ pc = "types"
               /\ \/ Refused /\ ~(\A i \in got.inputs : i.of \in DOMAIN types)
                  \/ pc' = "answer" /\ got' = [got EXCEPT !.types = types]
    BY <1>9, Zenon DEF Evidence!ReadTypes, Evidence!Refuse, Refused
  <1>10. ASSUME Evidence!ReadRefused PROVE Refused /\ stirred
    BY <1>10, Zenon DEF Evidence!ReadRefused, Evidence!Refuse, Refused
  <1>11. ASSUME Evidence!Answer
         PROVE  pc = "answer" /\ pc' \in {"answered", "refused"} /\ got' = Evidence!Nothing
    BY <1>11 DEF Evidence!Answer
  <1> QED
    BY <1>1, <1>2, <1>3, <1>4, <1>5, <1>6, <1>7, <1>8, <1>9, <1>10, <1>11

CallStages == {"window", "run", "members", "period", "slip", "lines", "worked", "inputs", "types",
           "answer", "answered", "refused"}

EvidenceStages ==
    /\ got = [run |-> got.run, slips |-> got.slips, lines |-> got.lines, worked |-> got.worked,
              inputs |-> got.inputs, types |-> got.types]
    /\ pc \in CallStages
    /\ pc \in {"window", "run", "slip", "answered", "refused"} => got = Evidence!Nothing
    /\ pc = "window" => request.tool = "periods"
    /\ pc \in {"run", "members"} => Evidence!UsesRun
    /\ pc = "period" => /\ request.tool \in {"payslips", "rules"} /\ Evidence!UsesPeriod
                        /\ request.scope = "period" => got = Evidence!Nothing
    /\ pc = "lines" => request.tool \in {"batch", "rules", "payslip"}
    /\ pc \in {"slip", "worked", "inputs", "types"} => request.tool = "payslip"
    /\ pc \in {"members", "period", "lines", "worked"} => got.worked = {} /\ got.inputs = {}
    /\ pc \in {"members", "period"} => got.lines = {}

LEMMA StagesAre == Evidence!StageInv <=> EvidenceStages
  BY DEF Evidence!StageInv, EvidenceStages, CallStages, Evidence!Lists

NothingRead(g) ==
    /\ g = [run |-> {}, slips |-> {}, lines |-> {}, worked |-> {}, inputs |-> {}, types |-> <<>>]

LEMMA NothingIs == NothingRead(Evidence!Nothing)
  BY DEF Evidence!Nothing, NothingRead

LEMMA FirstStage ==
    ASSUME Asked
    PROVE  /\ Evidence!FirstRead(request) \in {"window", "run", "slip", "period"}
           /\ Evidence!FirstRead(request) = "window" => request.tool = "periods"
           /\ Evidence!FirstRead(request) = "slip" => request.tool = "payslip"
           /\ Evidence!FirstRead(request) = "run" => Evidence!UsesRun
           /\ Evidence!FirstRead(request) = "period" => /\ request.tool \in {"payslips", "rules"}
                                                        /\ request.scope = "period"
                                                        /\ Evidence!UsesPeriod
  BY DEF Asked, Evidence!FirstRead, Evidence!UsesRun, Evidence!UsesPeriod

LEMMA EvidenceStageBegins ==
    ASSUME Evidence!Init
    PROVE  Evidence!StageInv
  <1>1. request \in EvidenceRequests /\ pc = Evidence!FirstRead(request) /\ got = Evidence!Nothing
    BY DEF Evidence!Init
  <1>2. EvidenceStages
    BY <1>1, EvidenceAsked, FirstStage, NothingIs DEF EvidenceStages, NothingRead, CallStages
  <1> QED
    BY <1>2, StagesAre

LEMMA EvidenceStageStays ==
    ASSUME Evidence!SourceInv, Evidence!StageInv, Evidence!Next
    PROVE  Evidence!StageInv'
  <1>1. EvidenceStages
    BY StagesAre
  <1>2. Asked
    BY EvidenceSource, EvidenceAsked
  <1> SUFFICES EvidenceStages'
    BY DEF Evidence!StageInv, EvidenceStages, CallStages, Evidence!Lists
  <1> DEFINE shape(g) == g = [run |-> g.run, slips |-> g.slips, lines |-> g.lines,
                              worked |-> g.worked, inputs |-> g.inputs, types |-> g.types]
  <1>3. ASSUME Refused PROVE EvidenceStages'
    <2>1. pc' = "refused" /\ got' = Evidence!Nothing /\ shape(got') /\ (Evidence!Nothing)' = Evidence!Nothing
      BY <1>3, NothingIs DEF Refused, NothingRead, Evidence!Nothing
    <2> QED BY <2>1 DEF EvidenceStages, CallStages
  <1>4. ASSUME request' = request
        PROVE  (Evidence!UsesRun)' = Evidence!UsesRun /\ (Evidence!UsesPeriod)' = Evidence!UsesPeriod
    BY <1>4 DEF Evidence!UsesRun, Evidence!UsesPeriod
  <1>5. shape(got) /\ (pc \in {"window", "run", "slip"} => NothingRead(got))
    BY <1>1, NothingIs DEF EvidenceStages, NothingRead
  <1>6. ASSUME NEW S, Evidence!AfterSlips(S)
        PROVE  pc' = "answer" \/ (pc' = "lines" /\ request.tool \in {"batch", "rules"})
    BY <1>6, AfterSlipsIs DEF Afterwards
  <1>7. CASE Evidence!ReadWindow
    <2>1. request' = request /\ pc' = "answer" /\ shape(got')
      BY <1>5, <1>7, EvidenceReading, EvidenceReads
    <2> QED BY <2>1 DEF EvidenceStages, CallStages
  <1>8. CASE Evidence!ReadRun
    <2>1. request' = request /\ pc = "run"
      BY <1>8, EvidenceReading, EvidenceReads
    <2>2. CASE pc' = "members" /\ got' = [got EXCEPT !.run = {run}]
      <3>1. shape(got') /\ got'.worked = {} /\ got'.inputs = {} /\ got'.lines = {}
        <4>1. got = [run |-> {}, slips |-> {}, lines |-> {}, worked |-> {}, inputs |-> {},
                     types |-> <<>>]
          BY <1>5, <2>1 DEF NothingRead
        <4> QED BY <2>2, <4>1
      <3> QED BY <1>1, <1>4, <2>1, <2>2, <3>1 DEF EvidenceStages, CallStages
    <2> QED BY <1>3, <1>8, <2>2, EvidenceReading
  <1>9. CASE Evidence!ReadMembers
    <2>1. request' = request /\ pc = "members"
      BY <1>9, EvidenceReading, EvidenceReads
    <2>2. CASE /\ got' = [got EXCEPT !.slips = Members]
               /\ IF request.tool # "batch" /\ request.scope = "both"
                  THEN pc' = "period" /\ chunks' = chunks
                  ELSE Evidence!AfterSlips(Members)
      <3>1. shape(got') /\ got'.worked = {} /\ got'.inputs = {} /\ got'.lines = {}
        BY <1>1, <1>5, <2>1, <2>2 DEF EvidenceStages
      <3>2. pc' = "period" => /\ request.tool # "batch" /\ request.scope = "both"
                              /\ request.tool \in {"payslips", "rules"}
        BY <1>2, <1>6, <2>2 DEF Asked
      <3>3. pc' \in {"period", "answer", "lines"}
            /\ (pc' = "lines" => request.tool \in {"batch", "rules"})
        BY <1>6, <2>2
      <3>4. request.scope = "both" => Evidence!UsesPeriod
        BY DEF Evidence!UsesPeriod
      <3>5. pc' = "period" => request'.scope # "period" /\ Evidence!UsesPeriod'
        BY <1>4, <2>1, <3>2, <3>4
      <3> QED BY <2>1, <3>1, <3>2, <3>3, <3>5 DEF EvidenceStages, CallStages
    <2> QED BY <1>3, <1>9, <2>2, EvidenceReading
  <1>10. CASE Evidence!ReadPeriod
    <2>1. request' = request /\ pc = "period"
      BY <1>10, EvidenceReading, EvidenceReads
    <2>2. CASE got' = [got EXCEPT !.slips = Kept] /\ Evidence!AfterSlips(Kept)
      <3>1. shape(got') /\ got'.worked = {} /\ got'.inputs = {}
        BY <1>1, <1>5, <2>1, <2>2 DEF EvidenceStages
      <3>2. pc' = "answer" \/ (pc' = "lines" /\ request.tool \in {"batch", "rules"})
        BY <1>6, <2>2
      <3> QED BY <2>1, <3>1, <3>2 DEF EvidenceStages, CallStages
    <2> QED BY <1>3, <1>10, <2>2, EvidenceReading
  <1>11. CASE Evidence!ReadSlip
    <2>1. /\ request' = request /\ pc = "slip" /\ pc' \in {"answer", "lines"}
          /\ got' = [got EXCEPT !.slips = OfTheId]
      BY <1>11, EvidenceReading, EvidenceReads
    <2>2. shape(got') /\ got'.worked = {} /\ got'.inputs = {}
      BY <1>5, <2>1 DEF NothingRead
    <2>3. request.tool = "payslip"
      BY <1>1, <2>1 DEF EvidenceStages
    <2> QED BY <2>1, <2>2, <2>3 DEF EvidenceStages, CallStages
  <1>12. CASE Evidence!ReadLines
    <2>1. request' = request /\ pc = "lines"
      BY <1>12, EvidenceReading, EvidenceReads
    <2>2. CASE /\ got' = [got EXCEPT !.lines = got.lines \cup Evidence!Lines(NextIds)]
               /\ pc' = IF RestIds # <<>> THEN "lines"
                        ELSE IF request.tool = "payslip" THEN "worked" ELSE "answer"
      <3>1. shape(got') /\ got'.worked = {} /\ got'.inputs = {}
            /\ request.tool \in {"batch", "rules", "payslip"}
        BY <1>1, <1>5, <2>1, <2>2 DEF EvidenceStages
      <3> QED BY <2>1, <2>2, <3>1 DEF EvidenceStages, CallStages
    <2> QED BY <1>3, <1>12, <2>2, EvidenceReading
  <1>13. CASE Evidence!ReadWorkedDays
    <2>1. /\ request' = request /\ pc = "worked" /\ pc' = "inputs"
          /\ got' = [got EXCEPT !.worked = Evidence!WorkedDays({request.slip})]
      BY <1>13, EvidenceReading, EvidenceReads
    <2>2. shape(got') /\ request.tool = "payslip"
      BY <1>1, <1>5, <2>1 DEF EvidenceStages
    <2> QED BY <2>1, <2>2 DEF EvidenceStages, CallStages
  <1>14. CASE Evidence!ReadInputs
    <2>1. /\ request' = request /\ pc = "inputs" /\ pc' \in {"answer", "types"}
          /\ got' = [got EXCEPT !.inputs = Evidence!Inputs({request.slip})]
      BY <1>14, EvidenceReading, EvidenceReads
    <2>2. shape(got') /\ request.tool = "payslip"
      BY <1>1, <1>5, <2>1 DEF EvidenceStages
    <2> QED BY <2>1, <2>2 DEF EvidenceStages, CallStages
  <1>15. CASE Evidence!ReadTypes
    <2>1. request' = request
      BY <1>15, EvidenceReads
    <2>2. CASE pc' = "answer" /\ got' = [got EXCEPT !.types = types]
      <3>1. shape(got')
        BY <1>5, <2>2
      <3> QED BY <2>1, <2>2, <3>1 DEF EvidenceStages, CallStages
    <2> QED BY <1>3, <1>15, <2>2, EvidenceReading
  <1>16. CASE Evidence!ReadRefused
    BY <1>3, <1>16, EvidenceReading
  <1>17. CASE Evidence!Answer
    <2>1. pc' \in {"answered", "refused"} /\ got' = Evidence!Nothing
      BY <1>17, EvidenceReading
    <2>2. (Evidence!Nothing)' = Evidence!Nothing /\ shape(got')
      BY <2>1, NothingIs DEF Evidence!Nothing, NothingRead
    <2> QED BY <2>1, <2>2 DEF EvidenceStages, CallStages
  <1>18. CASE EvidenceAsk
    <2>1. /\ got' = got /\ pc \in {"answered", "refused"} /\ request' \in EvidenceRequests
          /\ pc' = Evidence!FirstRead(request')
      BY <1>18, EvidenceAsks
    <2>2. got = Evidence!Nothing /\ (Evidence!Nothing)' = Evidence!Nothing
      BY <1>1, <2>1 DEF EvidenceStages, Evidence!Nothing
    <2>3. Asked'
      BY <2>1, EvidenceConstants DEF Asked, Evidence!WellAsked, Evidence!Tools, Evidence!Lists
    <2>4. /\ pc' \in {"window", "run", "slip", "period"}
          /\ pc' = "window" => request'.tool = "periods"
          /\ pc' = "slip" => request'.tool = "payslip"
          /\ pc' = "run" => Evidence!UsesRun'
          /\ pc' = "period" => /\ request'.tool \in {"payslips", "rules"}
                               /\ request'.scope = "period"
                               /\ Evidence!UsesPeriod'
      BY <2>1, <2>3 DEF Asked, Evidence!FirstRead, Evidence!UsesRun, Evidence!UsesPeriod
    <2>5. shape(got') /\ got'.worked = {} /\ got'.inputs = {} /\ got'.lines = {}
      <3>1. got' = [run |-> {}, slips |-> {}, lines |-> {}, worked |-> {}, inputs |-> {},
                    types |-> <<>>]
        BY <2>1, <2>2, NothingIs DEF NothingRead
      <3> QED BY <3>1
    <2> QED BY <2>1, <2>2, <2>4, <2>5 DEF EvidenceStages, CallStages
  <1>19. CASE Evidence!Tick \/ Evidence!Write
    <2>1. UNCHANGED <<request, pc, got>>
      BY <1>19 DEF Evidence!Tick, Evidence!Write, Evidence!call
    <2>2. (Evidence!Nothing)' = Evidence!Nothing
      BY DEF Evidence!Nothing
    <2> QED BY <1>1, <1>4, <2>1, <2>2 DEF EvidenceStages
  <1> QED
    BY <1>7, <1>8, <1>9, <1>10, <1>11, <1>12, <1>13, <1>14, <1>15, <1>16, <1>17, <1>18, <1>19,
       EvidenceActions
----------------------------------------------------------------------------
\* The lists.

Enumerates(s, T) ==
    /\ s \in Seq(T) /\ Len(s) \in Nat /\ DOMAIN s = 1..Len(s)
    /\ \A k \in 1..Len(s) : s[k] \in T
    /\ \A x \in T : \E k \in 1..Len(s) : s[k] = x

\* InOrder with an operator is Sorted with a relation that says the same.
LEMMA SortedEnumerates ==
    ASSUME NEW T, IsFiniteSet(T), NEW R, Orders(R, T)
    PROVE  Enumerates(Sorted(T, R), T)
  <1>1. /\ Sorted(T, R) \in Seq(T)
        /\ Len(Sorted(T, R)) = Cardinality(T)
        /\ Cardinality(T) \in Nat
        /\ \A x \in T : \E k \in 1..Cardinality(T) : Sorted(T, R)[k] = x
    BY SortedRows
  <1>2. DOMAIN Sorted(T, R) = 1..Len(Sorted(T, R))
    BY <1>1, SeqDomain
  <1>3. \A k \in 1..Len(Sorted(T, R)) : Sorted(T, R)[k] \in T
    BY <1>1
  <1> QED
    BY <1>1, <1>2, <1>3 DEF Enumerates

Rising(f, T) == {p \in T \X T : f[p[1]] < f[p[2]]}

\* Rows with a number each, no two the same.
LEMMA RisingOrders ==
    ASSUME NEW T, NEW f \in [T -> Int], \A x, y \in T : f[x] = f[y] => x = y
    PROVE  /\ Orders(Rising(f, T), T)
           /\ \A x, y \in T : <<x, y>> \in Rising(f, T) <=> f[x] < f[y]
  <1>1. \A x, y \in T : <<x, y>> \in Rising(f, T) <=> f[x] < f[y]
    BY DEF Rising
  <1>2. \A x \in T : f[x] \in Int
    OBVIOUS
  <1> QED
    BY <1>1, <1>2 DEF Orders

LEMMA ImageFinite ==
    ASSUME NEW S, IsFiniteSet(S), NEW f, DOMAIN f = S
    PROVE  IsFiniteSet({f[x] : x \in S})
  <1> DEFINE T == {f[x] : x \in S}
  <1>1. \E g : g \in Surjection(S, T)
    <2>1. [x \in S |-> f[x]] \in Surjection(S, T)
      BY DEF Surjection
    <2> QED BY <2>1
  <1> HIDE DEF T
  <1>2. IsFiniteSet(T)
    BY <1>1, FS_Surjection
  <1> QED
    BY <1>2 DEF T

LEMMA RuleItemIs ==
    ASSUME NEW S, NEW x
    PROVE  Evidence!RuleItem(x, S).rule = x
  BY DEF Evidence!RuleItem

LEMMA RuleItemsEnumerate ==
    ASSUME NEW S, IsFiniteSet(S), S \subseteq Evidence!LineRow
    PROVE  Enumerates(Evidence!RuleItems(S), {Evidence!RuleItem(l.of, S) : l \in S})
  <1> DEFINE T == {Evidence!RuleItem(l.of, S) : l \in S}
             f == [x \in T |-> x.rule]
             R == Rising(f, T)
  <1>1. IsFiniteSet(T)
    <2> DEFINE g == [l \in S |-> Evidence!RuleItem(l.of, S)]
    <2>1. g \in Surjection(S, T)
      BY DEF Surjection
    <2> HIDE DEF g, T
    <2> QED BY <2>1, FS_Surjection
  <1>2. \A x \in T : \E l \in S : x = Evidence!RuleItem(l.of, S) /\ x.rule = l.of
    BY RuleItemIs
  <1>3. \A l \in S : l.of \in Int
    <2>1. \A l \in S : l.of \in Evidence!Rules
      BY DEF Evidence!LineRow
    <2>2. \A r \in Evidence!Rules : r \in Int
      BY EvidenceConstants
    <2> QED BY <2>1, <2>2
  <1> HIDE DEF T
  <1>4. f \in [T -> Int] /\ \A x, y \in T : f[x] = f[y] => x = y
    <2>1. \A x \in T : f[x] = x.rule /\ f[x] \in Int
      BY <1>2, <1>3
    <2>2. ASSUME NEW x \in T, NEW y \in T, f[x] = f[y] PROVE x = y
      BY <1>2, <2>1, <2>2
    <2> QED BY <2>1, <2>2
  <1>5. \A x \in T : f[x] = x.rule
    OBVIOUS
  <1> HIDE DEF f
  <1>6. Orders(R, T) /\ \A x, y \in T : <<x, y>> \in R <=> x.rule < y.rule
    BY <1>4, <1>5, RisingOrders
  <1> HIDE DEF R
  <1>7. \A x \in T : {y \in T : y.rule < x.rule} = Under(T, R, x)
    BY <1>6 DEF Under
  <1>8. Evidence!RuleItems(S)
          = [k \in 1..Evidence!Cardinality(T) |->
               CHOOSE x \in T : Evidence!Cardinality({y \in T : y.rule < x.rule}) = k - 1]
    BY Zenon DEF Evidence!RuleItems, Evidence!InOrder, T
  <1>9. Evidence!RuleItems(S) = Sorted(T, R)
    <2>1. ASSUME NEW k
          PROVE  (CHOOSE x \in T : Evidence!Cardinality({y \in T : y.rule < x.rule}) = k - 1)
                   = (CHOOSE x \in T : Cardinality(Under(T, R, x)) = k - 1)
      BY <1>7, EvidenceFiniteSets
    <2>2. Evidence!Cardinality(T) = Cardinality(T)
      BY EvidenceFiniteSets
    <2> QED BY <1>8, <2>1, <2>2, Zenon DEF Sorted
  <1>10. Enumerates(Evidence!RuleItems(S), T)
    BY <1>1, <1>6, <1>9, SortedEnumerates
  <1> QED
    BY <1>10 DEF T

LEMMA PeriodItemIs ==
    ASSUME NEW S, NEW x
    PROVE  Evidence!PeriodItem(x, S).period = x
  BY DEF Evidence!PeriodItem

LEMMA PeriodItemsEnumerate ==
    ASSUME NEW S, IsFiniteSet(S), S \subseteq Evidence!SlipRow
    PROVE  Enumerates(Evidence!PeriodItems(S), {Evidence!PeriodItem(s.period, S) : s \in S})
  <1> DEFINE T == {Evidence!PeriodItem(s.period, S) : s \in S}
             f == [x \in T |-> 0 - x.period]
             R == Rising(f, T)
  <1>1. IsFiniteSet(T)
    <2> DEFINE g == [s \in S |-> Evidence!PeriodItem(s.period, S)]
    <2>1. g \in Surjection(S, T)
      BY DEF Surjection
    <2> HIDE DEF g, T
    <2> QED BY <2>1, FS_Surjection
  <1>2. \A x \in T : \E s \in S : x = Evidence!PeriodItem(s.period, S) /\ x.period = s.period
    BY PeriodItemIs
  <1>3. \A s \in S : s.period \in Int
    <2>1. \A s \in S : s.period \in Periods
      BY DEF Evidence!SlipRow
    <2>2. \A r \in Periods : r \in Int
      BY EvidenceConstants
    <2> QED BY <2>1, <2>2
  <1> HIDE DEF T
  <1>4a. \A x \in T : f[x] = 0 - x.period /\ x.period \in Int
    BY <1>2, <1>3
  <1>4. f \in [T -> Int] /\ \A x, y \in T : f[x] = f[y] => x = y
    <2>1. ASSUME NEW x \in T, NEW y \in T, f[x] = f[y] PROVE x = y
      <3>1. x.period = y.period
        BY <1>4a, <2>1
      <3> QED BY <1>2, <3>1
    <2> QED BY <1>4a, <2>1
  <1> HIDE DEF f
  <1>6. Orders(R, T) /\ \A x, y \in T : <<x, y>> \in R <=> x.period > y.period
    <2>1. Orders(R, T) /\ \A x, y \in T : <<x, y>> \in R <=> f[x] < f[y]
      BY <1>4, RisingOrders
    <2> QED BY <1>4a, <2>1
  <1> HIDE DEF R
  <1>7. \A x \in T : {y \in T : y.period > x.period} = Under(T, R, x)
    BY <1>6 DEF Under
  <1>8. Evidence!PeriodItems(S)
          = [k \in 1..Evidence!Cardinality(T) |->
               CHOOSE x \in T : Evidence!Cardinality({y \in T : y.period > x.period}) = k - 1]
    BY Zenon DEF Evidence!PeriodItems, Evidence!InOrder, T
  <1>9. Evidence!PeriodItems(S) = Sorted(T, R)
    <2>1. ASSUME NEW k
          PROVE  (CHOOSE x \in T : Evidence!Cardinality({y \in T : y.period > x.period}) = k - 1)
                   = (CHOOSE x \in T : Cardinality(Under(T, R, x)) = k - 1)
      BY <1>7, EvidenceFiniteSets
    <2>2. Evidence!Cardinality(T) = Cardinality(T)
      BY EvidenceFiniteSets
    <2> QED BY <1>8, <2>1, <2>2, Zenon DEF Sorted
  <1>10. Enumerates(Evidence!PeriodItems(S), T)
    BY <1>1, <1>6, <1>9, SortedEnumerates
  <1> QED
    BY <1>10 DEF T

LEMMA SortedSlipsEnumerate ==
    ASSUME NEW T, IsFiniteSet(T), T \subseteq Evidence!SlipRow, Evidence!Identified(T)
    PROVE  Enumerates(Evidence!Sorted(T), T)
  <1> DEFINE R == {p \in T \X T : Evidence!Newest(p[1], p[2])}
  <1>1. \A x, y \in T : <<x, y>> \in R <=> Evidence!Newest(x, y)
    OBVIOUS
  <1> HIDE DEF R
  <1>2. \A x \in T : x.period \in Int /\ x.id \in Int
    <2>1. \A x \in T : x.period \in Periods /\ x.id \in Slips
      BY DEF Evidence!SlipRow
    <2>2. (\A n \in Periods : n \in Int) /\ (\A n \in Slips : n \in Int)
      BY EvidenceConstants
    <2> QED BY <2>1, <2>2
  <1>3. Orders(R, T)
    <2>1. \A x \in T : <<x, x>> \notin R
      BY <1>1, <1>2 DEF Evidence!Newest
    <2>2. \A x, y, z \in T : <<x, y>> \in R /\ <<y, z>> \in R => <<x, z>> \in R
      BY <1>1, <1>2 DEF Evidence!Newest
    <2>3. \A x, y \in T : x # y => x.id # y.id
      BY DEF Evidence!Identified
    <2>4. \A x, y \in T : x # y => <<x, y>> \in R \/ <<y, x>> \in R
      BY <1>1, <1>2, <2>3 DEF Evidence!Newest
    <2> QED BY <2>1, <2>2, <2>4 DEF Orders
  <1>4. \A x \in T : {y \in T : Evidence!Newest(y, x)} = Under(T, R, x)
    BY <1>1 DEF Under
  <1>5. Evidence!Sorted(T)
          = [k \in 1..Evidence!Cardinality(T) |->
               CHOOSE x \in T : Evidence!Cardinality({y \in T : Evidence!Newest(y, x)}) = k - 1]
    BY Zenon DEF Evidence!Sorted, Evidence!InOrder
  <1>6. Evidence!Sorted(T) = Sorted(T, R)
    <2>1. ASSUME NEW k
          PROVE  (CHOOSE x \in T : Evidence!Cardinality({y \in T : Evidence!Newest(y, x)}) = k - 1)
                   = (CHOOSE x \in T : Cardinality(Under(T, R, x)) = k - 1)
      BY <1>4, EvidenceFiniteSets
    <2>2. Evidence!Cardinality(T) = Cardinality(T)
      BY EvidenceFiniteSets
    <2> QED BY <1>5, <2>1, <2>2, Zenon DEF Sorted
  <1> QED
    BY <1>3, <1>6, SortedEnumerates

InputItem(i, kinds) == [id |-> i.id, as |-> kinds[i.of], value |-> i.value]

\* No two inputs have the same id.
LEMMA InputItemsEnumerate ==
    ASSUME NEW S, IsFiniteSet(S), NEW kinds, \A i \in S : i.id \in Nat,
           \A i, j \in S : i.id = j.id => i = j
    PROVE  Enumerates(Evidence!InputItems(S, kinds), {InputItem(i, kinds) : i \in S})
  <1> DEFINE T == {InputItem(i, kinds) : i \in S}
             f == [x \in T |-> x.id]
             R == Rising(f, T)
  <1>1. IsFiniteSet(T)
    <2> DEFINE g == [i \in S |-> InputItem(i, kinds)]
    <2>1. g \in Surjection(S, T)
      BY DEF Surjection
    <2> HIDE DEF g, T
    <2> QED BY <2>1, FS_Surjection
  <1>2a. \A i \in S : InputItem(i, kinds).id = i.id
    BY DEF InputItem
  <1>2. \A x \in T : \E i \in S : x = InputItem(i, kinds) /\ x.id = i.id
    BY <1>2a
  <1> HIDE DEF T
  <1>3. \A x \in T : f[x] = x.id /\ x.id \in Int
    BY <1>2
  <1>4. f \in [T -> Int] /\ \A x, y \in T : f[x] = f[y] => x = y
    <2>1. ASSUME NEW x \in T, NEW y \in T, f[x] = f[y] PROVE x = y
      BY <1>2, <1>3, <2>1
    <2> QED BY <1>3, <2>1
  <1> HIDE DEF f
  <1>5. Orders(R, T) /\ \A x, y \in T : <<x, y>> \in R <=> x.id < y.id
    <2>1. Orders(R, T) /\ \A x, y \in T : <<x, y>> \in R <=> f[x] < f[y]
      BY <1>4, RisingOrders
    <2> QED BY <1>3, <2>1
  <1> HIDE DEF R
  <1>6. \A x \in T : {y \in T : y.id < x.id} = Under(T, R, x)
    BY <1>5 DEF Under
  <1>7. Evidence!InputItems(S, kinds)
          = [k \in 1..Evidence!Cardinality(T) |->
               CHOOSE x \in T : Evidence!Cardinality({y \in T : y.id < x.id}) = k - 1]
    BY Zenon DEF Evidence!InputItems, Evidence!InOrder, T, InputItem
  <1>8. Evidence!InputItems(S, kinds) = Sorted(T, R)
    <2>1. ASSUME NEW k
          PROVE  (CHOOSE x \in T : Evidence!Cardinality({y \in T : y.id < x.id}) = k - 1)
                   = (CHOOSE x \in T : Cardinality(Under(T, R, x)) = k - 1)
      BY <1>6, EvidenceFiniteSets
    <2>2. Evidence!Cardinality(T) = Cardinality(T)
      BY EvidenceFiniteSets
    <2> QED BY <1>7, <2>1, <2>2, Zenon DEF Sorted
  <1>9. Enumerates(Evidence!InputItems(S, kinds), T)
    BY <1>1, <1>5, <1>8, SortedEnumerates
  <1> QED
    BY <1>9 DEF T

SlipItemsOf(s) == [k \in DOMAIN s |-> Evidence!Compact(s[k])]

LEMMA SlipItemsEnumerate ==
    ASSUME NEW S, IsFiniteSet(S), S \subseteq Evidence!SlipRow, Evidence!Identified(S), NEW q
    PROVE  Enumerates(Evidence!SlipItems(q, S),
                      {Evidence!Compact(s) : s \in Evidence!Chosen(q, S)})
  <1> DEFINE C == Evidence!Chosen(q, S)
             T == {Evidence!Compact(s) : s \in C}
             s == Evidence!Sorted(C)
             v == SlipItemsOf(s)
  <1>1. C \subseteq S /\ IsFiniteSet(C)
    BY FS_Subset DEF Evidence!Chosen
  <1>2. Evidence!Identified(C)
    BY <1>1 DEF Evidence!Identified
  <1> HIDE DEF C
  <1>3. Enumerates(s, C)
    BY <1>1, <1>2, SortedSlipsEnumerate
  <1>4. Evidence!SlipItems(q, S) = v
    BY Zenon DEF Evidence!SlipItems, SlipItemsOf, C
  <1> HIDE DEF s
  <1>5. Len(s) \in Nat /\ v = [k \in 1..Len(s) |-> Evidence!Compact(s[k])]
    BY <1>3, Zenon DEF Enumerates, SlipItemsOf
  <1>6. \A k \in 1..Len(s) : s[k] \in C
    BY <1>3 DEF Enumerates
  <1>7. v \in [1..Len(s) -> T]
    BY <1>5, <1>6
  <1>7a. DOMAIN v = 1..Len(s) /\ (\A k \in 1..Len(s) : v[k] = Evidence!Compact(s[k]) /\ v[k] \in T)
    BY <1>5, <1>6
  <1> HIDE DEF v
  <1>8. v \in Seq(T) /\ Len(v) = Len(s)
    <2> HIDE DEF T
    <2> QED BY <1>5, <1>7
  <1>9. \A x \in T : \E k \in 1..Len(v) : v[k] = x
    <2> SUFFICES ASSUME NEW x \in T PROVE \E k \in 1..Len(v) : v[k] = x
      OBVIOUS
    <2>1. PICK c \in C : x = Evidence!Compact(c)
      OBVIOUS
    <2>2. PICK k \in 1..Len(s) : s[k] = c
      BY <1>3 DEF Enumerates
    <2> QED BY <1>7a, <1>8, <2>1, <2>2
  <1>10. Enumerates(v, T)
    BY <1>5, <1>7a, <1>8, <1>9 DEF Enumerates
  <1> QED
    BY <1>4, <1>10 DEF T, C
----------------------------------------------------------------------------
\* The rows the reader returns.

LEMMA SlipRowIs ==
    ASSUME NEW i
    PROVE  /\ Evidence!Row(i).id = i /\ Evidence!Row(i).period = slip[i].period
           /\ Evidence!Row(i).state = slip[i].state /\ Evidence!Row(i).member = slip[i].member
           /\ Evidence!Row(i).currency = slip[i].currency /\ Evidence!Row(i).wd = slip[i].wd
  BY DEF Evidence!Row

LEMMA PayslipsAre ==
    ASSUME Evidence!SourceInv
    PROVE  /\ Evidence!Payslips \subseteq Evidence!SlipRow /\ IsFiniteSet(Evidence!Payslips)
           /\ Evidence!Identified(Evidence!Payslips)
           /\ \A s \in Evidence!Payslips : s.id \in Slips /\ s = Evidence!Row(s.id)
           /\ \A i \in Slips : Evidence!Row(i) \in Evidence!Payslips
  <1>1. \A s \in Evidence!Payslips : s.id \in Slips /\ s = Evidence!Row(s.id)
    <2>1. \A s \in Evidence!Payslips : \E i \in Slips : s = Evidence!Row(i)
      BY DEF Evidence!Payslips
    <2> QED BY <2>1, SlipRowIs
  <1>2. Evidence!Identified(Evidence!Payslips)
    BY <1>1 DEF Evidence!Identified
  <1>3. \A i \in Slips : Evidence!Row(i) \in Evidence!SlipRow
    <2>1. \A i \in Slips : slip[i] \in Evidence!Payslip
      BY EvidenceSource
    <2> QED BY <2>1 DEF Evidence!Row, Evidence!Payslip, Evidence!SlipRow
  <1>4. Evidence!Payslips \subseteq Evidence!SlipRow
    BY <1>3 DEF Evidence!Payslips
  <1>5. IsFiniteSet(Evidence!Payslips)
    <2> DEFINE f == [i \in Slips |-> Evidence!Row(i)]
    <2>1. f \in Surjection(Slips, Evidence!Payslips)
      BY DEF Surjection, Evidence!Payslips
    <2> HIDE DEF f
    <2> QED BY <2>1, EvidenceConstants, FS_Surjection
  <1>6. \A i \in Slips : Evidence!Row(i) \in Evidence!Payslips
    BY DEF Evidence!Payslips
  <1> QED
    BY <1>1, <1>2, <1>4, <1>5, <1>6

Child(l) ==
    [id |-> l.id, slip |-> l.slip, of |-> l.of, edition |-> l.edition,
     currency |-> slip[l.slip].currency, value |-> l.value, wd |-> l.wd]

LEMMA ChildIs ==
    ASSUME NEW l
    PROVE  /\ Child(l).id = l.id /\ Child(l).slip = l.slip /\ Child(l).of = l.of
           /\ Child(l).edition = l.edition
           /\ Child(l).currency = slip[l.slip].currency /\ Child(l).value = l.value
           /\ Child(l).wd = l.wd
  BY DEF Child

LEMMA ChildrenAre ==
    ASSUME NEW S, NEW ids
    PROVE  Evidence!Children(S, ids) = {Child(l) : l \in {k \in S : k.slip \in ids}}
  BY DEF Evidence!Children, Child

LEMMA ChildrenFinite ==
    ASSUME NEW S, IsFiniteSet(S), NEW ids
    PROVE  /\ IsFiniteSet(Evidence!Children(S, ids))
           /\ Cardinality(Evidence!Children(S, ids)) \in Nat
           /\ Cardinality(Evidence!Children(S, ids)) <= Cardinality(S)
  <1> DEFINE K == {k \in S : k.slip \in ids}
             f == [l \in K |-> Child(l)]
  <1>1. IsFiniteSet(K) /\ Cardinality(K) <= Cardinality(S)
    BY FS_Subset
  <1>2. Evidence!Children(S, ids) = {Child(l) : l \in K}
    BY ChildrenAre
  <1>3. f \in Surjection(K, Evidence!Children(S, ids))
    BY <1>2 DEF Surjection
  <1> HIDE DEF f, K
  <1>4. /\ IsFiniteSet(Evidence!Children(S, ids))
        /\ Cardinality(Evidence!Children(S, ids)) <= Cardinality(K)
    BY <1>1, <1>3, FS_Surjection
  <1> QED
    BY <1>1, <1>4, FS_CardinalityType

LEMMA LinesAre ==
    ASSUME Evidence!SourceInv, NEW ids \in SUBSET Slips
    PROVE  /\ Evidence!Lines(ids) \subseteq Evidence!LineRow /\ IsFiniteSet(Evidence!Lines(ids))
           /\ Evidence!Lines(ids) = {Child(l) : l \in {k \in line : k.slip \in ids}}
  <1>1. line \subseteq Evidence!Line /\ IsFiniteSet(line) /\ slip \in [Slips -> Evidence!Payslip]
    BY EvidenceSource
  <1>2. Evidence!Lines(ids) = {Child(l) : l \in {k \in line : k.slip \in ids}}
    BY ChildrenAre DEF Evidence!Lines
  <1>3. \A l \in line : Child(l) \in Evidence!LineRow
    <2>1. \A l \in line : slip[l.slip].currency \in Currencies
      BY <1>1 DEF Evidence!Line, Evidence!Payslip
    <2> QED BY <1>1, <2>1 DEF Child, Evidence!Line, Evidence!LineRow
  <1>4. IsFiniteSet(Evidence!Lines(ids))
    BY <1>1, ChildrenFinite DEF Evidence!Lines
  <1> QED
    BY <1>2, <1>3, <1>4

LEMMA LinesJoin ==
    ASSUME NEW A, NEW B
    PROVE  Evidence!Lines(A \cup B) = Evidence!Lines(A) \cup Evidence!Lines(B)
  BY DEF Evidence!Lines, Evidence!Children

LEMMA LinesNone == Evidence!Lines({}) = {}
  BY DEF Evidence!Lines, Evidence!Children

\* Nothing that was read has changed.
LEMMA EvidenceSame ==
    ASSUME UNCHANGED <<run, slip, line, input, types, request>>
    PROVE  /\ (Evidence!Payslips)' = Evidence!Payslips
           /\ Evidence!SlipsAsked' = Evidence!SlipsAsked
           /\ Evidence!LinesAsked' = Evidence!LinesAsked
           /\ Evidence!InputsAsked' = Evidence!InputsAsked
           /\ Evidence!WorkedAsked' = Evidence!WorkedAsked
           /\ Members' = Members
           /\ \A S : (Evidence!Lines(S))' = Evidence!Lines(S)
  <1>1. (Evidence!Payslips)' = Evidence!Payslips
    BY DEF Evidence!Payslips, Evidence!Row
  <1>2. Evidence!SlipsAsked' = Evidence!SlipsAsked
    BY <1>1 DEF Evidence!SlipsAsked, Evidence!UsesRun, Evidence!UsesPeriod
  <1>3. ASSUME NEW S PROVE (Evidence!Lines(S))' = Evidence!Lines(S)
    BY DEF Evidence!Lines, Evidence!Children
  <1>4. Evidence!LinesAsked' = Evidence!LinesAsked
    BY <1>2 DEF Evidence!LinesAsked, Evidence!Lines, Evidence!Children
  <1>5. Evidence!InputsAsked' = Evidence!InputsAsked /\ Evidence!WorkedAsked' = Evidence!WorkedAsked
    BY DEF Evidence!InputsAsked, Evidence!WorkedAsked, Evidence!Inputs, Evidence!WorkedDays,
       Evidence!Children
  <1>6. Members' = Members
    BY <1>1 DEF Members
  <1> QED
    BY <1>1, <1>2, <1>3, <1>4, <1>5, <1>6

\* The steps of the call come to what is asked for.
LEMMA AskedIs ==
    ASSUME Asked
    PROVE  /\ request.tool = "periods" =>
                Evidence!SlipsAsked = {r \in Evidence!Payslips : r.state \in request.states}
           /\ Evidence!UsesRun /\ ~(request.tool # "batch" /\ request.scope = "both") =>
                Evidence!SlipsAsked = Members
           /\ request.tool = "payslip" => Evidence!SlipsAsked = OfTheId
           /\ /\ request.tool \in {"payslips", "rules"} /\ Evidence!UsesPeriod
              /\ request.scope = "both" => got.slips = Members
              => Evidence!SlipsAsked = Kept
  <1>1. request.tool = "periods" =>
                Evidence!SlipsAsked = {r \in Evidence!Payslips : r.state \in request.states}
    BY DEF Asked, Evidence!SlipsAsked, Evidence!UsesRun, Evidence!UsesPeriod
  <1>2. Evidence!UsesRun /\ ~(request.tool # "batch" /\ request.scope = "both") =>
                Evidence!SlipsAsked = Members
    BY DEF Asked, Evidence!SlipsAsked, Evidence!UsesRun, Evidence!UsesPeriod, Members
  <1>3. request.tool = "payslip" => Evidence!SlipsAsked = OfTheId
    BY DEF Asked, Evidence!SlipsAsked, Evidence!UsesRun, Evidence!UsesPeriod, OfTheId
  <1>4. ASSUME request.tool \in {"payslips", "rules"}, Evidence!UsesPeriod,
               request.scope = "both" => got.slips = Members
        PROVE  Evidence!SlipsAsked = Kept
    <2>1. CASE request.scope = "both"
      <3>1. Kept = {s \in Members : s.id \in Evidence!IdsOf(OfThePeriod) /\ s.period = request.period}
        BY <1>4, <2>1 DEF Kept
      <3>2. \A s \in Members : s.period = request.period => s.id \in Evidence!IdsOf(OfThePeriod)
        BY DEF Members, OfThePeriod, Evidence!IdsOf
      <3>3. Kept = {s \in Evidence!Payslips : s.member /\ s.period = request.period}
        BY <3>1, <3>2 DEF Members
      <3>4. Evidence!SlipsAsked = {s \in Evidence!Payslips : s.member /\ s.period = request.period}
        BY <1>4, <2>1 DEF Evidence!SlipsAsked, Evidence!UsesRun, Evidence!UsesPeriod
      <3> QED BY <3>3, <3>4
    <2>2. CASE request.scope # "both"
      <3>1. ~Evidence!UsesRun
        BY <1>4, <2>2 DEF Evidence!UsesRun, Evidence!UsesPeriod
      <3>2. Kept = OfThePeriod
        BY <2>2 DEF Kept
      <3> QED BY <1>4, <3>1, <3>2 DEF Evidence!SlipsAsked, OfThePeriod
    <2> QED BY <2>1, <2>2
  <1> QED
    BY <1>1, <1>2, <1>3, <1>4

\* The ids of the payslips whose lines are read.
LEMMA SortedIdsAre ==
    ASSUME Evidence!SourceInv, NEW S \in SUBSET Evidence!Payslips
    PROVE  SortedIds(S) \in Seq(Slips) /\ Evidence!Range(SortedIds(S)) = Evidence!IdsOf(S)
  <1>1. /\ IsFiniteSet(S) /\ S \subseteq Evidence!SlipRow /\ Evidence!Identified(S)
        /\ \A s \in S : s.id \in Slips
    BY PayslipsAre, FS_Subset DEF Evidence!Identified
  <1> DEFINE s == Evidence!Sorted(S)
             v == SortedIds(S)
  <1>2. Enumerates(s, S)
    BY <1>1, SortedSlipsEnumerate
  <1>3. Len(s) \in Nat /\ v = [k \in 1..Len(s) |-> s[k].id]
    BY <1>2, Zenon DEF Enumerates, SortedIds
  <1> HIDE DEF s, v
  <1>4. \A k \in 1..Len(s) : s[k] \in S
    BY <1>2 DEF Enumerates
  <1>5. v \in [1..Len(s) -> Slips] /\ DOMAIN v = 1..Len(s)
        /\ \A k \in 1..Len(s) : v[k] = s[k].id
    BY <1>1, <1>3, <1>4
  <1>6. v \in Seq(Slips)
    BY <1>3, <1>5
  <1>7. Evidence!Range(v) = {v[k] : k \in 1..Len(s)}
    BY <1>5 DEF Evidence!Range
  <1>8. {v[k] : k \in 1..Len(s)} = {s[k].id : k \in 1..Len(s)}
    BY <1>5
  <1>9. {s[k].id : k \in 1..Len(s)} = Evidence!IdsOf(S)
    BY <1>2, <1>4 DEF Enumerates, Evidence!IdsOf
  <1> QED
    BY <1>6, <1>7, <1>8, <1>9 DEF v

LEMMA EvidenceLeast ==
    ASSUME NEW m \in Nat, NEW n \in Nat
    PROVE  Evidence!Min({m, n}) = IF m <= n THEN m ELSE n
  BY DEF Evidence!Min

\* A chunk and what is left.
LEMMA ChunkAndRest ==
    ASSUME chunks \in Seq(Slips)
    PROVE  /\ RestIds \in Seq(Slips)
           /\ NextIds \in SUBSET Slips /\ Evidence!Range(RestIds) \in SUBSET Slips
           /\ Evidence!Range(chunks) = NextIds \cup Evidence!Range(RestIds)
           /\ RestIds = <<>> => Evidence!Range(RestIds) = {}
  <1> DEFINE n == Len(chunks)
             m == Evidence!Min({Chunk, n})
             a == SubSeq(chunks, 1, m)
             b == SubSeq(chunks, Chunk + 1, n)
  <1>1. n \in Nat /\ DOMAIN chunks = 1..n /\ \A k \in 1..n : chunks[k] \in Slips
    OBVIOUS
  <1>2. Chunk \in Nat /\ Chunk > 0
    BY EvidenceConstants
  <1>3. m = IF Chunk <= n THEN Chunk ELSE n
    BY <1>1, <1>2, EvidenceLeast
  <1> HIDE DEF m
  <1>4. m \in Nat /\ m <= n /\ m <= Chunk
    <2> HIDE DEF n
    <2> QED BY <1>1, <1>2, <1>3
  <1>5. DOMAIN a = 1..m /\ \A k \in 1..m : a[k] = chunks[k]
    BY <1>1, <1>4
  <1>6. /\ Chunk >= n => b = <<>> /\ DOMAIN b = {}
        /\ Chunk < n => DOMAIN b = 1..(n - Chunk) /\ \A k \in 1..(n - Chunk) : b[k] = chunks[Chunk + k]
    BY <1>1, <1>2
  <1>7. b \in Seq(Slips)
    <2>1. CASE Chunk >= n
      <3>1. b = <<>>
        BY <1>6, <2>1
      <3> HIDE DEF b
      <3> QED BY <3>1
    <2>2. CASE Chunk < n
      <3>1. Chunk + 1 \in 1..n /\ n \in 1..n
        BY <1>1, <1>2, <2>2
      <3> QED BY <1>1, <3>1
    <2> QED BY <1>1, <1>2, <2>1, <2>2
  <1>8. NextIds = {a[k] : k \in DOMAIN a} /\ Evidence!Range(b) = {b[k] : k \in DOMAIN b}
        /\ Evidence!Range(chunks) = {chunks[k] : k \in 1..n}
    BY <1>1 DEF NextIds, Evidence!Range, m
  <1> HIDE DEF a, b
  <1>9. NextIds = {chunks[k] : k \in 1..m}
    BY <1>5, <1>8
  <1>10. ASSUME NEW k \in 1..n, k > m PROVE chunks[k] \in Evidence!Range(b)
    <2>1. Chunk < n /\ k - Chunk \in 1..(n - Chunk) /\ Chunk + (k - Chunk) = k
      <3> HIDE DEF n
      <3>1. k \in Int /\ Chunk \in Int /\ n \in Int
        BY <1>1, <1>2, <1>10
      <3>2. Chunk < n
        BY <1>3, <1>10, <3>1
      <3>3. Chunk < k
        BY <1>3, <1>10, <3>1, <3>2
      <3> QED BY <1>10, <3>1, <3>2, <3>3
    <2>2. k - Chunk \in DOMAIN b /\ b[k - Chunk] = chunks[k]
      BY <1>6, <2>1
    <2> QED BY <1>8, <2>2
  <1>11. ASSUME NEW x \in Evidence!Range(b) PROVE \E k \in 1..n : x = chunks[k]
    <2>1. PICK j \in DOMAIN b : x = b[j]
      BY <1>8
    <2>2. Chunk < n
      BY <1>1, <1>2, <1>6, <2>1
    <2>3. Chunk + j \in 1..n /\ x = chunks[Chunk + j]
      BY <1>1, <1>2, <1>6, <2>1, <2>2
    <2> QED BY <2>3
  <1>12. Evidence!Range(chunks) = NextIds \cup Evidence!Range(b)
    <2>1. \A k \in 1..m : k \in 1..n
      BY <1>1, <1>4
    <2>2. NextIds \subseteq Evidence!Range(chunks)
      BY <1>8, <1>9, <2>1
    <2>3. Evidence!Range(b) \subseteq Evidence!Range(chunks)
      BY <1>8, <1>11
    <2>4. ASSUME NEW k \in 1..n PROVE chunks[k] \in NextIds \cup Evidence!Range(b)
      <3>1. CASE k <= m
        <4>1. k \in 1..m
          BY <1>1, <1>4, <3>1
        <4> QED BY <1>9, <4>1
      <3>2. CASE k > m
        BY <1>10, <3>2
      <3> QED BY <1>1, <1>4, <3>1, <3>2
    <2> QED BY <1>8, <2>2, <2>3, <2>4
  <1>13. NextIds \in SUBSET Slips /\ Evidence!Range(b) \in SUBSET Slips
    <2>1. Evidence!Range(chunks) \subseteq Slips
      BY <1>1, <1>8
    <2> QED BY <1>12, <2>1
  <1>14. b = <<>> => Evidence!Range(b) = {}
    BY <1>8
  <1>15. RestIds = b
    BY DEF RestIds, b
  <1> QED
    BY <1>7, <1>12, <1>13, <1>14, <1>15
----------------------------------------------------------------------------
\* What an undisturbed call has read.

EvidenceSoFar ==
    ~stirred =>
        /\ pc = "members" => got.run = {run}
        /\ pc = "period" /\ request.scope = "both" => got.slips = Members
        /\ pc \in {"lines", "worked", "inputs", "types", "answer"} => got.slips = Evidence!SlipsAsked
        /\ pc = "lines" => /\ chunks \in Seq(Slips)
                           /\ got.lines \cup Evidence!Lines(Evidence!Range(chunks)) = Evidence!LinesAsked
        /\ pc \in {"worked", "inputs", "types", "answer"} => got.lines = Evidence!LinesAsked
        /\ pc \in {"inputs", "types", "answer"} => got.worked = Evidence!WorkedAsked
        /\ pc \in {"types", "answer"} => got.inputs = Evidence!InputsAsked
        /\ pc = "answer" /\ Evidence!InputsAsked # {} => got.types = types

EvidenceMade ==
    ~stirred /\ pc = "answered" =>
        /\ listed = Evidence!ItemsAsked /\ Evidence!OneEdition(Evidence!LinesAsked)
        /\ request.tool = "batch" => answer.totals = Evidence!ObservedTotals(Evidence!LinesAsked)

LEMMA EvidenceQuietIs == Evidence!QuietInv <=> EvidenceSoFar /\ EvidenceMade
  BY Zenon DEF Evidence!QuietInv, EvidenceSoFar, EvidenceMade, Members

LEMMA NotListed ==
    ASSUME Asked, request.tool \notin {"batch", "rules", "payslip"}
    PROVE  Evidence!LinesAsked = {} /\ Evidence!InputsAsked = {} /\ Evidence!WorkedAsked = {}
  BY DEF Evidence!LinesAsked, Evidence!InputsAsked, Evidence!WorkedAsked

LEMMA IncludedIs ==
    ASSUME NEW q, NEW S
    PROVE  /\ Evidence!Included(q, S) \subseteq S
           /\ q.tool = "payslip" => Evidence!Included(q, S) = S
  BY DEF Evidence!Included, Evidence!Chosen

\* The lines of the payslips in question are still to be read.
LEMMA ToRead ==
    ASSUME Evidence!SourceInv, request.tool \in {"batch", "rules", "payslip"}
    PROVE  LET I == Evidence!Included(request, Evidence!SlipsAsked)
           IN  /\ SortedIds(I) \in Seq(Slips)
               /\ Evidence!Lines(Evidence!Range(SortedIds(I))) = Evidence!LinesAsked
               /\ I = {} => Evidence!LinesAsked = {}
  <1> DEFINE I == Evidence!Included(request, Evidence!SlipsAsked)
  <1>1. I \subseteq Evidence!SlipsAsked /\ Evidence!SlipsAsked \subseteq Evidence!Payslips
    BY IncludedIs DEF Evidence!SlipsAsked
  <1>2. Evidence!LinesAsked = Evidence!Lines(Evidence!IdsOf(I))
    BY DEF Evidence!LinesAsked
  <1> HIDE DEF I
  <1>3. SortedIds(I) \in Seq(Slips) /\ Evidence!Range(SortedIds(I)) = Evidence!IdsOf(I)
    BY <1>1, SortedIdsAre
  <1>4. I = {} => Evidence!IdsOf(I) = {}
    BY DEF Evidence!IdsOf
  <1> QED
    BY <1>2, <1>3, <1>4, LinesNone DEF I

LEMMA EvidenceQuietBegins ==
    ASSUME Evidence!Init
    PROVE  Evidence!QuietInv
  <1>1. Asked /\ pc = Evidence!FirstRead(request)
    BY EvidenceAsked DEF Evidence!Init
  <1>2. pc \in {"window", "run", "slip", "period"} /\ (pc = "period" => request.scope = "period")
    BY <1>1, FirstStage
  <1> QED
    BY <1>2, EvidenceQuietIs DEF EvidenceSoFar, EvidenceMade

LEMMA EvidenceQuietStays ==
    ASSUME Evidence!SourceInv, Evidence!StageInv, Evidence!QuietInv, Evidence!Next
    PROVE  Evidence!QuietInv'
  <1>1. EvidenceStages /\ EvidenceSoFar /\ EvidenceMade
    BY StagesAre, EvidenceQuietIs
  <1>2. Asked
    BY EvidenceSource, EvidenceAsked
  <1> SUFFICES EvidenceSoFar' /\ EvidenceMade'
    BY Zenon DEF Evidence!QuietInv, EvidenceSoFar, EvidenceMade, Members
  <1>3. ASSUME pc' # "answered" PROVE EvidenceMade'
    BY <1>3 DEF EvidenceMade
  <1>4. ASSUME pc' \in {"refused", "answered", "window", "run", "slip"} PROVE EvidenceSoFar'
    BY <1>4 DEF EvidenceSoFar
  <1>5. ASSUME Refused PROVE EvidenceSoFar' /\ EvidenceMade'
    BY <1>3, <1>4, <1>5 DEF Refused
  <1> DEFINE same == UNCHANGED <<run, slip, line, input, types, request>>
  <1>6. \/ Evidence!ReadWindow \/ Evidence!ReadRun \/ Evidence!ReadMembers
        \/ Evidence!ReadPeriod \/ Evidence!ReadSlip \/ Evidence!ReadLines
        \/ Evidence!ReadWorkedDays \/ Evidence!ReadInputs \/ Evidence!ReadTypes
        \/ Evidence!ReadRefused \/ Evidence!Answer
        => /\ same /\ stirred' = stirred
           /\ (Evidence!Payslips)' = Evidence!Payslips
           /\ Evidence!SlipsAsked' = Evidence!SlipsAsked
           /\ Evidence!LinesAsked' = Evidence!LinesAsked
           /\ Evidence!InputsAsked' = Evidence!InputsAsked
           /\ Evidence!WorkedAsked' = Evidence!WorkedAsked
           /\ Members' = Members
           /\ \A S : (Evidence!Lines(S))' = Evidence!Lines(S)
    BY EvidenceSame, EvidenceReads
  <1> HIDE DEF same
  \* Payslips have been read; the lines come next, or the answer.
  <1>7. ASSUME Evidence!ReadMembers \/ Evidence!ReadPeriod,
               Evidence!AfterSlips(Evidence!SlipsAsked),
               got' = [got EXCEPT !.slips = Evidence!SlipsAsked]
        PROVE  EvidenceSoFar' /\ EvidenceMade'
    <2> DEFINE I == Evidence!Included(request, Evidence!SlipsAsked)
    <2>1. IF request.tool \in {"batch", "rules"}
          THEN chunks' = SortedIds(I) /\ pc' = IF I = {} THEN "answer" ELSE "lines"
          ELSE chunks' = chunks /\ pc' = "answer"
      BY <1>7, AfterSlipsIs DEF Afterwards
    <2>2. /\ got'.slips = Evidence!SlipsAsked /\ got'.worked = {} /\ got'.inputs = {}
          /\ got'.lines = {}
      <3>1. /\ got.lines = {} /\ got.worked = {} /\ got.inputs = {}
            /\ got = [run |-> got.run, slips |-> got.slips, lines |-> got.lines,
                      worked |-> got.worked, inputs |-> got.inputs, types |-> got.types]
        BY <1>1, <1>7, EvidenceReading DEF EvidenceStages
      <3> QED BY <1>7, <3>1
    <2>3. request.tool \notin {"payslip"}
      BY <1>1, <1>2, <1>7, EvidenceReading
         DEF EvidenceStages, Evidence!UsesRun, Evidence!UsesPeriod, Asked
    <2>4. Evidence!InputsAsked = {} /\ Evidence!WorkedAsked = {}
      BY <2>3 DEF Evidence!InputsAsked, Evidence!WorkedAsked
    <2>5. request.tool \in {"batch", "rules"} =>
               /\ SortedIds(I) \in Seq(Slips)
               /\ Evidence!Lines(Evidence!Range(SortedIds(I))) = Evidence!LinesAsked
               /\ I = {} => Evidence!LinesAsked = {}
      BY ToRead
    <2>6. request.tool \notin {"batch", "rules"} => Evidence!LinesAsked = {}
      BY <1>2, <2>3, NotListed
    <2> HIDE DEF I
    <2>7. pc' \in {"answer", "lines"}
      BY <2>1
    <2>8. ASSUME pc' = "lines", ~stirred
          PROVE  /\ chunks' \in Seq(Slips)
                 /\ got'.lines \cup (Evidence!Lines(Evidence!Range(chunks)))' = Evidence!LinesAsked
      <3>1. chunks' = SortedIds(I) /\ request.tool \in {"batch", "rules"}
        BY <2>1, <2>8
      <3>2. (Evidence!Lines(Evidence!Range(chunks)))' = Evidence!Lines(Evidence!Range(SortedIds(I)))
        <4>1. PICK S : S = Evidence!Range(SortedIds(I))
          OBVIOUS
        <4>2. (Evidence!Range(chunks))' = S
          BY <3>1, <4>1 DEF Evidence!Range
        <4>3. (Evidence!Lines(Evidence!Range(chunks)))' = (Evidence!Lines(S))'
          BY <4>2 DEF Evidence!Lines, Evidence!Children
        <4>4. (Evidence!Lines(S))' = Evidence!Lines(S)
          BY <1>6, <1>7
        <4> QED BY <4>1, <4>3, <4>4
      <3> QED BY <2>2, <2>5, <2>8, <3>1, <3>2
    <2>9. pc' = "answer" /\ ~stirred => got'.lines = Evidence!LinesAsked
      BY <2>1, <2>2, <2>5, <2>6
    <2>10. /\ stirred' = stirred
           /\ Evidence!SlipsAsked' = Evidence!SlipsAsked
           /\ Evidence!LinesAsked' = Evidence!LinesAsked
           /\ Evidence!InputsAsked' = {} /\ Evidence!WorkedAsked' = {}
      BY <1>6, <1>7, <2>4
    <2>11. EvidenceSoFar'
      BY <2>2, <2>7, <2>8, <2>9, <2>10 DEF EvidenceSoFar
    <2> QED
      BY <1>3, <2>7, <2>11

  <1>8. CASE Evidence!ReadWindow
    <2>1. /\ pc = "window" /\ pc' = "answer"
          /\ got' = [got EXCEPT !.slips = {r \in Evidence!Payslips : r.state \in request.states}]
      BY <1>8, EvidenceReading
    <2>2. request.tool = "periods" /\ got = Evidence!Nothing
      BY <1>1, <2>1 DEF EvidenceStages
    <2>3. /\ got'.slips = Evidence!SlipsAsked /\ got'.lines = {} /\ got'.worked = {}
          /\ got'.inputs = {}
      <3>1. got = [run |-> {}, slips |-> {}, lines |-> {}, worked |-> {}, inputs |-> {},
                   types |-> <<>>]
        BY <2>2, NothingIs DEF NothingRead
      <3> QED BY <1>2, <2>1, <2>2, <3>1, AskedIs
    <2>4. Evidence!LinesAsked = {} /\ Evidence!InputsAsked = {} /\ Evidence!WorkedAsked = {}
      BY <1>2, <2>2, NotListed
    <2> QED
      BY <1>3, <1>6, <1>8, <2>1, <2>3, <2>4 DEF EvidenceSoFar
  <1>9. CASE Evidence!ReadRun
    <2>1. CASE run.there /\ pc' = "members" /\ got' = [got EXCEPT !.run = {run}]
      <3>1. got'.run = {run} /\ run' = run
        <4>1. got = [run |-> got.run, slips |-> got.slips, lines |-> got.lines,
                     worked |-> got.worked, inputs |-> got.inputs, types |-> got.types]
          BY <1>1 DEF EvidenceStages
        <4> QED BY <1>9, <2>1, <4>1, EvidenceReads
      <3> QED BY <1>3, <2>1, <3>1 DEF EvidenceSoFar
    <2> QED BY <1>5, <1>9, <2>1, EvidenceReading
  <1>10. CASE Evidence!ReadMembers
    <2>1. pc = "members" /\ Evidence!UsesRun
      BY <1>1, <1>10, EvidenceReading DEF EvidenceStages
    <2>2. CASE /\ got' = [got EXCEPT !.slips = Members]
               /\ request.tool # "batch" /\ request.scope = "both" /\ pc' = "period"
      <3>1. got'.slips = Members
        <4>1. got = [run |-> got.run, slips |-> got.slips, lines |-> got.lines,
                     worked |-> got.worked, inputs |-> got.inputs, types |-> got.types]
          BY <1>1 DEF EvidenceStages
        <4> QED BY <2>2, <4>1
      <3> QED BY <1>3, <1>6, <1>10, <2>2, <3>1 DEF EvidenceSoFar
    <2>3. CASE /\ got' = [got EXCEPT !.slips = Members]
               /\ ~(request.tool # "batch" /\ request.scope = "both")
               /\ Evidence!AfterSlips(Members)
      <3>1. Evidence!SlipsAsked = Members
        BY <1>2, <2>1, <2>3, AskedIs
      <3> QED BY <1>7, <1>10, <2>3, <3>1
    <2> QED BY <1>5, <1>10, <2>2, <2>3, EvidenceReading
  <1>11. CASE Evidence!ReadPeriod
    <2>1. /\ pc = "period" /\ request.tool \in {"payslips", "rules"} /\ Evidence!UsesPeriod
          /\ request.scope = "period" => got = Evidence!Nothing
      BY <1>1, <1>11, EvidenceReading DEF EvidenceStages
    <2>2. CASE got' = [got EXCEPT !.slips = Kept] /\ Evidence!AfterSlips(Kept)
      <3>1. CASE stirred
        <4>1. stirred' /\ pc' \in {"answer", "lines"}
          BY <1>6, <1>11, <2>2, <3>1, AfterSlipsIs DEF Afterwards
        <4> QED BY <1>3, <4>1 DEF EvidenceSoFar
      <3>2. CASE ~stirred
        <4>1. request.scope = "both" => got.slips = Members
          BY <1>1, <2>1, <3>2 DEF EvidenceSoFar
        <4>2. Evidence!SlipsAsked = Kept
          BY <1>2, <2>1, <4>1, AskedIs
        <4> QED BY <1>7, <1>11, <2>2, <4>2
      <3> QED BY <3>1, <3>2
    <2> QED BY <1>5, <1>11, <2>2, EvidenceReading
  <1>12. CASE Evidence!ReadSlip
    <2>1. /\ pc = "slip" /\ got' = [got EXCEPT !.slips = OfTheId]
          /\ chunks' = SortedIds(OfTheId) /\ pc' = IF OfTheId = {} THEN "answer" ELSE "lines"
      BY <1>12, EvidenceReading
    <2>2. request.tool = "payslip" /\ got = Evidence!Nothing
      BY <1>1, <2>1 DEF EvidenceStages
    <2>3. Evidence!SlipsAsked = OfTheId /\ Evidence!Included(request, Evidence!SlipsAsked) = OfTheId
      BY <1>2, <2>2, AskedIs, IncludedIs
    <2>4. got'.slips = Evidence!SlipsAsked /\ got'.lines = {}
      <3>1. got = [run |-> {}, slips |-> {}, lines |-> {}, worked |-> {}, inputs |-> {},
                   types |-> <<>>]
        BY <2>2, NothingIs DEF NothingRead
      <3> QED BY <2>1, <2>3, <3>1
    <2>5. OfTheId # {}
      <3>1. request.slip \in Slips
        BY <1>2, <2>2 DEF Asked
      <3>2. Evidence!Row(request.slip) \in OfTheId
        BY <3>1, SlipRowIs, PayslipsAre DEF OfTheId
      <3> QED BY <3>2
    <2>6. /\ chunks' \in Seq(Slips)
          /\ Evidence!Lines(Evidence!Range(SortedIds(OfTheId))) = Evidence!LinesAsked
      BY <2>1, <2>2, <2>3, ToRead
    <2>7. (Evidence!Lines(Evidence!Range(chunks)))' = Evidence!Lines(Evidence!Range(SortedIds(OfTheId)))
      <3>1. PICK S : S = Evidence!Range(SortedIds(OfTheId))
        OBVIOUS
      <3>2. (Evidence!Range(chunks))' = S
        BY <2>1, <3>1 DEF Evidence!Range
      <3>3. (Evidence!Lines(Evidence!Range(chunks)))' = (Evidence!Lines(S))'
        BY <3>2 DEF Evidence!Lines, Evidence!Children
      <3>4. (Evidence!Lines(S))' = Evidence!Lines(S)
        BY <1>6, <1>12
      <3> QED BY <3>1, <3>3, <3>4
    <2> QED
      BY <1>3, <1>6, <1>12, <2>1, <2>4, <2>5, <2>6, <2>7 DEF EvidenceSoFar
  <1>13. CASE Evidence!ReadLines
    <2>1. pc = "lines" /\ request.tool \in {"batch", "rules", "payslip"}
          /\ got.worked = {} /\ got.inputs = {}
      BY <1>1, <1>13, EvidenceReading DEF EvidenceStages
    <2>2. CASE /\ got' = [got EXCEPT !.lines = got.lines \cup Evidence!Lines(NextIds)]
               /\ chunks' = RestIds
               /\ pc' = IF RestIds # <<>> THEN "lines"
                        ELSE IF request.tool = "payslip" THEN "worked" ELSE "answer"
      <3>1. pc' \in {"lines", "worked", "answer"}
        BY <2>2
      <3>2. CASE stirred
        <4>1. stirred'
          BY <1>6, <1>13, <3>2
        <4> QED BY <1>3, <3>1, <4>1 DEF EvidenceSoFar
      <3>3. CASE ~stirred
        <4>1. /\ got.slips = Evidence!SlipsAsked /\ chunks \in Seq(Slips)
              /\ got.lines \cup Evidence!Lines(Evidence!Range(chunks)) = Evidence!LinesAsked
          BY <1>1, <2>1, <3>3 DEF EvidenceSoFar
        <4>2. /\ RestIds \in Seq(Slips)
              /\ Evidence!Range(chunks) = NextIds \cup Evidence!Range(RestIds)
              /\ RestIds = <<>> => Evidence!Range(RestIds) = {}
          BY <4>1, ChunkAndRest
        <4>3. Evidence!Lines(Evidence!Range(chunks))
                = Evidence!Lines(NextIds) \cup Evidence!Lines(Evidence!Range(RestIds))
          BY <4>2, LinesJoin
        <4>4. /\ got'.slips = Evidence!SlipsAsked /\ got'.worked = {} /\ got'.inputs = {}
              /\ got'.lines = got.lines \cup Evidence!Lines(NextIds)
          <5>1. got = [run |-> got.run, slips |-> got.slips, lines |-> got.lines,
                       worked |-> got.worked, inputs |-> got.inputs, types |-> got.types]
            BY <1>1 DEF EvidenceStages
          <5> QED BY <2>1, <2>2, <4>1, <5>1
        <4>5. got'.lines \cup Evidence!Lines(Evidence!Range(RestIds)) = Evidence!LinesAsked
          BY <4>1, <4>3, <4>4
        <4>6. RestIds = <<>> => got'.lines = Evidence!LinesAsked
          BY <4>2, <4>5, LinesNone
        <4>7. (Evidence!Lines(Evidence!Range(chunks)))' = Evidence!Lines(Evidence!Range(RestIds))
          <5>1. PICK S : S = Evidence!Range(RestIds)
            OBVIOUS
          <5>2. (Evidence!Range(chunks))' = S
            BY <2>2, <5>1 DEF Evidence!Range
          <5>3. (Evidence!Lines(Evidence!Range(chunks)))' = (Evidence!Lines(S))'
            BY <5>2 DEF Evidence!Lines, Evidence!Children
          <5>4. (Evidence!Lines(S))' = Evidence!Lines(S)
            BY <1>6, <1>13
          <5> QED BY <5>1, <5>3, <5>4
        <4>8. request.tool # "payslip" => Evidence!InputsAsked = {} /\ Evidence!WorkedAsked = {}
          BY DEF Evidence!InputsAsked, Evidence!WorkedAsked
        <4>9. /\ pc' = "lines" => RestIds \in Seq(Slips)
              /\ pc' \in {"worked", "answer"} => got'.lines = Evidence!LinesAsked
              /\ pc' = "answer" => request.tool # "payslip"
          BY <2>2, <4>2, <4>6
        <4> HIDE DEF same
        <4> QED
          BY <1>3, <1>6, <1>13, <2>2, <3>1, <4>4, <4>5, <4>7, <4>8, <4>9 DEF EvidenceSoFar
      <3> QED BY <3>2, <3>3
    <2> QED BY <1>5, <1>13, <2>2, EvidenceReading
  <1>14. CASE Evidence!ReadWorkedDays
    <2>1. /\ pc = "worked" /\ pc' = "inputs" /\ request.tool = "payslip"
          /\ got' = [got EXCEPT !.worked = Evidence!WorkedDays({request.slip})]
      BY <1>1, <1>14, EvidenceReading DEF EvidenceStages
    <2>2. /\ got'.slips = got.slips /\ got'.lines = got.lines
          /\ got'.worked = Evidence!WorkedAsked
      <3>1. got = [run |-> got.run, slips |-> got.slips, lines |-> got.lines,
                   worked |-> got.worked, inputs |-> got.inputs, types |-> got.types]
        BY <1>1 DEF EvidenceStages
      <3> QED BY <2>1, <3>1 DEF Evidence!WorkedAsked
    <2>3. ~stirred => got.slips = Evidence!SlipsAsked /\ got.lines = Evidence!LinesAsked
      BY <1>1, <2>1 DEF EvidenceSoFar
    <2> QED
      BY <1>3, <1>6, <1>14, <2>1, <2>2, <2>3 DEF EvidenceSoFar
  <1>15. CASE Evidence!ReadInputs
    <2>1. /\ pc = "inputs" /\ request.tool = "payslip"
          /\ got' = [got EXCEPT !.inputs = Evidence!Inputs({request.slip})]
          /\ pc' = IF Evidence!Inputs({request.slip}) = {} THEN "answer" ELSE "types"
      BY <1>1, <1>15, EvidenceReading DEF EvidenceStages
    <2>2. /\ got'.slips = got.slips /\ got'.lines = got.lines /\ got'.worked = got.worked
          /\ got'.inputs = Evidence!InputsAsked
          /\ pc' = IF Evidence!InputsAsked = {} THEN "answer" ELSE "types"
      <3>1. got = [run |-> got.run, slips |-> got.slips, lines |-> got.lines,
                   worked |-> got.worked, inputs |-> got.inputs, types |-> got.types]
        BY <1>1 DEF EvidenceStages
      <3> QED BY <2>1, <3>1 DEF Evidence!InputsAsked
    <2>3. ~stirred => /\ got.slips = Evidence!SlipsAsked /\ got.lines = Evidence!LinesAsked
                      /\ got.worked = Evidence!WorkedAsked
      BY <1>1, <2>1 DEF EvidenceSoFar
    <2> QED
      BY <1>3, <1>6, <1>15, <2>2, <2>3 DEF EvidenceSoFar
  <1>16. CASE Evidence!ReadTypes
    <2>1. pc = "types"
      BY <1>16, EvidenceReading
    <2>2. CASE pc' = "answer" /\ got' = [got EXCEPT !.types = types]
      <3>1. /\ got'.slips = got.slips /\ got'.lines = got.lines /\ got'.worked = got.worked
            /\ got'.inputs = got.inputs /\ got'.types = types /\ types' = types
        <4>1. got = [run |-> got.run, slips |-> got.slips, lines |-> got.lines,
                     worked |-> got.worked, inputs |-> got.inputs, types |-> got.types]
          BY <1>1 DEF EvidenceStages
        <4> QED BY <1>16, <2>2, <4>1, EvidenceReads
      <3>2. ~stirred => /\ got.slips = Evidence!SlipsAsked /\ got.lines = Evidence!LinesAsked
                        /\ got.worked = Evidence!WorkedAsked /\ got.inputs = Evidence!InputsAsked
        BY <1>1, <2>1 DEF EvidenceSoFar
      <3> QED BY <1>3, <1>6, <1>16, <2>2, <3>1, <3>2 DEF EvidenceSoFar
    <2> QED BY <1>5, <1>16, <2>2, EvidenceReading
  <1>17. CASE Evidence!ReadRefused
    BY <1>5, <1>17, EvidenceReading
  <1>18. CASE Evidence!Answer
    <2>1. /\ pc = "answer" /\ pc' \in {"answered", "refused"}
      BY <1>18, EvidenceReading
    <2>2. pc' = "answered" =>
            /\ listed' = Evidence!AllItems(request, got) /\ ~(~Evidence!OneEdition(got.lines))
            /\ request.tool = "batch" => answer'.totals = Evidence!ObservedTotals(got.lines)
      BY <1>18 DEF Evidence!Answer
    <2>3. ASSUME ~stirred, pc' = "answered"
          PROVE  /\ listed' = Evidence!ItemsAsked /\ Evidence!OneEdition(Evidence!LinesAsked)
                 /\ request.tool = "batch" => answer'.totals = Evidence!ObservedTotals(Evidence!LinesAsked)
      <3>1. /\ got.slips = Evidence!SlipsAsked /\ got.lines = Evidence!LinesAsked
            /\ got.inputs = Evidence!InputsAsked
            /\ Evidence!InputsAsked # {} => got.types = types
        BY <1>1, <2>1, <2>3 DEF EvidenceSoFar
      <3> DEFINE g == [slips |-> Evidence!SlipsAsked, lines |-> Evidence!LinesAsked,
                       inputs |-> Evidence!InputsAsked, types |-> types]
      <3>2. /\ g.slips = Evidence!SlipsAsked /\ g.lines = Evidence!LinesAsked
            /\ g.inputs = Evidence!InputsAsked /\ g.types = types
        OBVIOUS
      <3> HIDE DEF g
      <3>3. Evidence!AllItems(request, got) = Evidence!AllItems(request, g)
        <4>1. Evidence!InputItems(got.inputs, got.types) = Evidence!InputItems(g.inputs, g.types)
          <5>1. CASE Evidence!InputsAsked # {}
            BY <3>1, <3>2, <5>1
          <5>2. CASE Evidence!InputsAsked = {}
            <6>1. \A kinds : Evidence!InputItems({}, kinds)
                     = [k \in 1..Evidence!Cardinality({}) |->
                          CHOOSE x \in {} : Evidence!Cardinality({}) = k - 1]
              <7> SUFFICES ASSUME NEW kinds
                           PROVE  Evidence!InputItems({}, kinds)
                                    = [k \in 1..Evidence!Cardinality({}) |->
                                         CHOOSE x \in {} : Evidence!Cardinality({}) = k - 1]
                OBVIOUS
              <7>1. {InputItem(i, kinds) : i \in {}} = {}
                OBVIOUS
              <7>2. Evidence!InputItems({}, kinds)
                      = [k \in 1..Evidence!Cardinality({InputItem(i, kinds) : i \in {}}) |->
                           CHOOSE x \in {InputItem(i, kinds) : i \in {}} :
                             Evidence!Cardinality({y \in {InputItem(i, kinds) : i \in {}} :
                                                    y.id < x.id}) = k - 1]
                BY Zenon DEF Evidence!InputItems, Evidence!InOrder, InputItem
              <7>3. \A x : {y \in {} : y.id < x.id} = {}
                OBVIOUS
              <7> QED BY <7>1, <7>2, <7>3
            <6> QED BY <3>1, <3>2, <5>2, <6>1
          <5> QED BY <5>1, <5>2
        <4> QED BY <3>1, <3>2, <4>1 DEF Evidence!AllItems
      <3>4. Evidence!ItemsAsked = Evidence!AllItems(request, g)
        BY Zenon DEF Evidence!ItemsAsked, g
      <3> QED BY <2>2, <2>3, <3>1, <3>3, <3>4
    <2>4. Evidence!ItemsAsked' = Evidence!ItemsAsked
      <3>1. types' = types /\ request' = request
        BY <1>18, EvidenceReads
      <3> QED BY <1>6, <1>18, <3>1 DEF Evidence!ItemsAsked
    <2>5. /\ (Evidence!ObservedTotals(Evidence!LinesAsked))' = Evidence!ObservedTotals(Evidence!LinesAsked)
          /\ (Evidence!OneEdition(Evidence!LinesAsked))' <=> Evidence!OneEdition(Evidence!LinesAsked)
      BY <1>6, <1>18 DEF Evidence!OneEdition
    <2>6. EvidenceMade'
      <3>1. request' = request /\ stirred' = stirred
        BY <1>18, EvidenceReads
      <3> QED BY <2>3, <2>4, <2>5, <3>1 DEF EvidenceMade
    <2> QED
      BY <1>4, <2>1, <2>6
  <1>19. CASE EvidenceAsk
    <2>1. Asked' /\ pc' = Evidence!FirstRead(request')
      BY <1>19, EvidenceAsks, EvidenceConstants
         DEF Asked, Evidence!WellAsked, Evidence!Tools, Evidence!Lists
    <2>2. pc' \in {"window", "run", "slip", "period"} /\ (pc' = "period" => request'.scope = "period")
      BY <2>1 DEF Asked, Evidence!FirstRead
    <2> QED
      BY <1>3, <2>2 DEF EvidenceSoFar
  <1>20. CASE Evidence!Tick
    <2>1. UNCHANGED <<run, slip, line, input, types, request, pc, got, chunks, listed, answer, stirred>>
      BY <1>20 DEF Evidence!Tick, Evidence!call
    <2>2. /\ Evidence!SlipsAsked' = Evidence!SlipsAsked
          /\ Evidence!LinesAsked' = Evidence!LinesAsked
          /\ Evidence!InputsAsked' = Evidence!InputsAsked
          /\ Evidence!WorkedAsked' = Evidence!WorkedAsked
          /\ Members' = Members
          /\ \A S : (Evidence!Lines(S))' = Evidence!Lines(S)
      BY <2>1, EvidenceSame
    <2>3. (Evidence!Lines(Evidence!Range(chunks)))' = Evidence!Lines(Evidence!Range(chunks))
      BY <2>1 DEF Evidence!Lines, Evidence!Children, Evidence!Range
    <2>4. Evidence!ItemsAsked' = Evidence!ItemsAsked
      BY <2>1, <2>2 DEF Evidence!ItemsAsked
    <2>5. /\ (Evidence!ObservedTotals(Evidence!LinesAsked))' = Evidence!ObservedTotals(Evidence!LinesAsked)
          /\ (Evidence!OneEdition(Evidence!LinesAsked))' <=> Evidence!OneEdition(Evidence!LinesAsked)
      BY <2>2 DEF Evidence!OneEdition
    <2>6. EvidenceMade'
      BY <1>1, <2>1, <2>4, <2>5 DEF EvidenceMade
    <2> QED
      BY <1>1, <2>1, <2>2, <2>3, <2>6 DEF EvidenceSoFar
  <1>21. CASE Evidence!Write
    <2>1. stirred'
      BY <1>21 DEF Evidence!Write
    <2> QED
      BY <2>1 DEF EvidenceSoFar, EvidenceMade
  <1> QED
    BY <1>8, <1>9, <1>10, <1>11, <1>12, <1>13, <1>14, <1>15, <1>16, <1>17, <1>18, <1>19, <1>20,
       <1>21, EvidenceActions
----------------------------------------------------------------------------
\* Rows read earlier against rows as they are.

LEMMA WellReadIs ==
    ASSUME NEW g
    PROVE  Evidence!WellRead(g) <=>
             /\ IsFiniteSet(g.slips) /\ g.slips \subseteq Evidence!SlipRow
             /\ Evidence!Identified(g.slips)
             /\ IsFiniteSet(g.lines) /\ g.lines \subseteq Evidence!LineRow
             /\ IsFiniteSet(g.inputs)
  BY EvidenceFiniteSets DEF Evidence!WellRead

\* What was read stays older than what is written later, unless a row was
\* written twice within a second.
LEMMA EvidenceOlderStays ==
    ASSUME Evidence!SourceInv, Evidence!Next, NEW g, Evidence!WellRead(g)
    PROVE  /\ blurred => blurred'
           /\ ~blurred' /\ Evidence!Older(g) => Evidence!Older(g)'
  <1> USE EvidenceSource
  <1>1. CASE UNCHANGED <<slip, line, lastLine, blurred>>
    BY <1>1 DEF Evidence!Older, Evidence!Row, Evidence!Alike
  <1>2. /\ \A s \in g.slips : s.id \in Slips /\ s.wd \in Nat
        /\ \A l \in g.lines : l.id \in Nat /\ l.wd \in Nat
    BY WellReadIs DEF Evidence!SlipRow, Evidence!LineRow
  <1>3. ASSUME NEW i \in Slips, Evidence!ChangeSlip(i)
        PROVE  /\ blurred => blurred'
               /\ ~blurred' /\ Evidence!Older(g) => Evidence!Older(g)'
    <2>1. /\ slip' \in [Slips -> Evidence!Payslip] /\ slip'[i].wd = now
          /\ \A j \in Slips : j # i => slip'[j] = slip[j]
          /\ blurred' = (blurred \/ slip[i].wd = now)
          /\ UNCHANGED <<run, line, input, types, now, lastLine>>
      BY <1>3, EvidenceChangedSlip
    <2>2. ASSUME ~blurred', Evidence!Older(g) PROVE Evidence!Older(g)'
      <3>1. slip[i].wd \in Nat /\ slip[i].wd <= now /\ slip[i].wd # now /\ now \in Nat
        BY <2>1, <2>2 DEF Evidence!Payslip
      <3>2. ASSUME NEW s \in g.slips
            PROVE  s.wd <= slip'[s.id].wd /\ (s.wd = slip'[s.id].wd => s = (Evidence!Row(s.id))')
        <4>1. s.id \in Slips /\ s.wd \in Nat /\ s.wd <= slip[s.id].wd
              /\ (s.wd = slip[s.id].wd => s = Evidence!Row(s.id))
          BY <1>2, <2>2 DEF Evidence!Older
        <4>2. CASE s.id = i
          BY <2>1, <3>1, <4>1, <4>2
        <4>3. CASE s.id # i
          <5>1. slip'[s.id] = slip[s.id]
            BY <2>1, <4>1, <4>3
          <5>2. (Evidence!Row(s.id))' = Evidence!Row(s.id)
            BY <5>1 DEF Evidence!Row
          <5> QED BY <4>1, <5>1, <5>2
        <4> QED BY <4>2, <4>3
      <3>3. \A l \in g.lines : /\ l.id <= lastLine'
                               /\ \A k \in line' : k.id = l.id => l.wd <= k.wd /\ (l.wd = k.wd => Evidence!Alike(l, k))
        BY <2>1, <2>2 DEF Evidence!Older
      <3> QED BY <3>2, <3>3 DEF Evidence!Older, Evidence!Alike
    <2> QED BY <2>1, <2>2
  <1>4. ASSUME NEW i \in Slips, NEW R \in (SUBSET Evidence!Rules) \ {{}}, Evidence!Recalculate(i, R)
        PROVE  /\ blurred => blurred'
               /\ ~blurred' /\ Evidence!Older(g) => Evidence!Older(g)'
    <2>1. /\ lastLine' \in Nat /\ lastLine' > lastLine
          /\ \A l \in line' : l \in line \/ l.id > lastLine
          /\ line' \subseteq Evidence!Line
      BY <1>4, EvidenceRecalculated
    <2>2. UNCHANGED <<slip, blurred>>
      BY <1>4 DEF Evidence!Recalculate
    <2>3. ASSUME Evidence!Older(g) PROVE Evidence!Older(g)'
      <3>1. \A s \in g.slips : s.wd <= slip'[s.id].wd /\ (s.wd = slip'[s.id].wd => s = (Evidence!Row(s.id))')
        BY <2>2, <2>3 DEF Evidence!Older, Evidence!Row
      <3>2. ASSUME NEW l \in g.lines
            PROVE  /\ l.id <= lastLine'
                   /\ \A k \in line' : k.id = l.id => l.wd <= k.wd /\ (l.wd = k.wd => Evidence!Alike(l, k))
        <4>1. l.id \in Nat /\ l.id <= lastLine /\ lastLine \in Nat
              /\ \A k \in line : k.id = l.id => l.wd <= k.wd /\ (l.wd = k.wd => Evidence!Alike(l, k))
          BY <1>2, <2>3 DEF Evidence!Older
        <4>2. \A k \in line' : k.id = l.id => k \in line
          <5> SUFFICES ASSUME NEW k \in line', k.id = l.id PROVE k \in line
            OBVIOUS
          <5>1. k.id \in Nat
            BY <2>1 DEF Evidence!Line
          <5> QED BY <2>1, <4>1, <5>1
        <4> QED BY <2>1, <4>1, <4>2
      <3> QED BY <3>1, <3>2 DEF Evidence!Older, Evidence!Alike
    <2> QED BY <2>2, <2>3
  <1>5. ASSUME NEW l0 \in line, NEW r \in Evidence!Rules, Evidence!EditLine(l0, r)
        PROVE  /\ blurred => blurred'
               /\ ~blurred' /\ Evidence!Older(g) => Evidence!Older(g)'
    <2> DEFINE d == [l0 EXCEPT !.of = r, !.wd = now]
    <2>1. /\ line' = (line \ {l0}) \cup {d}
          /\ d \in Evidence!Line /\ d.id = l0.id /\ d.slip = l0.slip /\ d.wd = now
          /\ blurred' = (blurred \/ l0.wd = now)
          /\ UNCHANGED <<run, slip, input, types, now, lastLine>>
      BY <1>5, EvidenceEdited
    <2> HIDE DEF d
    <2>2. ASSUME ~blurred', Evidence!Older(g) PROVE Evidence!Older(g)'
      <3>1. l0.wd \in Nat /\ l0.wd <= now /\ l0.wd # now /\ now \in Nat
        BY <2>1, <2>2 DEF Evidence!Line
      <3>2. \A s \in g.slips : s.wd <= slip'[s.id].wd /\ (s.wd = slip'[s.id].wd => s = (Evidence!Row(s.id))')
        BY <2>1, <2>2 DEF Evidence!Older, Evidence!Row
      <3>3. ASSUME NEW l \in g.lines
            PROVE  /\ l.id <= lastLine'
                   /\ \A k \in line' : k.id = l.id => l.wd <= k.wd /\ (l.wd = k.wd => Evidence!Alike(l, k))
        <4>1. l.wd \in Nat /\ l.id <= lastLine
              /\ \A k \in line : k.id = l.id => l.wd <= k.wd /\ (l.wd = k.wd => Evidence!Alike(l, k))
          BY <1>2, <2>2 DEF Evidence!Older
        <4>2. d.id = l.id => l.wd < d.wd
          <5>1. d.id = l.id => l.wd <= l0.wd
            BY <2>1, <4>1
          <5> QED BY <2>1, <3>1, <4>1, <5>1
        <4>3. d.wd \in Nat
          BY <2>1
        <4> QED BY <2>1, <4>1, <4>2, <4>3
      <3> QED BY <3>2, <3>3 DEF Evidence!Older, Evidence!Alike
    <2> QED BY <2>1, <2>2
  <1>6. CASE Evidence!Write /\ EvidenceUsers
    <2>1. CASE \/ \E P \in SUBSET Periods : Evidence!ChangeRun(P)
               \/ \E i \in input : Evidence!DeleteInput(i)
               \/ \E t \in DOMAIN types : Evidence!ArchiveType(t)
      <3>1. UNCHANGED <<slip, line, lastLine>> /\ (blurred => blurred')
        <4>1. UNCHANGED <<slip, line, lastLine>>
          BY <2>1 DEF Evidence!ChangeRun, Evidence!DeleteInput, Evidence!ArchiveType
        <4>2. blurred' = blurred \/ (blurred' = (blurred \/ run.wd = now))
          <5>1. \A P : Evidence!ChangeRun(P) => blurred' = (blurred \/ run.wd = now)
            BY Zenon DEF Evidence!ChangeRun
          <5>2. \A i : Evidence!DeleteInput(i) => blurred' = blurred
            BY DEF Evidence!DeleteInput
          <5>3. \A t : Evidence!ArchiveType(t) => blurred' = blurred
            BY DEF Evidence!ArchiveType
          <5> QED BY <2>1, <5>1, <5>2, <5>3, Zenon
        <4>3. blurred => blurred'
          BY <4>2, Zenon
        <4> QED BY <4>1, <4>3
      <3> QED BY <3>1 DEF Evidence!Older, Evidence!Row, Evidence!Alike
    <2> QED BY <1>3, <1>4, <1>5, <1>6, <2>1 DEF EvidenceUsers
  <1>7. CASE EvidenceAsk
    BY <1>1, <1>7, EvidenceAsks
  <1>8. CASE Evidence!Tick
    BY <1>1, <1>8 DEF Evidence!Tick
  <1> QED
    BY <1>1, <1>6, <1>7, <1>8, EvidenceActions, EvidenceReads

\* Rows read now are as old as they are.
LEMMA EvidenceReadNow ==
    ASSUME Evidence!SourceInv, NEW g, NEW h, Evidence!WellRead(g),
           \/ h.slips \subseteq g.slips
           \/ h.slips \subseteq Evidence!Payslips,
           \A l \in h.lines : l \in g.lines \/ l \in Evidence!Lines(Slips),
           IsFiniteSet(h.slips), IsFiniteSet(h.lines), IsFiniteSet(h.inputs)
    PROVE  /\ Evidence!WellRead(h)
           /\ Evidence!Older(g) => Evidence!Older(h)
           /\ \A b : Evidence!Older(b) /\ Evidence!Agree(b, g) /\ Evidence!WellRead(b)
                       => Evidence!Agree(b, h)
  <1> USE EvidenceSource
  <1>1. /\ IsFiniteSet(g.slips) /\ g.slips \subseteq Evidence!SlipRow
        /\ Evidence!Identified(g.slips)
        /\ IsFiniteSet(g.lines) /\ g.lines \subseteq Evidence!LineRow
    BY WellReadIs
  <1>2. /\ Evidence!Payslips \subseteq Evidence!SlipRow
        /\ Evidence!Identified(Evidence!Payslips)
        /\ \A s \in Evidence!Payslips : s.id \in Slips /\ s = Evidence!Row(s.id)
    BY PayslipsAre
  <1>3. /\ Evidence!Lines(Slips) \subseteq Evidence!LineRow
        /\ \A x \in Evidence!Lines(Slips) : \E l \in line : x = Child(l)
    BY LinesAre
  <1>4. Evidence!WellRead(h)
    <2>1. h.slips \subseteq Evidence!SlipRow /\ Evidence!Identified(h.slips)
      BY <1>1, <1>2 DEF Evidence!Identified
    <2>2. h.lines \subseteq Evidence!LineRow
      BY <1>1, <1>3
    <2> QED BY <2>1, <2>2, WellReadIs
  <1>5. ASSUME NEW s \in Evidence!Payslips PROVE s.wd = slip[s.id].wd /\ s.wd \in Nat
    <2>1. s.id \in Slips /\ s = Evidence!Row(s.id)
      BY <1>2
    <2>2. slip[s.id].wd \in Nat
      BY <2>1 DEF Evidence!Payslip
    <2> QED BY <2>1, <2>2, SlipRowIs
  <1>6. ASSUME NEW x \in Evidence!Lines(Slips)
        PROVE  /\ x.id <= lastLine /\ x.wd \in Nat
               /\ \A k \in line : k.id = x.id => x.wd = k.wd /\ Evidence!Alike(x, k)
               /\ \E k \in line : k.id = x.id /\ x.wd = k.wd /\ Evidence!Alike(k, x)
    <2>1. PICK l \in line : x = Child(l)
      BY <1>3
    <2>2. /\ x.id = l.id /\ x.wd = l.wd /\ x.slip = l.slip /\ x.of = l.of
          /\ x.edition = l.edition /\ x.value = l.value
      BY <2>1, ChildIs
    <2>3. \A k \in line : k.id = l.id => k = l
      BY DEF Evidence!Identified
    <2>4. l.wd \in Nat /\ l.id <= lastLine
      BY DEF Evidence!Line
    <2> QED BY <2>2, <2>3, <2>4 DEF Evidence!Alike
  <1>7. ASSUME Evidence!Older(g) PROVE Evidence!Older(h)
    <2>1. \A s \in h.slips : s.wd <= slip[s.id].wd /\ (s.wd = slip[s.id].wd => s = Evidence!Row(s.id))
      <3>1. CASE h.slips \subseteq g.slips
        BY <1>7, <3>1 DEF Evidence!Older
      <3>2. CASE h.slips \subseteq Evidence!Payslips
        BY <1>2, <1>5, <3>2
      <3> QED BY <3>1, <3>2
    <2>2. ASSUME NEW l \in h.lines
          PROVE  /\ l.id <= lastLine
                 /\ \A k \in line : k.id = l.id => l.wd <= k.wd /\ (l.wd = k.wd => Evidence!Alike(l, k))
      <3>1. CASE l \in g.lines
        BY <1>7, <3>1 DEF Evidence!Older
      <3>2. CASE l \in Evidence!Lines(Slips)
        BY <1>6, <3>2
      <3> QED BY <3>1, <3>2
    <2> QED BY <2>1, <2>2 DEF Evidence!Older
  <1>8. ASSUME NEW b, Evidence!Older(b), Evidence!Agree(b, g), Evidence!WellRead(b)
        PROVE  Evidence!Agree(b, h)
    <2>1. ASSUME NEW s \in b.slips, NEW t \in h.slips, s.id = t.id, s.wd = t.wd PROVE s = t
      <3>1. CASE h.slips \subseteq g.slips
        BY <1>8, <2>1, <3>1 DEF Evidence!Agree
      <3>2. CASE h.slips \subseteq Evidence!Payslips
        <4>1. t = Evidence!Row(t.id) /\ t.wd = slip[t.id].wd
          BY <1>2, <1>5, <3>2
        <4> QED BY <1>8, <2>1, <4>1 DEF Evidence!Older
      <3> QED BY <3>1, <3>2
    <2>2. ASSUME NEW k \in b.lines, NEW l \in h.lines, k.id = l.id, k.wd = l.wd
          PROVE  Evidence!Alike(k, l)
      <3>1. CASE l \in g.lines
        BY <1>8, <2>2, <3>1 DEF Evidence!Agree
      <3>2. CASE l \in Evidence!Lines(Slips)
        <4>1. PICK m \in line : m.id = l.id /\ l.wd = m.wd /\ Evidence!Alike(m, l)
          BY <1>6, <3>2
        <4>2. Evidence!Alike(k, m)
          BY <1>8, <2>2, <4>1 DEF Evidence!Older
        <4> QED BY <4>1, <4>2 DEF Evidence!Alike
      <3> QED BY <3>1, <3>2
    <2> QED BY <2>1, <2>2 DEF Evidence!Agree
  <1> QED
    BY <1>4, <1>7, <1>8

\* The anchors tell whether a row has been written.
LEMMA EvidenceAnchors ==
    ASSUME NEW q, NEW g, NEW h, Evidence!WellRead(g), Evidence!WellRead(h),
           Evidence!Anchors(g) = Evidence!Anchors(h), Evidence!Agree(g, h),
           Evidence!Parented(g.lines, Evidence!Included(q, g.slips)),
           Evidence!Parented(h.lines, Evidence!Included(q, h.slips))
    PROVE  g.slips = h.slips /\ g.lines = h.lines
  <1>1. ASSUME NEW x, NEW y, Evidence!Anchors(x) = Evidence!Anchors(y), NEW s \in x.slips
        PROVE  \E t \in y.slips : t.id = s.id /\ t.wd = s.wd
    <2>1. <<"slip", s.id, s.wd>> \in Evidence!Anchors(y)
      BY <1>1 DEF Evidence!Anchors
    <2> QED BY <2>1 DEF Evidence!Anchors
  <1>2. ASSUME NEW x, NEW y, Evidence!Anchors(x) = Evidence!Anchors(y), NEW l \in x.lines
        PROVE  \E k \in y.lines : k.id = l.id /\ k.wd = l.wd
    <2>1. <<"line", l.id, l.wd>> \in Evidence!Anchors(y)
      BY <1>2 DEF Evidence!Anchors
    <2> QED BY <2>1 DEF Evidence!Anchors
  <1>3. g.slips = h.slips
    <2>1. \A s \in g.slips, t \in h.slips : s.id = t.id /\ s.wd = t.wd => s = t
      BY DEF Evidence!Agree
    <2>2. \A s \in g.slips : s \in h.slips
      BY <1>1, <2>1
    <2>3. \A t \in h.slips : t \in g.slips
      BY <1>1, <2>1
    <2> QED BY <2>2, <2>3
  <1>4. ASSUME NEW k \in g.lines, NEW l \in h.lines, k.id = l.id, k.wd = l.wd PROVE k = l
    <2>1. k.slip = l.slip /\ k.of = l.of /\ k.edition = l.edition /\ k.value = l.value
      BY <1>4 DEF Evidence!Agree, Evidence!Alike
    <2>2. \E s \in g.slips : s.id = k.slip /\ s.currency = k.currency
      BY IncludedIs DEF Evidence!Parented
    <2>3. \E s \in h.slips : s.id = l.slip /\ s.currency = l.currency
      BY IncludedIs DEF Evidence!Parented
    <2>4. \A s, t \in g.slips : s.id = t.id => s = t
      BY WellReadIs DEF Evidence!Identified
    <2>5. k.currency = l.currency
      BY <1>3, <2>1, <2>2, <2>3, <2>4
    <2>6. k \in Evidence!LineRow /\ l \in Evidence!LineRow
      BY WellReadIs
    <2> QED BY <1>4, <2>1, <2>5, <2>6 DEF Evidence!LineRow
  <1>5. g.lines = h.lines
    <2>1. \A k \in g.lines : k \in h.lines
      BY <1>2, <1>4
    <2>2. \A l \in h.lines : l \in g.lines
      BY <1>2, <1>4
    <2> QED BY <2>1, <2>2
  <1> QED
    BY <1>3, <1>5
----------------------------------------------------------------------------
\* The pages of a list.

LEMMA ItemsAreRows ==
    ASSUME NEW q, NEW g, Evidence!WellRead(g),
           q.tool \in {"periods", "batch", "payslips", "rules"}
    PROVE  \E T : Evidence!AllItems(q, g) \in Seq(T) /\ Len(Evidence!AllItems(q, g)) \in Nat
  <1>1. /\ IsFiniteSet(g.slips) /\ g.slips \subseteq Evidence!SlipRow
        /\ Evidence!Identified(g.slips)
        /\ IsFiniteSet(g.lines) /\ g.lines \subseteq Evidence!LineRow
    BY WellReadIs
  <1>2. CASE q.tool = "periods"
    <2>1. Evidence!AllItems(q, g) = Evidence!PeriodItems(g.slips)
      BY <1>2 DEF Evidence!AllItems
    <2>2. \E T : Enumerates(Evidence!PeriodItems(g.slips), T)
      BY <1>1, PeriodItemsEnumerate
    <2> QED BY <2>1, <2>2 DEF Enumerates
  <1>3. CASE q.tool \in {"batch", "payslips"}
    <2>1. Evidence!AllItems(q, g) = Evidence!SlipItems(q, g.slips)
      BY <1>3 DEF Evidence!AllItems
    <2>2. \E T : Enumerates(Evidence!SlipItems(q, g.slips), T)
      BY <1>1, SlipItemsEnumerate
    <2> QED BY <2>1, <2>2 DEF Enumerates
  <1>4. CASE q.tool = "rules"
    <2>1. Evidence!AllItems(q, g) = Evidence!RuleItems(g.lines)
      BY <1>4 DEF Evidence!AllItems
    <2>2. \E T : Enumerates(Evidence!RuleItems(g.lines), T)
      BY <1>1, RuleItemsEnumerate
    <2> QED BY <2>1, <2>2 DEF Enumerates
  <1> QED
    BY <1>2, <1>3, <1>4

LEMMA InputItemsLength ==
    ASSUME NEW S, IsFiniteSet(S), NEW kinds
    PROVE  Len(Evidence!InputItems(S, kinds)) \in Nat
  <1> DEFINE T == {InputItem(i, kinds) : i \in S}
  <1>1. IsFiniteSet(T)
    <2> DEFINE f == [i \in S |-> InputItem(i, kinds)]
    <2>1. f \in Surjection(S, T)
      BY DEF Surjection
    <2> HIDE DEF f, T
    <2> QED BY <2>1, FS_Surjection
  <1>2. Evidence!InputItems(S, kinds)
          = [k \in 1..Evidence!Cardinality(T) |->
               CHOOSE x \in T : Evidence!Cardinality({y \in T : y.id < x.id}) = k - 1]
    BY Zenon DEF Evidence!InputItems, Evidence!InOrder, InputItem
  <1> HIDE DEF T
  <1>3. DOMAIN Evidence!InputItems(S, kinds) = 1..Cardinality(T) /\ Cardinality(T) \in Nat
    BY <1>1, <1>2, EvidenceFiniteSets, FS_CardinalityType
  <1> QED
    BY <1>3

LEMMA SameItems ==
    ASSUME NEW q, NEW g, NEW h, q.tool \in {"periods", "batch", "payslips", "rules"},
           g.slips = h.slips, g.lines = h.lines
    PROVE  Evidence!AllItems(q, g) = Evidence!AllItems(q, h)
  BY DEF Evidence!AllItems

\* What a cursor stands for.
EvidencePage(b, p) ==
    /\ b.request.tool # "payslip"
    /\ p.print = {<<b.request, Evidence!Anchors(b.got)>>}
    /\ p.offset \in 0..Len(Evidence!AllItems(b.request, b.got))
    /\ Evidence!WellRead(b.got)
    /\ Evidence!Parented(b.got.lines, Evidence!Included(b.request, b.got.slips))

EvidenceJoined(b, p, j) == j = SubSeq(Evidence!AllItems(b.request, b.got), 1, p.offset)

EvidencePages ==
    /\ Evidence!WellRead(got) /\ (~blurred => Evidence!Older(got))
    /\ Evidence!Place = Evidence!FirstPage /\ pc \notin {"answered", "refused"} => joined = <<>>
    /\ pc = "answered" /\ ~blurred /\ request.tool # "payslip"
          => joined = SubSeq(listed, 1, Len(joined))
    /\ Evidence!Place # Evidence!FirstPage =>
          \E b \in basis :
             /\ EvidencePage(b, Evidence!Place)
             /\ ~blurred => /\ EvidenceJoined(b, Evidence!Place, joined)
                            /\ Evidence!Older(b.got) /\ Evidence!Agree(b.got, got)

LEMMA EvidencePagesIs == Evidence!PagesInv <=> EvidencePages
  BY Zenon DEF Evidence!PagesInv, EvidencePages, EvidencePage, EvidenceJoined

NothingHeld(g) == g.slips = {} /\ g.lines = {} /\ g.inputs = {}

LEMMA NothingHeldIs ==
    ASSUME NEW g, NothingHeld(g)
    PROVE  /\ Evidence!WellRead(g) /\ Evidence!Older(g) /\ \A b : Evidence!Agree(b, g)
  BY WellReadIs, FS_EmptySet
     DEF NothingHeld, Evidence!Older, Evidence!Agree, Evidence!Identified

LEMMA NothingIsHeld == NothingHeld(Evidence!Nothing)
  BY DEF NothingHeld, Evidence!Nothing

EvidenceItems == Evidence!AllItems(request, got)
EvidenceCut ==
    IF request.tool = "payslip" THEN EvidenceItems
    ELSE SubSeq(EvidenceItems, place.offset + 1,
                Evidence!Min({place.offset + PageRows, Len(EvidenceItems)}))
EvidenceOnward ==
    IF place.offset + Len(EvidenceCut) < Len(EvidenceItems)
    THEN [print |-> Evidence!Fingerprint(got), offset |-> place.offset + Len(EvidenceCut)]
    ELSE Evidence!FirstPage

LEMMA EvidenceAnswers ==
    ASSUME Evidence!Answer
    PROVE  /\ pc = "answer" /\ got' = Evidence!Nothing
           /\ \/ pc' = "refused"
              \/ /\ Evidence!Parented(got.lines, Evidence!Included(request, got.slips))
                 /\ Evidence!OneEdition(got.lines)
                 /\ place # Evidence!FirstPage => place.print = Evidence!Fingerprint(got)
                 /\ ~(place.offset > Len(EvidenceItems))
                 /\ pc' = "answered" /\ answer'.next = EvidenceOnward
                 /\ listed' = EvidenceItems /\ joined' = joined \o EvidenceCut
                 /\ basis' = {[request |-> request, got |-> got]}
  <1>1. pc = "answer" /\ got' = Evidence!Nothing
    BY DEF Evidence!Answer
  <1>2. \/ pc' = "refused"
        \/ /\ ~(~Evidence!Parented(got.lines, Evidence!Included(request, got.slips)))
           /\ ~(~Evidence!OneEdition(got.lines))
           /\ ~(place # Evidence!FirstPage /\ place.print # Evidence!Fingerprint(got))
           /\ ~(place.offset > Len(EvidenceItems))
           /\ pc' = "answered"
           /\ answer' = [items |-> EvidenceCut,
                         totals |-> IF request.tool = "batch" THEN Evidence!ObservedTotals(got.lines)
                                    ELSE {},
                         next |-> EvidenceOnward]
           /\ listed' = EvidenceItems /\ joined' = joined \o EvidenceCut
           /\ basis' = {[request |-> request, got |-> got]}
    BY Zenon DEF Evidence!Answer, EvidenceItems, EvidenceCut, EvidenceOnward
  <1> QED
    BY <1>1, <1>2

LEMMA EvidenceAnswerPages ==
    ASSUME Evidence!SourceInv, EvidencePages, Evidence!Answer
    PROVE  EvidencePages'
  <1>1. /\ pc = "answer" /\ got' = Evidence!Nothing
        /\ \/ pc' = "refused"
           \/ /\ Evidence!Parented(got.lines, Evidence!Included(request, got.slips))
              /\ place # Evidence!FirstPage => place.print = Evidence!Fingerprint(got)
              /\ ~(place.offset > Len(EvidenceItems))
              /\ pc' = "answered" /\ answer'.next = EvidenceOnward
              /\ listed' = EvidenceItems /\ joined' = joined \o EvidenceCut
              /\ basis' = {[request |-> request, got |-> got]}
    BY EvidenceAnswers
  <1>2. UNCHANGED <<slip, line, lastLine, request, place, blurred>>
    BY EvidenceReads
  <1>3. /\ Evidence!WellRead(got') /\ Evidence!Older(got') /\ \A b : Evidence!Agree(b, got')
        /\ (Evidence!WellRead(got))'
    <2>1. NothingHeld(got')
      BY <1>1, NothingIsHeld
    <2>2. /\ Evidence!WellRead(got') /\ Evidence!Older(got') /\ \A b : Evidence!Agree(b, got')
      BY <2>1, NothingHeldIs
    <2>3. (Evidence!WellRead(got))' <=> Evidence!WellRead(got')
      BY EvidenceFiniteSets DEF Evidence!WellRead, Evidence!Identified, Evidence!SlipRow, Evidence!LineRow
    <2> QED BY <2>2, <2>3
  <1>4. \A g : Evidence!Older(g) => Evidence!Older(g)'
    BY <1>2 DEF Evidence!Older, Evidence!Row, Evidence!Alike
  <1>5. Evidence!Older(got)'
    <2>1. PICK g : g = got'
      OBVIOUS
    <2>2. Evidence!Older(g)'
      BY <1>3, <1>4, <2>1
    <2> QED BY <2>1, <2>2
  <1>6. CASE pc' = "refused"
    <2>1. Evidence!Place' = Evidence!FirstPage
      BY <1>6 DEF Evidence!Place, Evidence!FirstPage
    <2>2. (Evidence!FirstPage)' = Evidence!FirstPage
      BY DEF Evidence!FirstPage
    <2> QED BY <1>3, <1>5, <1>6, <2>1, <2>2 DEF EvidencePages
  <1>7. CASE pc' = "answered"
    <2> DEFINE list == EvidenceItems
               cut == EvidenceCut
               next == EvidenceOnward
    <2>1. /\ Evidence!Parented(got.lines, Evidence!Included(request, got.slips))
          /\ place # Evidence!FirstPage => place.print = Evidence!Fingerprint(got)
          /\ ~(place.offset > Len(list))
          /\ answer'.next = next
          /\ listed' = list /\ joined' = joined \o cut
          /\ basis' = {[request |-> request, got |-> got]}
      BY <1>1, <1>7
    <2>2. Evidence!Place = place /\ Evidence!Place' = next
      BY <1>1, <1>7, <2>1 DEF Evidence!Place
    <2>3. Evidence!WellRead(got) /\ (~blurred => Evidence!Older(got))
      BY DEF EvidencePages
    <2>4. place = Evidence!FirstPage => joined = <<>> /\ place.offset = 0
      BY <1>1, <2>2 DEF EvidencePages, Evidence!FirstPage
    <2>5. ASSUME place # Evidence!FirstPage
          PROVE  /\ request.tool # "payslip"
                 /\ place.offset \in Nat
                 /\ ~blurred /\ request.tool \in {"periods", "batch", "payslips", "rules"}
                      => joined = SubSeq(list, 1, place.offset)
      <3>1. PICK b \in basis : /\ EvidencePage(b, place)
                               /\ ~blurred => /\ EvidenceJoined(b, place, joined)
                                              /\ Evidence!Older(b.got) /\ Evidence!Agree(b.got, got)
        BY <2>2, <2>5 DEF EvidencePages
      <3>2. b.request = request /\ Evidence!Anchors(b.got) = Evidence!Anchors(got)
        <4>1. {<<b.request, Evidence!Anchors(b.got)>>} = {<<request, Evidence!Anchors(got)>>}
          BY <2>1, <2>5, <3>1 DEF EvidencePage, Evidence!Fingerprint
        <4>2. <<b.request, Evidence!Anchors(b.got)>> \in {<<request, Evidence!Anchors(got)>>}
          BY <4>1
        <4> QED BY <4>2
      <3>3. place.offset \in Nat
        BY <3>1 DEF EvidencePage
      <3>4. ASSUME ~blurred, request.tool \in {"periods", "batch", "payslips", "rules"}
            PROVE  joined = SubSeq(list, 1, place.offset)
        <4>1. b.got.slips = got.slips /\ b.got.lines = got.lines
          BY <2>1, <2>3, <3>1, <3>2, <3>4, EvidenceAnchors DEF EvidencePage
        <4>2. Evidence!AllItems(b.request, b.got) = list
          BY <3>2, <3>4, <4>1, SameItems DEF EvidenceItems
        <4> QED BY <3>1, <3>4, <4>2 DEF EvidenceJoined
      <3>5. request.tool # "payslip"
        BY <3>1, <3>2 DEF EvidencePage
      <3> QED BY <3>3, <3>4, <3>5
    <2>6. Asked
      BY EvidenceSource, EvidenceAsked
    <2>7. CASE request.tool = "payslip"
      <3>1. place.offset = 0 /\ cut = list
        BY <2>4, <2>5, <2>7 DEF EvidenceCut
      <3>2. Len(list) \in Nat
        <4>1. list = Evidence!InputItems(got.inputs, got.types)
          BY <2>7 DEF EvidenceItems, Evidence!AllItems
        <4>2. IsFiniteSet(got.inputs)
          BY <2>3, WellReadIs
        <4> QED BY <4>1, <4>2, InputItemsLength
      <3>3. next = Evidence!FirstPage
        <4> HIDE DEF list, cut
        <4> QED BY <3>1, <3>2 DEF EvidenceOnward, list, cut
      <3>4. (Evidence!FirstPage)' = Evidence!FirstPage
        BY DEF Evidence!FirstPage
      <3> QED
        BY <1>2, <1>3, <1>5, <1>7, <2>2, <2>7, <3>3, <3>4 DEF EvidencePages
    <2>8. CASE request.tool # "payslip"
      <3> DEFINE m == Evidence!Min({place.offset + PageRows, Len(list)})
      <3>0. request.tool \in {"periods", "batch", "payslips", "rules"}
        BY <2>6, <2>8 DEF Asked
      <3>1. PICK T : list \in Seq(T) /\ Len(list) \in Nat
        BY <2>3, <3>0, ItemsAreRows DEF EvidenceItems
      <3>2. cut = SubSeq(list, place.offset + 1, m)
        BY <2>8 DEF EvidenceCut
      <3>2a. next = IF place.offset + Len(cut) < Len(list)
                    THEN [print |-> Evidence!Fingerprint(got), offset |-> place.offset + Len(cut)]
                    ELSE Evidence!FirstPage
        BY DEF EvidenceOnward
      <3> HIDE DEF list, cut, next
      <3>3. place.offset \in Nat /\ place.offset <= Len(list)
            /\ (~blurred => joined = SubSeq(list, 1, place.offset))
        <4>1. CASE place = Evidence!FirstPage
          <5>1. SubSeq(list, 1, 0) = <<>>
            BY <3>1
          <5> QED BY <2>4, <3>1, <4>1, <5>1
        <4>2. CASE place # Evidence!FirstPage
          BY <2>1, <2>5, <3>0, <3>1, <4>2
        <4> QED BY <4>1, <4>2
      <3>4. PageRows \in Nat
        BY EvidenceConstants
      <3>5. m \in Nat /\ place.offset <= m /\ m <= Len(list)
        <4>1. place.offset + PageRows \in Nat
          BY <3>3, <3>4
        <4>2. m = IF place.offset + PageRows <= Len(list) THEN place.offset + PageRows
                  ELSE Len(list)
          BY <3>1, <4>1, EvidenceLeast
        <4> HIDE DEF m
        <4> QED BY <3>1, <3>3, <3>4, <4>2
      <3> HIDE DEF m
      <3>6. /\ Len(cut) = m - place.offset
            /\ SubSeq(list, 1, place.offset) \o cut = SubSeq(list, 1, m)
        <4>1. \A k \in Nat : k <= Len(list) /\ k <= m =>
                /\ Len(SubSeq(list, k + 1, m)) = m - k
                /\ SubSeq(list, 1, k) \o SubSeq(list, k + 1, m) = SubSeq(list, 1, m)
          BY <3>1, <3>5, PageJoins
        <4> QED BY <3>2, <3>3, <3>5, <4>1
      <3>7. place.offset + Len(cut) = m
        BY <3>3, <3>5, <3>6
      <3>8. ~blurred => joined' = SubSeq(list, 1, m)
        BY <2>1, <3>3, <3>6
      <3>9. Len(SubSeq(list, 1, m)) = m
        BY <3>1, <3>5
      <3>10. ~blurred' => joined' = SubSeq(listed', 1, Len(joined'))
        BY <1>2, <2>1, <3>8, <3>9
      <3>11. ASSUME next # Evidence!FirstPage
             PROVE  \E b \in basis' :
                       /\ EvidencePage(b, next)
                       /\ ~blurred' => /\ EvidenceJoined(b, next, joined')
                                       /\ Evidence!Older(b.got)' /\ Evidence!Agree(b.got, got')
        <4>0. PICK b : b = [request |-> request, got |-> got]
          OBVIOUS
        <4>1. b \in basis' /\ b.got = got /\ b.request = request
          BY <2>1, <4>0
        <4>2. next.print = {<<request, Evidence!Anchors(got)>>} /\ next.offset = m
          BY <3>2a, <3>7, <3>11 DEF Evidence!Fingerprint
        <4>3. Evidence!AllItems(b.request, b.got) = list
          BY <4>1 DEF list, EvidenceItems
        <4>4. m \in 0..Len(list)
          BY <3>1, <3>5
        <4>5. EvidencePage(b, next)
          BY <2>1, <2>3, <2>8, <4>1, <4>2, <4>3, <4>4 DEF EvidencePage
        <4>6. ~blurred' => EvidenceJoined(b, next, joined')
          BY <1>2, <3>8, <4>2, <4>3 DEF EvidenceJoined
        <4>7. ~blurred' => Evidence!Older(b.got)'
          <5>1. ~blurred => Evidence!Older(b.got)
            BY <2>3, <4>1
          <5>2. Evidence!Older(b.got) => Evidence!Older(b.got)'
            BY <1>4
          <5> QED BY <1>2, <5>1, <5>2
        <4> QED BY <1>3, <4>1, <4>5, <4>6, <4>7
      <3>12. (Evidence!FirstPage)' = Evidence!FirstPage
        BY DEF Evidence!FirstPage
      <3>13. Evidence!Place' # Evidence!FirstPage =>
                \E b \in basis' :
                   /\ EvidencePage(b, Evidence!Place')
                   /\ ~blurred' => /\ EvidenceJoined(b, Evidence!Place', joined')
                                   /\ Evidence!Older(b.got)' /\ Evidence!Agree(b.got, got')
        BY <2>2, <3>11
      <3> QED
        BY <1>2, <1>3, <1>5, <1>7, <3>10, <3>12, <3>13 DEF EvidencePages
    <2> QED BY <2>7, <2>8
  <1> QED
    BY <1>1, <1>6, <1>7

LEMMA EvidencePagesBegin ==
    ASSUME Evidence!Init
    PROVE  EvidencePages
  <1>1. /\ got = Evidence!Nothing /\ joined = <<>> /\ place = Evidence!FirstPage
        /\ request \in EvidenceRequests /\ pc = Evidence!FirstRead(request)
    BY DEF Evidence!Init
  <1>2. pc \notin {"answered", "refused"}
    BY <1>1, EvidenceAsked, FirstStage
  <1>3. Evidence!WellRead(got) /\ Evidence!Older(got)
    BY <1>1, NothingIsHeld, NothingHeldIs
  <1> QED
    BY <1>1, <1>2, <1>3 DEF EvidencePages, Evidence!Place

\* A reading step takes rows it has, or reads them now.
EvidenceNewer ==
    /\ got'.slips \subseteq got.slips \/ got'.slips \subseteq Evidence!Payslips
    /\ \A l \in got'.lines : l \in got.lines \/ l \in Evidence!Lines(Slips)
    /\ IsFiniteSet(got'.slips) /\ IsFiniteSet(got'.lines) /\ IsFiniteSet(got'.inputs)

LEMMA EvidenceReadsRows ==
    ASSUME Evidence!SourceInv, Evidence!StageInv, Evidence!WellRead(got),
           \/ Evidence!ReadWindow \/ Evidence!ReadRun \/ Evidence!ReadMembers
           \/ Evidence!ReadPeriod \/ Evidence!ReadSlip \/ Evidence!ReadLines
           \/ Evidence!ReadWorkedDays \/ Evidence!ReadInputs \/ Evidence!ReadTypes
           \/ Evidence!ReadRefused
    PROVE  /\ EvidenceNewer
           /\ pc \notin {"answered", "refused"} /\ pc' # "answered"
           /\ UNCHANGED <<joined, basis, listed, answer>>
  <1>1. EvidenceStages
    BY StagesAre
  <1>2. /\ IsFiniteSet(got.slips) /\ IsFiniteSet(got.lines) /\ IsFiniteSet(got.inputs)
    BY WellReadIs
  <1>3. got = [run |-> got.run, slips |-> got.slips, lines |-> got.lines,
               worked |-> got.worked, inputs |-> got.inputs, types |-> got.types]
    BY <1>1 DEF EvidenceStages
  <1>4. IsFiniteSet(Evidence!Payslips) /\ \A S : S \subseteq Evidence!Payslips => IsFiniteSet(S)
    BY PayslipsAre, FS_Subset
  <1>5. UNCHANGED <<joined, basis, listed, answer>>
    BY DEF Evidence!ReadWindow, Evidence!ReadRun, Evidence!ReadMembers, Evidence!ReadPeriod,
       Evidence!ReadSlip, Evidence!ReadLines, Evidence!ReadWorkedDays, Evidence!ReadInputs,
       Evidence!ReadTypes, Evidence!ReadRefused, Evidence!Quietly
  <1>6. pc \notin {"answered", "refused"}
    <2>1. Evidence!ReadRefused => pc \notin {"answered", "refused"}
      BY DEF Evidence!ReadRefused
    <2> QED BY <2>1, EvidenceReading
  <1>7. \A S : Evidence!AfterSlips(S) => pc' \in {"answer", "lines"}
    BY AfterSlipsIs DEF Afterwards
  <1>8. pc' # "answered"
    BY <1>7, EvidenceReading DEF Refused
  <1>9. CASE Refused
    <2>1. NothingHeld(got')
      BY <1>9, NothingIsHeld DEF Refused
    <2> QED BY <1>5, <1>6, <1>8, <2>1, FS_EmptySet DEF EvidenceNewer, NothingHeld
  <1>10. ASSUME NEW S, got' = [got EXCEPT !.slips = S],
                S \subseteq got.slips \/ S \subseteq Evidence!Payslips
         PROVE  EvidenceNewer
    <2>1. got'.slips = S /\ got'.lines = got.lines /\ got'.inputs = got.inputs
      BY <1>3, <1>10
    <2>2. IsFiniteSet(S)
      BY <1>2, <1>4, <1>10, FS_Subset
    <2> QED BY <1>2, <1>10, <2>1, <2>2 DEF EvidenceNewer
  <1>11. CASE Evidence!ReadWindow
    <2>1. {r \in Evidence!Payslips : r.state \in request.states} \subseteq Evidence!Payslips
      OBVIOUS
    <2> QED BY <1>5, <1>6, <1>8, <1>10, <1>11, <2>1, EvidenceReading
  <1>12. CASE Evidence!ReadRun
    <2>1. CASE got' = [got EXCEPT !.run = {run}]
      <3>1. got'.slips = got.slips /\ got'.lines = got.lines /\ got'.inputs = got.inputs
        BY <1>3, <2>1
      <3> QED BY <1>2, <1>5, <1>6, <1>8, <3>1 DEF EvidenceNewer
    <2> QED BY <1>9, <1>12, <2>1, EvidenceReading
  <1>13. CASE Evidence!ReadMembers
    <2>1. Members \subseteq Evidence!Payslips
      BY DEF Members
    <2> QED BY <1>5, <1>6, <1>8, <1>9, <1>10, <1>13, <2>1, EvidenceReading
  <1>14. CASE Evidence!ReadPeriod
    <2>1. Kept \subseteq got.slips \/ Kept \subseteq Evidence!Payslips
      BY DEF Kept, OfThePeriod
    <2> QED BY <1>5, <1>6, <1>8, <1>9, <1>10, <1>14, <2>1, EvidenceReading
  <1>15. CASE Evidence!ReadSlip
    <2>1. OfTheId \subseteq Evidence!Payslips
      BY DEF OfTheId
    <2> QED BY <1>5, <1>6, <1>8, <1>10, <1>15, <2>1, EvidenceReading
  <1>16. CASE Evidence!ReadLines
    <2>1. CASE got' = [got EXCEPT !.lines = got.lines \cup Evidence!Lines(NextIds)]
      <3>1. got'.slips = got.slips /\ got'.inputs = got.inputs
            /\ got'.lines = got.lines \cup Evidence!Lines(NextIds)
        BY <1>3, <2>1
      <3>2. Evidence!Lines(NextIds) \subseteq Evidence!Lines(Slips)
            /\ IsFiniteSet(Evidence!Lines(NextIds))
        <4>1. line \subseteq Evidence!Line /\ IsFiniteSet(line)
          BY EvidenceSource
        <4>2. \A l \in line : l.slip \in Slips
          BY <4>1 DEF Evidence!Line
        <4>3. Evidence!Lines(NextIds) = {Child(l) : l \in {k \in line : k.slip \in NextIds}}
              /\ Evidence!Lines(Slips) = {Child(l) : l \in {k \in line : k.slip \in Slips}}
          BY ChildrenAre DEF Evidence!Lines
        <4>4. IsFiniteSet(Evidence!Lines(NextIds))
          BY <4>1, ChildrenFinite DEF Evidence!Lines
        <4> QED BY <4>2, <4>3, <4>4
      <3>3. IsFiniteSet(got'.lines)
        BY <1>2, <3>1, <3>2, FS_Union
      <3> QED BY <1>2, <1>5, <1>6, <1>8, <3>1, <3>2, <3>3 DEF EvidenceNewer
    <2> QED BY <1>9, <1>16, <2>1, EvidenceReading
  <1>17. CASE Evidence!ReadWorkedDays
    <2>1. got'.slips = got.slips /\ got'.lines = got.lines /\ got'.inputs = got.inputs
      BY <1>3, <1>17, EvidenceReading
    <2> QED BY <1>2, <1>5, <1>6, <1>8, <2>1 DEF EvidenceNewer
  <1>18. CASE Evidence!ReadInputs
    <2>1. got'.slips = got.slips /\ got'.lines = got.lines
          /\ got'.inputs = Evidence!Inputs({request.slip})
      BY <1>3, <1>18, EvidenceReading
    <2>2. IsFiniteSet(Evidence!Inputs({request.slip}))
      <3>1. IsFiniteSet({i \in input : i.of # "worked"})
        BY EvidenceSource, FS_Subset
      <3> QED BY <3>1, ChildrenFinite DEF Evidence!Inputs
    <2> QED BY <1>2, <1>5, <1>6, <1>8, <2>1, <2>2 DEF EvidenceNewer
  <1>19. CASE Evidence!ReadTypes
    <2>1. CASE got' = [got EXCEPT !.types = types]
      <3>1. got'.slips = got.slips /\ got'.lines = got.lines /\ got'.inputs = got.inputs
        BY <1>3, <2>1
      <3> QED BY <1>2, <1>5, <1>6, <1>8, <3>1 DEF EvidenceNewer
    <2> QED BY <1>9, <1>19, <2>1, EvidenceReading
  <1>20. CASE Evidence!ReadRefused
    BY <1>9, <1>20, EvidenceReading
  <1> QED
    BY <1>11, <1>12, <1>13, <1>14, <1>15, <1>16, <1>17, <1>18, <1>19, <1>20

LEMMA EvidencePagesStay ==
    ASSUME Evidence!SourceInv, Evidence!StageInv, EvidencePages, Evidence!Next
    PROVE  EvidencePages'
  <1>1. Evidence!WellRead(got) /\ (~blurred => Evidence!Older(got))
    BY DEF EvidencePages
  <1>2. \A g : Evidence!WellRead(g) => /\ blurred => blurred'
                                       /\ ~blurred' /\ Evidence!Older(g) => Evidence!Older(g)'
    BY EvidenceOlderStays
  <1>3. blurred => blurred'
    BY <1>1, <1>2
  <1>4. (Evidence!FirstPage)' = Evidence!FirstPage
    BY DEF Evidence!FirstPage
  <1>5. ASSUME Evidence!WellRead(got'), ~blurred => Evidence!Older(got')
        PROVE  (Evidence!WellRead(got))' /\ (~blurred' => Evidence!Older(got)')
    <2>1. (Evidence!WellRead(got))' <=> Evidence!WellRead(got')
      BY EvidenceFiniteSets DEF Evidence!WellRead, Evidence!Identified, Evidence!SlipRow, Evidence!LineRow
    <2>2. PICK g : g = got'
      OBVIOUS
    <2>3. ~blurred' => Evidence!Older(g)'
      BY <1>2, <1>3, <1>5, <2>2
    <2> QED BY <1>5, <2>1, <2>2, <2>3
  \* The list in the client's hands stays what it is.
  <1>6. ASSUME Evidence!Place # Evidence!FirstPage
        PROVE  \E b \in basis :
                  /\ EvidencePage(b, Evidence!Place)
                  /\ ~blurred' => /\ EvidenceJoined(b, Evidence!Place, joined)
                                  /\ Evidence!Older(b.got)
                                  /\ Evidence!Older(b.got)' /\ Evidence!Agree(b.got, got)
    <2>1. PICK b \in basis :
             /\ EvidencePage(b, Evidence!Place)
             /\ ~blurred => /\ EvidenceJoined(b, Evidence!Place, joined)
                            /\ Evidence!Older(b.got) /\ Evidence!Agree(b.got, got)
      BY <1>6 DEF EvidencePages
    <2>2. Evidence!WellRead(b.got)
      BY <2>1 DEF EvidencePage
    <2>3. ~blurred' /\ Evidence!Older(b.got) => Evidence!Older(b.got)'
      BY <1>2, <2>2
    <2> QED BY <1>3, <2>1, <2>3
  <1>7. CASE \/ Evidence!ReadWindow \/ Evidence!ReadRun \/ Evidence!ReadMembers
             \/ Evidence!ReadPeriod \/ Evidence!ReadSlip \/ Evidence!ReadLines
             \/ Evidence!ReadWorkedDays \/ Evidence!ReadInputs \/ Evidence!ReadTypes
             \/ Evidence!ReadRefused
    <2>1. /\ EvidenceNewer
          /\ pc \notin {"answered", "refused"} /\ pc' # "answered"
          /\ UNCHANGED <<joined, basis, listed, answer>>
      BY <1>1, <1>7, EvidenceReadsRows
    <2>2. place' = place
      BY <1>7, EvidenceReads
    <2>3. /\ Evidence!WellRead(got')
          /\ Evidence!Older(got) => Evidence!Older(got')
          /\ \A b : Evidence!Older(b) /\ Evidence!Agree(b, got) /\ Evidence!WellRead(b)
                       => Evidence!Agree(b, got')
      BY <1>1, <2>1, EvidenceReadNow DEF EvidenceNewer
    <2>4. (Evidence!WellRead(got))' /\ (~blurred' => Evidence!Older(got)')
      BY <1>1, <1>5, <2>3
    <2>5. Evidence!Place = place /\ Evidence!Place' = IF pc' = "refused" THEN Evidence!FirstPage ELSE place
      BY <2>1, <2>2, <1>4 DEF Evidence!Place
    <2>6. CASE pc' = "refused"
      BY <1>4, <2>4, <2>5, <2>6 DEF EvidencePages
    <2>7. CASE pc' # "refused"
      <3>1. place = Evidence!FirstPage => joined = <<>>
        BY <2>1, <2>5 DEF EvidencePages
      <3>2. ASSUME place # Evidence!FirstPage
            PROVE  \E b \in basis' :
                      /\ EvidencePage(b, place)
                      /\ ~blurred' => /\ EvidenceJoined(b, place, joined)
                                      /\ Evidence!Older(b.got)' /\ Evidence!Agree(b.got, got')
        <4>1. PICK b \in basis :
                  /\ EvidencePage(b, place)
                  /\ ~blurred' => /\ EvidenceJoined(b, place, joined)
                                  /\ Evidence!Older(b.got)
                                  /\ Evidence!Older(b.got)' /\ Evidence!Agree(b.got, got)
          BY <1>6, <2>5, <3>2
        <4>2. Evidence!WellRead(b.got)
          BY <4>1 DEF EvidencePage
        <4>3. b \in basis'
          BY <2>1
        <4> QED BY <2>3, <4>1, <4>2, <4>3
      <3>3. Evidence!Place' = place
        BY <2>5, <2>7
      <3> QED
        BY <1>4, <2>1, <2>4, <3>1, <3>2, <3>3 DEF EvidencePages
    <2> QED BY <2>6, <2>7
  <1>8. CASE Evidence!Answer
    BY <1>8, EvidenceAnswerPages
  <1>9. CASE EvidenceAsk
    <2>1. /\ pc \in {"answered", "refused"} /\ got' = got /\ blurred' = blurred
          /\ place' = Evidence!FirstPage \/ (pc = "answered" /\ place' = answer.next)
          /\ joined' = IF place' = Evidence!FirstPage THEN <<>> ELSE joined
          /\ basis' = IF place' = Evidence!FirstPage THEN {} ELSE basis
          /\ pc' = Evidence!FirstRead(request') /\ request' \in EvidenceRequests
      BY <1>9, EvidenceAsks
    <2>2. pc' \notin {"answered", "refused"}
      BY <2>1 DEF Evidence!FirstRead
    <2>3. Evidence!Place' = place'
      BY <2>2 DEF Evidence!Place
    <2>4. (Evidence!WellRead(got))' /\ (~blurred' => Evidence!Older(got)')
      BY <1>1, <1>5, <2>1
    <2>5. CASE place' = Evidence!FirstPage
      BY <1>4, <2>1, <2>2, <2>3, <2>4, <2>5 DEF EvidencePages
    <2>6. CASE place' # Evidence!FirstPage
      <3>1. Evidence!Place = place'
        BY <2>1, <2>6 DEF Evidence!Place
      <3>2. PICK b \in basis :
                  /\ EvidencePage(b, place')
                  /\ ~blurred' => /\ EvidenceJoined(b, place', joined)
                                  /\ Evidence!Older(b.got)
                                  /\ Evidence!Older(b.got)' /\ Evidence!Agree(b.got, got)
        BY <1>6, <2>6, <3>1
      <3>3. b \in basis' /\ joined' = joined
        BY <2>1, <2>6
      <3>4. \E c \in basis' :
               /\ EvidencePage(c, Evidence!Place')
               /\ ~blurred' => /\ EvidenceJoined(c, Evidence!Place', joined')
                               /\ Evidence!Older(c.got)' /\ Evidence!Agree(c.got, got')
        BY <2>1, <2>3, <3>2, <3>3
      <3> QED
        BY <1>4, <2>2, <2>3, <2>4, <2>6, <3>4 DEF EvidencePages
    <2> QED BY <2>5, <2>6
  <1>10. CASE Evidence!Tick \/ Evidence!Write
    <2>1. UNCHANGED <<request, place, pc, got, answer, listed, joined, basis>>
      BY <1>10 DEF Evidence!Tick, Evidence!Write, Evidence!call
    <2>2. Evidence!Place' = Evidence!Place
      BY <1>4, <2>1 DEF Evidence!Place
    <2>3. (Evidence!WellRead(got))' /\ (~blurred' => Evidence!Older(got)')
      BY <1>1, <1>5, <2>1
    <2>4. Evidence!Place' # Evidence!FirstPage =>
            \E c \in basis' :
               /\ EvidencePage(c, Evidence!Place')
               /\ ~blurred' => /\ EvidenceJoined(c, Evidence!Place', joined')
                               /\ Evidence!Older(c.got)' /\ Evidence!Agree(c.got, got')
      BY <1>6, <2>1, <2>2
    <2>5. /\ Evidence!Place' = Evidence!FirstPage /\ pc' \notin {"answered", "refused"} => joined' = <<>>
          /\ pc' = "answered" /\ ~blurred' /\ request'.tool # "payslip"
                => joined' = SubSeq(listed', 1, Len(joined'))
      BY <1>3, <2>1, <2>2 DEF EvidencePages
    <2> QED
      BY <1>4, <2>3, <2>4, <2>5 DEF EvidencePages
  <1> QED
    BY <1>7, <1>8, <1>9, <1>10, EvidenceActions

LEMMA EvidencePagesHold ==
    ASSUME EvidencePages
    PROVE  Evidence!PagesOfOneSnapshot
  BY DEF EvidencePages, Evidence!PagesOfOneSnapshot
----------------------------------------------------------------------------
\* What an undisturbed call answers, against what Odoo holds.

LEMMA ItemsAre ==
    ASSUME NEW q, NEW g
    PROVE  /\ q.tool = "periods" => Evidence!AllItems(q, g) = Evidence!PeriodItems(g.slips)
           /\ q.tool \in {"batch", "payslips"} =>
                 Evidence!AllItems(q, g) = Evidence!SlipItems(q, g.slips)
           /\ q.tool = "rules" => Evidence!AllItems(q, g) = Evidence!RuleItems(g.lines)
           /\ q.tool = "payslip" => Evidence!AllItems(q, g) = Evidence!InputItems(g.inputs, g.types)
  BY DEF Evidence!AllItems

LEMMA ItemsAskedAre ==
    /\ request.tool = "periods" =>
          Evidence!ItemsAsked = Evidence!PeriodItems(Evidence!SlipsAsked)
    /\ request.tool \in {"batch", "payslips"} =>
          Evidence!ItemsAsked = Evidence!SlipItems(request, Evidence!SlipsAsked)
    /\ request.tool = "rules" => Evidence!ItemsAsked = Evidence!RuleItems(Evidence!LinesAsked)
    /\ request.tool = "payslip" =>
          Evidence!ItemsAsked = Evidence!InputItems(Evidence!InputsAsked, types)
  <1> DEFINE g == [slips |-> Evidence!SlipsAsked, lines |-> Evidence!LinesAsked,
                   inputs |-> Evidence!InputsAsked, types |-> types]
  <1>1. Evidence!ItemsAsked = Evidence!AllItems(request, g)
    BY Zenon DEF Evidence!ItemsAsked
  <1>2. /\ g.slips = Evidence!SlipsAsked /\ g.lines = Evidence!LinesAsked
        /\ g.inputs = Evidence!InputsAsked /\ g.types = types
    OBVIOUS
  <1> HIDE DEF g
  <1> QED
    BY <1>1, <1>2, ItemsAre

\* The payslips asked for are among the rows Odoo holds.
LEMMA SlipsAskedAre ==
    ASSUME Evidence!SourceInv
    PROVE  /\ Evidence!SlipsAsked \subseteq Evidence!Payslips
           /\ Evidence!SlipsAsked \subseteq Evidence!SlipRow
           /\ IsFiniteSet(Evidence!SlipsAsked) /\ Evidence!Identified(Evidence!SlipsAsked)
  <1>1. Evidence!SlipsAsked \subseteq Evidence!Payslips
    BY DEF Evidence!SlipsAsked
  <1> QED
    BY <1>1, PayslipsAre, FS_Subset DEF Evidence!Identified

InScopeOf(s) ==
    /\ request.scope \in {"batch", "both"} => s.member
    /\ request.scope \in {"period", "both"} => s.period = request.period
    /\ s.state \in request.states

LEMMA InScopeIs ==
    ASSUME NEW i
    PROVE  Evidence!InScope(i) <=> InScopeOf(Evidence!Row(i))
  BY SlipRowIs DEF Evidence!InScope, InScopeOf

\* Batches, lists of payslips and of rules are of the payslips in scope.
LEMMA ChosenAre ==
    ASSUME Asked, request.tool \in {"batch", "payslips", "rules"}
    PROVE  Evidence!Chosen(request, Evidence!SlipsAsked)
             = {s \in Evidence!Payslips : InScopeOf(s)}
  BY DEF Asked, Evidence!Chosen, Evidence!SlipsAsked, Evidence!UsesRun, Evidence!UsesPeriod, InScopeOf

LEMMA PayslipsListed ==
    ASSUME Evidence!SourceInv, Asked, request.tool \in {"batch", "payslips"},
           listed = Evidence!ItemsAsked
    PROVE  {listed[k].id : k \in 1..Len(listed)} = {i \in Slips : Evidence!InScope(i)}
  <1> DEFINE C == Evidence!Chosen(request, Evidence!SlipsAsked)
  <1>1. Enumerates(listed, {Evidence!Compact(s) : s \in C})
    BY ItemsAskedAre, SlipsAskedAre, SlipItemsEnumerate
  <1>2. C = {s \in Evidence!Payslips : InScopeOf(s)}
    BY ChosenAre
  <1> HIDE DEF C
  <1>3. \A s : Evidence!Compact(s).id = s.id
    BY DEF Evidence!Compact
  <1>4. ASSUME NEW k \in 1..Len(listed)
        PROVE  listed[k].id \in {i \in Slips : Evidence!InScope(i)}
    <2>1. PICK s \in C : listed[k] = Evidence!Compact(s)
      BY <1>1 DEF Enumerates
    <2>2. listed[k].id = s.id /\ s \in Evidence!Payslips /\ InScopeOf(s)
      BY <1>2, <1>3, <2>1
    <2>3. s.id \in Slips /\ s = Evidence!Row(s.id)
      BY <2>2, PayslipsAre
    <2>4. Evidence!InScope(s.id)
      BY <2>2, <2>3, InScopeIs
    <2> QED BY <2>2, <2>3, <2>4
  <1>5. ASSUME NEW i \in Slips, Evidence!InScope(i)
        PROVE  \E k \in 1..Len(listed) : listed[k].id = i
    <2>1. Evidence!Row(i) \in C /\ Evidence!Row(i).id = i
      BY <1>2, <1>5, InScopeIs, PayslipsAre, SlipRowIs
    <2>2. PICK k \in 1..Len(listed) : listed[k] = Evidence!Compact(Evidence!Row(i))
      BY <1>1, <2>1 DEF Enumerates
    <2> QED BY <1>3, <2>1, <2>2
  <1> QED
    BY <1>4, <1>5

LEMMA PeriodsCounted ==
    ASSUME Evidence!SourceInv, Asked, request.tool = "periods", listed = Evidence!ItemsAsked,
           NEW p \in Periods
    PROVE  {<<listed[k].observed, listed[k].active>> :
                k \in {n \in DOMAIN listed : listed[n].period = p}}
             = IF Evidence!OfPeriod(p) = {} THEN {}
               ELSE {<<Evidence!Cardinality(Evidence!OfPeriod(p)),
                       Evidence!Cardinality({s \in Evidence!OfPeriod(p) : s.state # "cancelled"})>>}
  <1> DEFINE S == Evidence!SlipsAsked
             O == Evidence!OfPeriod(p)
             counts == <<Evidence!Cardinality(O),
                         Evidence!Cardinality({s \in O : s.state # "cancelled"})>>
  <1>1. Enumerates(listed, {Evidence!PeriodItem(s.period, S) : s \in S})
    BY ItemsAskedAre, SlipsAskedAre, PeriodItemsEnumerate
  <1>2. S = {s \in Evidence!Payslips : s.state \in request.states}
    BY AskedIs
  <1>3. O = {s \in S : s.period = p}
    BY <1>2 DEF Evidence!OfPeriod
  <1>4. {s \in O : s.state # "cancelled"} = {s \in S : s.period = p /\ s.state # "cancelled"}
    BY <1>3
  <1>5. /\ Evidence!PeriodItem(p, S).observed = Evidence!Cardinality({s \in S : s.period = p})
        /\ Evidence!PeriodItem(p, S).active
             = Evidence!Cardinality({s \in S : s.period = p /\ s.state # "cancelled"})
    BY DEF Evidence!PeriodItem
  <1>6. counts = <<Evidence!PeriodItem(p, S).observed, Evidence!PeriodItem(p, S).active>>
    BY <1>3, <1>4, <1>5
  <1> HIDE DEF S, O, counts
  <1>7. ASSUME NEW k \in DOMAIN listed, listed[k].period = p
        PROVE  O # {} /\ <<listed[k].observed, listed[k].active>> = counts
    <2>1. k \in 1..Len(listed)
      BY <1>1 DEF Enumerates
    <2>2. PICK s \in S : listed[k] = Evidence!PeriodItem(s.period, S)
      BY <1>1, <2>1 DEF Enumerates
    <2>3. s.period = p
      BY <1>7, <2>2, PeriodItemIs
    <2> QED BY <1>3, <1>6, <2>2, <2>3
  <1>8. ASSUME O # {}
        PROVE  \E k \in DOMAIN listed : listed[k].period = p
    <2>1. PICK s \in S : s.period = p
      BY <1>3, <1>8
    <2>2. PICK k \in 1..Len(listed) : listed[k] = Evidence!PeriodItem(s.period, S)
      BY <1>1 DEF Enumerates
    <2>3. k \in DOMAIN listed
      BY <1>1 DEF Enumerates
    <2> QED BY <2>1, <2>2, <2>3, PeriodItemIs
  <1>9. {<<listed[k].observed, listed[k].active>> :
             k \in {n \in DOMAIN listed : listed[n].period = p}}
          = IF O = {} THEN {} ELSE {counts}
    <2>1. CASE O = {}
      BY <1>7, <2>1
    <2>2. CASE O # {}
      <3>1. PICK k \in DOMAIN listed : listed[k].period = p
        BY <1>8, <2>2
      <3> QED BY <1>7, <2>2, <3>1
    <2> QED BY <2>1, <2>2
  <1> QED
    BY <1>9, Zenon DEF O, counts

\* The lines asked for are those of the payslips in scope.
LineInScope(l) ==
    /\ Evidence!InScope(l.slip) /\ (request.tool = "batch" => slip[l.slip].state # "cancelled")

LEMMA LinesAskedAre ==
    ASSUME Evidence!SourceInv, Asked, request.tool \in {"batch", "rules"}
    PROVE  /\ Evidence!LinesAsked = {l \in Evidence!Children(line, Slips) : LineInScope(l)}
           /\ Evidence!LinesAsked \subseteq Evidence!LineRow /\ IsFiniteSet(Evidence!LinesAsked)
  <1> DEFINE I == Evidence!Included(request, Evidence!SlipsAsked)
             ids == Evidence!IdsOf(I)
  <1>1. I = {s \in Evidence!Payslips : /\ InScopeOf(s)
                                       /\ request.tool = "batch" => s.state # "cancelled"}
    BY ChosenAre DEF Evidence!Included
  <1> HIDE DEF I
  <1>2. ASSUME NEW i \in Slips
        PROVE  i \in ids <=> Evidence!InScope(i) /\ (request.tool = "batch" => slip[i].state # "cancelled")
    <2>1. Evidence!Row(i) \in Evidence!Payslips /\ Evidence!Row(i).id = i
          /\ Evidence!Row(i).state = slip[i].state
      BY PayslipsAre, SlipRowIs
    <2>2. i \in ids <=> Evidence!Row(i) \in I
      <3>1. \A s \in I : s = Evidence!Row(s.id)
        BY <1>1, PayslipsAre
      <3> QED BY <2>1, <3>1 DEF Evidence!IdsOf
    <2> QED BY <1>1, <2>1, <2>2, InScopeIs
  <1>3. ids \subseteq Slips
    BY <1>1, PayslipsAre DEF Evidence!IdsOf
  <1>4. Evidence!LinesAsked = Evidence!Lines(ids)
    BY DEF Evidence!LinesAsked, I
  <1> HIDE DEF ids
  <1>5. Evidence!Children(line, Slips) = {Child(l) : l \in {k \in line : k.slip \in Slips}}
    BY ChildrenAre
  <1>6. /\ Evidence!LinesAsked = {Child(l) : l \in {k \in line : k.slip \in ids}}
        /\ Evidence!LinesAsked \subseteq Evidence!LineRow /\ IsFiniteSet(Evidence!LinesAsked)
    BY <1>3, <1>4, LinesAre
  <1>7. ASSUME NEW l, l.slip \in Slips PROVE l.slip \in ids <=> LineInScope(Child(l))
    BY <1>2, <1>7, ChildIs DEF LineInScope
  <1>8. Evidence!LinesAsked = {l \in Evidence!Children(line, Slips) : LineInScope(l)}
    BY <1>3, <1>5, <1>6, <1>7
  <1> QED
    BY <1>6, <1>8

LEMMA LinesInScopeAre ==
    ASSUME Evidence!SourceInv, Asked, request.tool \in {"batch", "rules"}, NEW r, NEW c
    PROVE  Evidence!LinesInScope(r, c) = {l \in Evidence!LinesAsked : l.of = r /\ l.currency = c}
  BY LinesAskedAre DEF Evidence!LinesInScope, LineInScope

\* The lines read are those of the call.
LEMMA LinesOfCallAre ==
    ASSUME Evidence!SourceInv, Asked
    PROVE  Evidence!LinesAsked = {Child(l) : l \in Evidence!LinesOfCall}
  <1>1. \A l \in line : l.slip \in Slips
    BY EvidenceSource DEF Evidence!Line
  <1>2. CASE request.tool \in {"batch", "rules"}
    <2>1. Evidence!LinesAsked = {l \in Evidence!Children(line, Slips) : LineInScope(l)}
      BY <1>2, LinesAskedAre
    <2>2. Evidence!Children(line, Slips) = {Child(l) : l \in {k \in line : k.slip \in Slips}}
      BY ChildrenAre
    <2>3. \A l : LineInScope(Child(l)) <=> LineInScope(l)
      BY ChildIs DEF LineInScope
    <2>4. Evidence!LinesOfCall = {l \in line : LineInScope(l)}
      BY <1>2 DEF Evidence!LinesOfCall, LineInScope
    <2> QED BY <1>1, <2>1, <2>2, <2>3, <2>4
  <1>3. CASE request.tool = "payslip"
    <2>1. Evidence!LinesAsked = Evidence!Lines(Evidence!IdsOf(OfTheId))
      BY <1>3, AskedIs, IncludedIs DEF Evidence!LinesAsked
    <2>2. request.slip \in Slips
      BY <1>3 DEF Asked
    <2>3. Evidence!IdsOf(OfTheId) = {request.slip}
      <3>1. \A r \in OfTheId : r.id = request.slip
        BY DEF OfTheId
      <3>2. Evidence!Row(request.slip) \in OfTheId
        BY <2>2, SlipRowIs, PayslipsAre DEF OfTheId
      <3> QED BY <3>1, <3>2 DEF Evidence!IdsOf
    <2>4. Evidence!LinesAsked = {Child(l) : l \in {k \in line : k.slip \in {request.slip}}}
      BY <2>1, <2>3, ChildrenAre DEF Evidence!Lines
    <2>5. Evidence!LinesOfCall = {k \in line : k.slip \in {request.slip}}
      BY <1>3 DEF Evidence!LinesOfCall
    <2> QED BY <2>4, <2>5
  <1>4. CASE request.tool \notin {"batch", "rules", "payslip"}
    <2>1. Evidence!LinesOfCall = {}
      BY <1>4 DEF Evidence!LinesOfCall
    <2>2. Evidence!LinesAsked = {}
      BY <1>4, NotListed
    <2> QED BY <2>1, <2>2
  <1> QED
    BY <1>2, <1>3, <1>4

LEMMA DividedIs ==
    ASSUME Evidence!SourceInv, Asked
    PROVE  Evidence!OneEdition(Evidence!LinesAsked) <=> ~Evidence!Divided
  <1>1. Evidence!LinesAsked = {Child(l) : l \in Evidence!LinesOfCall}
    BY LinesOfCallAre
  <1>2. \A l : Child(l).of = l.of /\ Child(l).edition = l.edition
    BY ChildIs
  <1> QED
    BY <1>1, <1>2 DEF Evidence!OneEdition, Evidence!Divided

LEMMA RulesListed ==
    ASSUME Evidence!SourceInv, Asked, request.tool = "rules", listed = Evidence!ItemsAsked
    PROVE  {listed[k].rule : k \in 1..Len(listed)}
             = {r \in Evidence!Rules : \E c \in Currencies : Evidence!LinesInScope(r, c) # {}}
  <1> DEFINE L == Evidence!LinesAsked
  <1>1. L \subseteq Evidence!LineRow /\ IsFiniteSet(L)
    BY LinesAskedAre
  <1>2. Enumerates(listed, {Evidence!RuleItem(l.of, L) : l \in L})
    BY <1>1, ItemsAskedAre, RuleItemsEnumerate
  <1>3. \A r, c : Evidence!LinesInScope(r, c) = {l \in L : l.of = r /\ l.currency = c}
    BY LinesInScopeAre
  <1>4. \A l \in L : l.of \in Evidence!Rules /\ l.currency \in Currencies
    BY <1>1 DEF Evidence!LineRow
  <1> HIDE DEF L
  <1>5. \A k \in 1..Len(listed) : \E l \in L : listed[k].rule = l.of
    <2> TAKE k \in 1..Len(listed)
    <2>1. PICK l \in L : listed[k] = Evidence!RuleItem(l.of, L)
      BY <1>2 DEF Enumerates
    <2> QED BY <2>1, RuleItemIs
  <1>6. \A l \in L : \E k \in 1..Len(listed) : listed[k].rule = l.of
    <2> TAKE l \in L
    <2>1. PICK k \in 1..Len(listed) : listed[k] = Evidence!RuleItem(l.of, L)
      BY <1>2 DEF Enumerates
    <2> QED BY <2>1, RuleItemIs
  <1>7. {listed[k].rule : k \in 1..Len(listed)} = {l.of : l \in L}
    <2> DEFINE A == {listed[k].rule : k \in 1..Len(listed)}
               B == {l.of : l \in L}
    <2>1. \A x \in A : x \in B
      BY <1>5
    <2>2. \A x \in B : x \in A
      <3> TAKE x \in B
      <3>1. PICK l \in L : x = l.of
        OBVIOUS
      <3>2. PICK k \in 1..Len(listed) : listed[k].rule = l.of
        BY <1>6
      <3> QED BY <3>1, <3>2
    <2> HIDE DEF A, B
    <2>3. A = B
      BY <2>1, <2>2
    <2> QED BY <2>3, Zenon DEF A, B
  <1>8. \A r \in Evidence!Rules :
            (\E c \in Currencies : Evidence!LinesInScope(r, c) # {}) <=> \E l \in L : l.of = r
    BY <1>3, <1>4
  <1>9. {l.of : l \in L}
          = {r \in Evidence!Rules : \E c \in Currencies : Evidence!LinesInScope(r, c) # {}}
    <2> DEFINE A == {l.of : l \in L}
               B == {r \in Evidence!Rules :
                        \E c \in Currencies : Evidence!LinesInScope(r, c) # {}}
    <2>1. \A r \in A : r \in B
      BY <1>4, <1>8
    <2>2. \A r \in B : r \in A
      BY <1>8
    <2> HIDE DEF A, B
    <2>3. A = B
      BY <2>1, <2>2
    <2> QED BY <2>3, Zenon DEF A, B
  <1> QED BY <1>7, <1>9, Zenon

LEMMA InputsListed ==
    ASSUME Evidence!SourceInv, Asked, request.tool = "payslip", listed = Evidence!ItemsAsked
    PROVE  \A i \in Evidence!Children(input, {request.slip}) : i.of # "worked" =>
              \E k \in DOMAIN listed :
                 listed[k] = [id |-> i.id, as |-> types[i.of], value |-> i.value]
  <1> DEFINE J == {i \in input : i.of # "worked"}
             I == Evidence!InputsAsked
  <1>1. I = {Child(i) : i \in {k \in J : k.slip \in {request.slip}}}
    BY ChildrenAre DEF Evidence!InputsAsked, Evidence!Inputs
  <1>2. Evidence!Children(input, {request.slip})
          = {Child(i) : i \in {k \in input : k.slip \in {request.slip}}}
    BY ChildrenAre
  <1>3. input \subseteq Evidence!Input /\ IsFiniteSet(input) /\ Evidence!Identified(input)
    BY EvidenceSource DEF Evidence!SourceInv
  <1>4. IsFiniteSet(I)
    <2>1. IsFiniteSet(J)
      BY <1>3, FS_Subset
    <2>2. I = Evidence!Children(J, {request.slip})
      BY <1>1, ChildrenAre
    <2> HIDE DEF J, I
    <2> QED BY <2>1, <2>2, ChildrenFinite
  <1>5. \A i \in I : i.id \in Nat
    BY <1>1, <1>3, ChildIs DEF Evidence!Input
  <1>6. \A i, j \in I : i.id = j.id => i = j
    BY <1>1, <1>3, ChildIs DEF Evidence!Identified
  <1>7. \A i \in Evidence!Children(input, {request.slip}) : i.of # "worked" => i \in I
    BY <1>1, <1>2, ChildIs
  <1> HIDE DEF I
  <1>8. Enumerates(listed, {InputItem(i, types) : i \in I})
    <2>1. listed = Evidence!InputItems(I, types)
      BY ItemsAskedAre DEF I
    <2> QED BY <1>4, <1>5, <1>6, <2>1, InputItemsEnumerate
  <1>9. ASSUME NEW i \in Evidence!Children(input, {request.slip}), i.of # "worked"
        PROVE  \E k \in DOMAIN listed :
                 listed[k] = [id |-> i.id, as |-> types[i.of], value |-> i.value]
    <2>1. PICK k \in 1..Len(listed) : listed[k] = InputItem(i, types)
      BY <1>7, <1>8, <1>9 DEF Enumerates
    <2>2. k \in DOMAIN listed
      BY <1>8 DEF Enumerates
    <2> QED BY <2>1, <2>2 DEF InputItem
  <1> QED
    BY <1>9

\* A batch: the total of a rule in a currency.
RuleTotal(l, S) ==
    [by |-> <<"rule", l.of>>, currency |-> l.currency,
     total |-> Evidence!SumOf({k \in S : k.of = l.of /\ k.currency = l.currency})]

CategoryTotal(l, S) ==
    [by |-> <<"category", Category[l.of]>>, currency |-> l.currency,
     total |-> Evidence!SumOf({k \in S : Category[k.of] = Category[l.of]
                                             /\ k.currency = l.currency})]

LEMMA TotalsAre ==
    ASSUME NEW S
    PROVE  Evidence!ObservedTotals(S) = {RuleTotal(l, S) : l \in S} \cup {CategoryTotal(l, S) : l \in S}
  BY Zenon DEF Evidence!ObservedTotals, RuleTotal, CategoryTotal

TotalsOfRule(T, r, c) == {t.total : t \in {u \in T : u.by = <<"rule", r>> /\ u.currency = c}}

LEMMA TotalOfRule ==
    ASSUME NEW S, NEW r, NEW c, NEW K, K = {l \in S : l.of = r /\ l.currency = c}
    PROVE  TotalsOfRule(Evidence!ObservedTotals(S), r, c)
             = IF K = {} THEN {} ELSE {Evidence!SumOf(K)}
  <1> DEFINE U == {u \in Evidence!ObservedTotals(S) : u.by = <<"rule", r>> /\ u.currency = c}
  <1>1. \A l \in S : /\ RuleTotal(l, S).by = <<"rule", l.of>> /\ RuleTotal(l, S).currency = l.currency
                     /\ RuleTotal(l, S).total = Evidence!SumOf({k \in S : k.of = l.of /\ k.currency = l.currency})
    BY DEF RuleTotal
  <1>2. \A l \in S : CategoryTotal(l, S).by # <<"rule", r>>
    <2>1. \A l \in S : CategoryTotal(l, S).by = <<"category", Category[l.of]>>
      BY DEF CategoryTotal
    <2> QED BY <2>1
  <1>3. U = {RuleTotal(l, S) : l \in K}
    <2> DEFINE V == {RuleTotal(l, S) : l \in K}
    <2>1. ASSUME NEW u \in U PROVE u \in V
      <3>1. u \in Evidence!ObservedTotals(S) /\ u.by = <<"rule", r>> /\ u.currency = c
        OBVIOUS
      <3>2. (\E l \in S : u = RuleTotal(l, S)) \/ (\E l \in S : u = CategoryTotal(l, S))
        BY <3>1, TotalsAre
      <3>3. PICK l \in S : u = RuleTotal(l, S)
        BY <1>2, <3>1, <3>2
      <3>4. l.of = r /\ l.currency = c
        <4>1. <<"rule", l.of>> = <<"rule", r>> /\ l.currency = c
          BY <1>1, <3>1, <3>3, Zenon
        <4> QED BY <4>1
      <3> QED BY <3>3, <3>4
    <2>2. ASSUME NEW u \in V PROVE u \in U
      <3>1. PICK l \in K : u = RuleTotal(l, S)
        OBVIOUS
      <3>2. l \in S /\ l.of = r /\ l.currency = c
        OBVIOUS
      <3>3. u \in Evidence!ObservedTotals(S)
        BY <3>1, <3>2, TotalsAre
      <3>4. u.by = <<"rule", r>> /\ u.currency = c
        BY <1>1, <3>1, <3>2
      <3> QED BY <3>3, <3>4
    <2> HIDE DEF U, V
    <2>3. U = V
      BY <2>1, <2>2
    <2> QED BY <2>3, Zenon DEF V
  <1>4. \A l \in K : RuleTotal(l, S).total = Evidence!SumOf(K)
    <2> TAKE l \in K
    <2>1. {k \in S : k.of = l.of /\ k.currency = l.currency} = K
      OBVIOUS
    <2> QED BY <1>1, <2>1
  <1> HIDE DEF U
  <1>5. {t.total : t \in U} = IF K = {} THEN {} ELSE {Evidence!SumOf(K)}
    BY <1>3, <1>4
  <1> QED
    BY <1>5 DEF U, TotalsOfRule

LEMMA EvidenceAnswerHolds ==
    ASSUME Evidence!SourceInv, Evidence!QuietInv
    PROVE  Evidence!QuietAnswerExact
  <1> SUFFICES ASSUME pc = "answered", ~stirred
               PROVE  /\ ~Evidence!Divided
                      /\ request.tool \in {"batch", "payslips"} =>
                            {listed[k].id : k \in 1..Len(listed)} = {i \in Slips : Evidence!InScope(i)}
                      /\ request.tool = "periods" => \A p \in Periods :
                            {<<listed[k].observed, listed[k].active>> :
                                k \in {n \in DOMAIN listed : listed[n].period = p}}
                              = IF Evidence!OfPeriod(p) = {} THEN {}
                                ELSE {<<Evidence!Cardinality(Evidence!OfPeriod(p)),
                                        Evidence!Cardinality({s \in Evidence!OfPeriod(p) :
                                                                s.state # "cancelled"})>>}
                      /\ request.tool = "rules" =>
                            {listed[k].rule : k \in 1..Len(listed)}
                              = {r \in Evidence!Rules : \E c \in Currencies :
                                                           Evidence!LinesInScope(r, c) # {}}
                      /\ request.tool = "payslip" =>
                            \A i \in Evidence!Children(input, {request.slip}) : i.of # "worked" =>
                               \E k \in DOMAIN listed :
                                  listed[k] = [id |-> i.id, as |-> types[i.of], value |-> i.value]
                      /\ request.tool = "batch" =>
                            \A r \in Evidence!Rules, c \in Currencies :
                               {t.total : t \in {u \in answer.totals :
                                                   u.by = <<"rule", r>> /\ u.currency = c}}
                                 = IF Evidence!LinesInScope(r, c) = {} THEN {}
                                   ELSE {Evidence!SumOf(Evidence!LinesInScope(r, c))}
    BY Zenon DEF Evidence!QuietAnswerExact
  <1>1. Asked
    BY EvidenceSource, EvidenceAsked
  <1>2. /\ listed = Evidence!ItemsAsked
        /\ request.tool = "batch" => answer.totals = Evidence!ObservedTotals(Evidence!LinesAsked)
        /\ ~Evidence!Divided
    BY <1>1, EvidenceQuietIs, DividedIs DEF EvidenceMade
  <1>3. ASSUME request.tool = "batch", NEW r \in Evidence!Rules, NEW c \in Currencies
        PROVE  {t.total : t \in {u \in answer.totals : u.by = <<"rule", r>> /\ u.currency = c}}
                 = IF Evidence!LinesInScope(r, c) = {} THEN {}
                   ELSE {Evidence!SumOf(Evidence!LinesInScope(r, c))}
    <2>1. Evidence!LinesInScope(r, c) = {l \in Evidence!LinesAsked : l.of = r /\ l.currency = c}
      BY <1>1, <1>3, LinesInScopeAre
    <2>2. PICK S : S = Evidence!LinesAsked
      OBVIOUS
    <2>2a. PICK K : K = {l \in S : l.of = r /\ l.currency = c}
      OBVIOUS
    <2>3. TotalsOfRule(Evidence!ObservedTotals(S), r, c)
            = IF K = {} THEN {} ELSE {Evidence!SumOf(K)}
      BY <2>2a, TotalOfRule
    <2>4. answer.totals = Evidence!ObservedTotals(S) /\ Evidence!LinesInScope(r, c) = K
      BY <1>2, <1>3, <2>1, <2>2, <2>2a
    <2> QED
      BY <2>3, <2>4, Zenon DEF TotalsOfRule
  <1> QED
    BY <1>1, <1>2, <1>3, PayslipsListed, PeriodsCounted, RulesListed, InputsListed, Zenon
----------------------------------------------------------------------------
\* What an undisturbed call is refused for.

EvidenceReason ==
    \/ Evidence!UsesRun /\ ~run.there
    \/ Evidence!UsesRun /\ \E i \in Slips : slip[i].member /\ slip[i].period \notin run.covers
    \/ Evidence!UsesPeriod /\ \A i \in Slips : slip[i].period # request.period
    \/ Evidence!Cardinality(line) > MaxLines
    \/ request.tool = "payslip" /\ \E i \in input : i.of \notin DOMAIN types \cup {"worked"}
    \/ Evidence!Divided

LEMMA EvidenceRefusalIs ==
    Evidence!NoFalseRefusal <=>
        (pc = "refused" /\ ~stirred /\ place = Evidence!FirstPage => EvidenceReason)
  BY Zenon DEF Evidence!NoFalseRefusal, EvidenceReason

\* What is asked for is consistent.
LEMMA AskedParented ==
    ASSUME Evidence!SourceInv
    PROVE  /\ Evidence!Parented(Evidence!LinesAsked, Evidence!Included(request, Evidence!SlipsAsked))
           /\ Evidence!Parented(Evidence!WorkedAsked \cup Evidence!InputsAsked, Evidence!SlipsAsked)
  <1> DEFINE I == Evidence!Included(request, Evidence!SlipsAsked)
  <1>1. I \subseteq Evidence!SlipsAsked /\ Evidence!SlipsAsked \subseteq Evidence!Payslips
    BY IncludedIs DEF Evidence!SlipsAsked
  <1>2. \A s \in Evidence!Payslips : s.id \in Slips /\ s.currency = slip[s.id].currency
    BY PayslipsAre, SlipRowIs
  <1>3. ASSUME NEW l \in Evidence!LinesAsked
        PROVE  \E s \in I : s.id = l.slip /\ s.currency = l.currency
    <2>1. Evidence!LinesAsked = Evidence!Lines(Evidence!IdsOf(I))
      BY <1>3 DEF Evidence!LinesAsked
    <2>2. PICK k \in line : k.slip \in Evidence!IdsOf(I) /\ l = Child(k)
      BY <2>1, ChildrenAre DEF Evidence!Lines
    <2>3. PICK s \in I : s.id = k.slip
      BY <2>2 DEF Evidence!IdsOf
    <2>4. l.slip = k.slip /\ l.currency = slip[k.slip].currency
      BY <2>2, ChildIs
    <2> QED BY <1>1, <1>2, <2>3, <2>4
  <1>4. ASSUME NEW l \in Evidence!WorkedAsked \cup Evidence!InputsAsked
        PROVE  \E s \in Evidence!SlipsAsked : s.id = l.slip /\ s.currency = l.currency
    <2>1. request.tool = "payslip"
      BY <1>4 DEF Evidence!WorkedAsked, Evidence!InputsAsked
    <2>2. \E S : l \in Evidence!Children(S, {request.slip})
      BY <1>4, <2>1 DEF Evidence!WorkedAsked, Evidence!InputsAsked, Evidence!WorkedDays, Evidence!Inputs
    <2>3. PICK k : k.slip = request.slip /\ l = Child(k)
      BY <2>2, ChildrenAre
    <2>4. l.slip = request.slip /\ l.currency = slip[request.slip].currency
      BY <2>3, ChildIs
    <2>5. request.slip \in Slips /\ Evidence!SlipsAsked = OfTheId
      BY <2>1, EvidenceSource, EvidenceAsked, AskedIs DEF Asked
    <2>6. Evidence!Row(request.slip) \in OfTheId
      BY <2>5, SlipRowIs, PayslipsAre DEF OfTheId
    <2> QED BY <2>4, <2>5, <2>6, SlipRowIs
  <1> QED
    BY <1>3, <1>4 DEF Evidence!Parented

LEMMA EvidenceRefusalBegins ==
    ASSUME Evidence!Init
    PROVE  Evidence!NoFalseRefusal
  <1>1. pc = Evidence!FirstRead(request) /\ request \in EvidenceRequests
    BY DEF Evidence!Init
  <1>2. pc # "refused"
    BY <1>1, EvidenceAsked, FirstStage
  <1> QED
    BY <1>2, EvidenceRefusalIs

LEMMA EvidenceAnswerRefused ==
    ASSUME Evidence!Answer, pc' = "refused"
    PROVE  \/ ~Evidence!Parented(got.lines, Evidence!Included(request, got.slips))
           \/ ~Evidence!Parented(got.worked \cup got.inputs, got.slips)
           \/ ~Evidence!OneEdition(got.lines)
           \/ place # Evidence!FirstPage
           \/ place.offset > Len(EvidenceItems)
  <1>1. pc' = "refused" => pc' # "answered"
    OBVIOUS
  <1> QED
    BY <1>1, Zenon DEF Evidence!Answer, EvidenceItems

LEMMA EvidenceRefusalStays ==
    ASSUME Evidence!SourceInv, Evidence!StageInv, Evidence!QuietInv, EvidencePages,
           Evidence!NoFalseRefusal, Evidence!Next
    PROVE  Evidence!NoFalseRefusal'
  <1>1. EvidenceStages /\ EvidenceSoFar
    BY StagesAre, EvidenceQuietIs
  <1>2. Asked
    BY EvidenceSource, EvidenceAsked
  <1> SUFFICES ASSUME pc' = "refused", ~stirred', place' = Evidence!FirstPage
               PROVE  EvidenceReason'
    <2>1. (Evidence!FirstPage)' = Evidence!FirstPage
      BY DEF Evidence!FirstPage
    <2> QED BY <2>1, Zenon DEF Evidence!NoFalseRefusal, EvidenceReason
  <1>3. UNCHANGED <<run, slip, line, input, types, request>> => (EvidenceReason' <=> EvidenceReason)
    BY EvidenceFiniteSets DEF EvidenceReason, Evidence!UsesRun, Evidence!UsesPeriod, Evidence!Divided,
       Evidence!LinesOfCall, Evidence!InScope
  <1>4. \/ Evidence!ReadWindow \/ Evidence!ReadRun \/ Evidence!ReadMembers
        \/ Evidence!ReadPeriod \/ Evidence!ReadSlip \/ Evidence!ReadLines
        \/ Evidence!ReadWorkedDays \/ Evidence!ReadInputs \/ Evidence!ReadTypes
        \/ Evidence!ReadRefused \/ Evidence!Answer
        => /\ UNCHANGED <<run, slip, line, input, types, request>>
           /\ ~stirred /\ place = Evidence!FirstPage
    BY EvidenceReads
  <1>5. \A S : Evidence!AfterSlips(S) => pc' \in {"answer", "lines"}
    BY AfterSlipsIs DEF Afterwards
  <1>6. CASE Evidence!ReadWindow \/ Evidence!ReadSlip \/ Evidence!ReadWorkedDays \/ Evidence!ReadInputs
    BY <1>6, EvidenceReading
  <1>7. CASE Evidence!ReadRun
    <2>1. pc = "run" /\ ~run.there
      BY <1>7, EvidenceReading
    <2>2. EvidenceReason
      BY <1>1, <2>1 DEF EvidenceStages, EvidenceReason
    <2> QED BY <1>3, <1>4, <1>7, <2>2
  <1>8. CASE Evidence!ReadMembers
    <2>1. pc = "members" /\ \E s \in Members, r \in got.run : s.period \notin r.covers
      BY <1>5, <1>8, EvidenceReading
    <2>2. got.run = {run} /\ Evidence!UsesRun
      BY <1>1, <1>4, <1>8, <2>1 DEF EvidenceSoFar, EvidenceStages
    <2>3. PICK s \in Members : s.period \notin run.covers
      BY <2>1, <2>2
    <2>4. s.id \in Slips /\ slip[s.id].member /\ slip[s.id].period = s.period
      <3>1. s \in Evidence!Payslips /\ s.member
        BY DEF Members
      <3>2. s.id \in Slips /\ s = Evidence!Row(s.id)
        BY <3>1, PayslipsAre
      <3>3. s.member = slip[s.id].member /\ s.period = slip[s.id].period
        BY <3>2, SlipRowIs
      <3> QED BY <3>1, <3>2, <3>3
    <2>5. EvidenceReason
      BY <2>2, <2>3, <2>4 DEF EvidenceReason
    <2> QED BY <1>3, <1>4, <1>8, <2>5
  <1>9. CASE Evidence!ReadPeriod
    <2>1. pc = "period" /\ OfThePeriod = {}
      BY <1>5, <1>9, EvidenceReading
    <2>2. Evidence!UsesPeriod
      BY <1>1, <2>1 DEF EvidenceStages
    <2>3. \A i \in Slips : slip[i].period # request.period
      BY <2>1, SlipRowIs, PayslipsAre DEF OfThePeriod
    <2>4. EvidenceReason
      BY <2>2, <2>3 DEF EvidenceReason
    <2> QED BY <1>3, <1>4, <1>9, <2>4
  <1>10. CASE Evidence!ReadLines
    <2>1. /\ pc = "lines"
          /\ Evidence!Cardinality(got.lines \cup Evidence!Lines(NextIds)) > MaxLines
      BY <1>10, EvidenceReading
    <2>2. /\ chunks \in Seq(Slips) /\ request.tool \in {"batch", "rules", "payslip"}
          /\ got.lines \cup Evidence!Lines(Evidence!Range(chunks)) = Evidence!LinesAsked
      BY <1>1, <1>4, <1>10, <2>1 DEF EvidenceSoFar, EvidenceStages
    <2>3. Evidence!Range(chunks) = NextIds \cup Evidence!Range(RestIds)
      BY <2>2, ChunkAndRest
    <2>4. got.lines \cup Evidence!Lines(NextIds) \subseteq Evidence!LinesAsked
      BY <2>2, <2>3, LinesJoin
    <2>5. /\ IsFiniteSet(Evidence!LinesAsked) /\ Cardinality(Evidence!LinesAsked) \in Nat
          /\ Cardinality(Evidence!LinesAsked) <= Cardinality(line)
      <3>1. IsFiniteSet(line)
        BY EvidenceSource
      <3>2. \E ids : Evidence!LinesAsked = Evidence!Children(line, ids)
        BY <2>2 DEF Evidence!LinesAsked, Evidence!Lines
      <3> QED BY <3>1, <3>2, ChildrenFinite
    <2>6. /\ Cardinality(got.lines \cup Evidence!Lines(NextIds)) \in Nat
          /\ Cardinality(got.lines \cup Evidence!Lines(NextIds)) <= Cardinality(Evidence!LinesAsked)
      BY <2>4, <2>5, FS_Subset, FS_CardinalityType
    <2>7. Cardinality(line) > MaxLines
      <3>1. Cardinality(line) \in Nat /\ MaxLines \in Nat
        BY EvidenceSource, EvidenceConstants, FS_CardinalityType
      <3>2. Cardinality(got.lines \cup Evidence!Lines(NextIds)) > MaxLines
        BY <2>1, EvidenceFiniteSets
      <3> QED BY <2>5, <2>6, <3>1, <3>2
    <2>8. EvidenceReason
      BY <2>7, EvidenceFiniteSets DEF EvidenceReason
    <2> QED BY <1>3, <1>4, <1>10, <2>8
  <1>11. CASE Evidence!ReadTypes
    <2>1. pc = "types" /\ ~(\A i \in got.inputs : i.of \in DOMAIN types)
      BY <1>11, EvidenceReading
    <2>2. request.tool = "payslip" /\ got.inputs = Evidence!Inputs({request.slip})
      BY <1>1, <1>4, <1>11, <2>1 DEF EvidenceSoFar, EvidenceStages, Evidence!InputsAsked
    <2>3. PICK i \in Evidence!Inputs({request.slip}) : i.of \notin DOMAIN types
      BY <2>1, <2>2
    <2>4. PICK j \in input : j.of # "worked" /\ i = Child(j)
      BY ChildrenAre DEF Evidence!Inputs
    <2>5. j.of \notin DOMAIN types
      BY <2>3, <2>4, ChildIs
    <2>6. EvidenceReason
      BY <2>2, <2>4, <2>5 DEF EvidenceReason
    <2> QED BY <1>3, <1>4, <1>11, <2>6
  <1>12. CASE Evidence!ReadRefused
    BY <1>4, <1>12, EvidenceReading
  <1>13. CASE Evidence!Answer
    <2>1. pc = "answer" /\ ~stirred /\ place = Evidence!FirstPage
      BY <1>4, <1>13, EvidenceReading
    <2>2. /\ got.slips = Evidence!SlipsAsked /\ got.lines = Evidence!LinesAsked
          /\ got.worked = Evidence!WorkedAsked /\ got.inputs = Evidence!InputsAsked
      BY <1>1, <2>1 DEF EvidenceSoFar
    <2>3. /\ Evidence!Parented(got.lines, Evidence!Included(request, got.slips))
          /\ Evidence!Parented(got.worked \cup got.inputs, got.slips)
      BY <2>2, AskedParented
    <2>4. Len(EvidenceItems) \in Nat
      <3>1. Evidence!WellRead(got)
        BY DEF EvidencePages
      <3>2. CASE request.tool = "payslip"
        <4>1. EvidenceItems = Evidence!InputItems(got.inputs, got.types)
          BY <3>2 DEF EvidenceItems, Evidence!AllItems
        <4> QED BY <3>1, <4>1, InputItemsLength, WellReadIs
      <3>3. CASE request.tool \in {"periods", "batch", "payslips", "rules"}
        BY <3>1, <3>3, ItemsAreRows DEF EvidenceItems
      <3> QED BY <1>2, <3>2, <3>3 DEF Asked
    <2>5. place.offset = 0
      BY <2>1 DEF Evidence!FirstPage
    <2>6. ~(place.offset > Len(EvidenceItems))
      BY <2>4, <2>5
    <2>7. ~Evidence!OneEdition(got.lines) => Evidence!Divided
      BY <1>2, <2>2, DividedIs
    <2>8. EvidenceReason
      BY <1>13, <2>1, <2>3, <2>6, <2>7, EvidenceAnswerRefused DEF EvidenceReason
    <2> QED BY <1>3, <1>4, <1>13, <2>8
  <1>14. CASE EvidenceAsk
    <2>1. pc' = Evidence!FirstRead(request')
      BY <1>14, EvidenceAsks
    <2> QED BY <2>1 DEF Evidence!FirstRead
  <1>15. CASE Evidence!Tick
    <2>1. UNCHANGED <<run, slip, line, input, types, request, pc, place, stirred>>
      BY <1>15 DEF Evidence!Tick, Evidence!call
    <2> QED BY <1>3, <2>1, EvidenceRefusalIs
  <1>16. CASE Evidence!Write
    BY <1>16 DEF Evidence!Write
  <1> QED
    BY <1>6, <1>7, <1>8, <1>9, <1>10, <1>11, <1>12, <1>13, <1>14, <1>15, <1>16, EvidenceActions
----------------------------------------------------------------------------
\* Nothing happens.

LEMMA EvidenceRests ==
    ASSUME Evidence!SourceInv, Evidence!StageInv, Evidence!QuietInv, EvidencePages,
           Evidence!NoFalseRefusal, UNCHANGED Evidence!vars
    PROVE  /\ Evidence!SourceInv' /\ Evidence!StageInv' /\ Evidence!QuietInv' /\ EvidencePages'
           /\ Evidence!NoFalseRefusal'
  <1>1. /\ UNCHANGED <<run, slip, line, input, types, now, lastLine>>
        /\ UNCHANGED <<request, place, pc, got, chunks, answer, listed, joined, basis>>
    BY DEF Evidence!vars, Evidence!odoo, Evidence!call
  <1>2. blurred' = blurred /\ stirred' = stirred
    BY DEF Evidence!vars, Evidence!odoo
  <1>3. Evidence!SourceInv'
    BY <1>1 DEF Evidence!SourceInv
  <1>4. Evidence!StageInv'
    <2>1. Evidence!UsesRun' = Evidence!UsesRun /\ Evidence!UsesPeriod' = Evidence!UsesPeriod
      BY <1>1 DEF Evidence!UsesRun, Evidence!UsesPeriod
    <2> QED BY <1>1, <2>1 DEF Evidence!StageInv
  <1>5. Evidence!QuietInv'
    <2>1. EvidenceSoFar /\ EvidenceMade
      BY EvidenceQuietIs
    <2>2. /\ Evidence!SlipsAsked' = Evidence!SlipsAsked
          /\ Evidence!LinesAsked' = Evidence!LinesAsked
          /\ Evidence!InputsAsked' = Evidence!InputsAsked
          /\ Evidence!WorkedAsked' = Evidence!WorkedAsked
          /\ Members' = Members
          /\ \A S : (Evidence!Lines(S))' = Evidence!Lines(S)
      BY <1>1, EvidenceSame
    <2>3. Evidence!ItemsAsked' = Evidence!ItemsAsked
      BY <1>1, <2>2 DEF Evidence!ItemsAsked
    <2>4. (Evidence!Lines(Evidence!Range(chunks)))' = Evidence!Lines(Evidence!Range(chunks))
      BY <1>1 DEF Evidence!Lines, Evidence!Children
    <2>5. EvidenceSoFar'
      BY <1>1, <1>2, <2>1, <2>2, <2>4 DEF EvidenceSoFar
    <2>6. EvidenceMade'
      BY <1>1, <1>2, <2>1, <2>2, <2>3 DEF EvidenceMade, Evidence!OneEdition
    <2> QED
      BY <2>5, <2>6, Zenon DEF Evidence!QuietInv, EvidenceSoFar, EvidenceMade, Members
  <1>6. EvidencePages'
    <2>1. \A g : Evidence!Older(g)' <=> Evidence!Older(g)
      <3> TAKE g
      <3> QED BY <1>1 DEF Evidence!Older, Evidence!Row
    <2>2. Evidence!Older(got)' <=> Evidence!Older(got)
      BY <1>1 DEF Evidence!Older, Evidence!Row
    <2>3. Evidence!Place' = Evidence!Place
      BY <1>1 DEF Evidence!Place
    <2>4. PICK P : P = Evidence!Place
      OBVIOUS
    <2>5. Evidence!Place # Evidence!FirstPage =>
             \E b \in basis :
                /\ EvidencePage(b, P)
                /\ ~blurred => /\ EvidenceJoined(b, P, joined)
                               /\ Evidence!Older(b.got) /\ Evidence!Agree(b.got, got)
      BY <2>4, Zenon DEF EvidencePages
    <2>6. Evidence!Place' # Evidence!FirstPage =>
             \E b \in basis' :
                /\ EvidencePage(b, P)
                /\ ~blurred' => /\ EvidenceJoined(b, P, joined')
                                /\ Evidence!Older(b.got)' /\ Evidence!Agree(b.got, got')
      BY <1>1, <1>2, <2>1, <2>3, <2>5
    <2> QED
      BY <1>1, <1>2, <2>1, <2>2, <2>3, <2>4, <2>6 DEF EvidencePages
  <1>7. Evidence!NoFalseRefusal'
    <2>1. Evidence!UsesRun' = Evidence!UsesRun /\ Evidence!UsesPeriod' = Evidence!UsesPeriod
      BY <1>1 DEF Evidence!UsesRun, Evidence!UsesPeriod
    <2>2. Evidence!Divided' <=> Evidence!Divided
      BY <1>1 DEF Evidence!Divided, Evidence!LinesOfCall, Evidence!InScope
    <2> QED BY <1>1, <1>2, <2>1, <2>2 DEF Evidence!NoFalseRefusal
  <1> QED
    BY <1>3, <1>4, <1>5, <1>6, <1>7

LEMMA ContextRests ==
    ASSUME Context!SourceInv, Context!QuietInv, ContextPages, Context!NoFalseRefusal,
           UNCHANGED Context!vars
    PROVE  /\ Context!SourceInv' /\ Context!QuietInv' /\ ContextPages' /\ Context!NoFalseRefusal'
  <1>1. /\ UNCHANGED <<version, name, contracts, entries, writes>>
        /\ UNCHANGED <<request, place, pc, got, answer, listed, joined, basis, stirred>>
    BY DEF Context!vars, Context!odoo
  <1>2. Context!SourceInv'
    BY <1>1 DEF Context!SourceInv
  <1>3. Context!QuietInv'
    <2>1. /\ (Context!Segments(Context!Domain))' = Context!Segments(Context!Domain)
          /\ Context!SegmentsRefused' <=> Context!SegmentsRefused
          /\ (Context!WorkEntries(request.states))' = Context!WorkEntries(request.states)
      BY <1>1, ContextSame
    <2>2. /\ Context!SegmentsRead' <=> Context!SegmentsRead
          /\ Context!EntriesRead' <=> Context!EntriesRead
          /\ Context!Underway' <=> Context!Underway
      BY <1>1 DEF Context!SegmentsRead, Context!EntriesRead, Context!Underway
    <2> QED BY <1>1, <2>1, <2>2 DEF Context!QuietInv
  <1>4. ContextPages'
    <2>1. \A S : Context!Older(S)' <=> Context!Older(S)
      <3> TAKE S
      <3> QED BY <1>1 DEF Context!Older, Context!Precede, Context!EntryRow
    <2>2. Context!Older(got.entries)' <=> Context!Older(got.entries)
      BY <1>1 DEF Context!Older, Context!Precede, Context!EntryRow
    <2>3. Context!Place' = Context!Place
      BY <1>1 DEF Context!Place
    <2>4. PICK P : P = Context!Place
      OBVIOUS
    <2>5. Context!Place # Context!FirstPage =>
             \E b \in basis : /\ ContextPage(b, P, joined)
                              /\ Context!Older(b.got.entries)
                              /\ Context!Precede(b.got.entries, got.entries)
      BY <2>4, Zenon DEF ContextPages
    <2>6. Context!Place' # Context!FirstPage =>
             \E b \in basis' : /\ ContextPage(b, P, joined')
                               /\ Context!Older(b.got.entries)'
                               /\ Context!Precede(b.got.entries, got'.entries)
      BY <1>1, <2>1, <2>3, <2>5
    <2> QED
      BY <1>1, <2>1, <2>2, <2>3, <2>4, <2>6 DEF ContextPages
  <1>5. Context!NoFalseRefusal'
    BY <1>1 DEF Context!NoFalseRefusal, Context!InForce, Context!InDomain
  <1> QED
    BY <1>2, <1>3, <1>4, <1>5
----------------------------------------------------------------------------
\* The composition: a behaviour is one of one part.

PayrollInv ==
    /\ part = "evidence" =>
          /\ Evidence!SourceInv /\ Evidence!StageInv /\ Evidence!QuietInv /\ EvidencePages
          /\ Evidence!NoFalseRefusal
    /\ part = "context" =>
          /\ Context!SourceInv /\ Context!QuietInv /\ ContextPages /\ Context!NoFalseRefusal

LEMMA PayrollStarts == AllInit => PayrollInv
  <1>1. AllInit => \/ part = "evidence" /\ Evidence!Init
                   \/ part = "context" /\ Context!Init
                   \/ part = "analysis"
    BY Zenon DEF AllInit
  <1> QED
    BY <1>1, EvidenceSourceBegins, EvidenceStageBegins, EvidenceQuietBegins, EvidencePagesBegin,
       EvidenceRefusalBegins, ContextSourceBegins, ContextQuietBegins, ContextPagesBegin,
       ContextRefusalBegins DEF PayrollInv

LEMMA PayrollStep == PayrollInv /\ [AllNext]_allVars => PayrollInv'
  <1> SUFFICES ASSUME PayrollInv, [AllNext]_allVars PROVE PayrollInv'
    OBVIOUS
  <1>1. CASE EvidenceNext
    <2>1. part = "evidence" /\ part' = part /\ Evidence!Next
      BY <1>1 DEF EvidenceNext
    <2> QED
      BY <2>1, EvidenceSourceStays, EvidenceStageStays, EvidenceQuietStays, EvidencePagesStay,
         EvidenceRefusalStays DEF PayrollInv
  <1>2. CASE ContextNext
    <2>1. part = "context" /\ part' = part /\ Context!Next
      BY <1>2 DEF ContextNext
    <2> QED
      BY <2>1, ContextSourceStays, ContextQuietStays, ContextPagesStay, ContextRefusalStays
         DEF PayrollInv
  <1>3. CASE AnalysisNext
    <2>1. part = "analysis" /\ part' = part
      BY <1>3 DEF AnalysisNext
    <2> QED
      BY <2>1 DEF PayrollInv
  <1>4. CASE UNCHANGED allVars
    <2>1. part' = part /\ UNCHANGED <<callVars, evidenceVars, contextVars>>
      BY <1>4 DEF allVars
    <2>2. UNCHANGED Evidence!vars /\ UNCHANGED Context!vars
      BY <2>1 DEF callVars, evidenceVars, contextVars, Evidence!vars, Evidence!odoo, Evidence!call,
                  Context!vars, Context!odoo
    <2> QED
      BY <2>1, <2>2, EvidenceRests, ContextRests DEF PayrollInv
  <1> QED
    BY <1>1, <1>2, <1>3, <1>4 DEF AllNext

\* What every state of the payroll reads satisfies, whatever users of Odoo do:
\* the rows are Odoo's, each stage of a call serves its tool, an undisturbed
\* call holds what Odoo holds, and a page begins where the one before it ends
\* (evidence.py, reader.py).
THEOREM PayrollReadsInv == AllSpec => [](EvidenceInv /\ ContextInv)
  <1>1. PayrollInv => EvidenceInv /\ ContextInv
    BY EvidencePagesIs, ContextPagesIs DEF PayrollInv, EvidenceInv, ContextInv
  <1> QED
    BY <1>1, PayrollStarts, PayrollStep, PTL DEF AllSpec

\* The pages a client puts together are the pages of one list, as long as no
\* row was written twice within a second: _fingerprint and _paginate of
\* evidence.py.
THEOREM PayrollPagesOfOneSnapshot == AllSpec => []PagesOfOneSnapshot
  <1>1. PayrollInv => PagesOfOneSnapshot
    BY EvidencePagesHold, AttendanceHolds DEF PayrollInv, PagesOfOneSnapshot
  <1> QED
    BY <1>1, PayrollStarts, PayrollStep, PTL DEF AllSpec

\* A call nobody disturbed tells Odoo as it is: the payslips in scope, the
\* counts of a period, the rules, inputs and rule totals, and the contract in
\* force on each day (evidence.py, reader.py).
THEOREM PayrollQuietAnswerExact == AllSpec => []QuietAnswerExact
  <1>1. PayrollInv => QuietAnswerExact
    BY EvidenceAnswerHolds, ContractHolds DEF PayrollInv, QuietAnswerExact
  <1> QED
    BY <1>1, PayrollStarts, PayrollStep, PTL DEF AllSpec

\* A call nobody disturbed is refused only for what Odoo holds: the checks of
\* consistency in evidence.py and reader.py refuse nothing that is consistent.
THEOREM PayrollNoFalseRefusal == AllSpec => []NoFalseRefusal
  <1>1. PayrollInv => NoFalseRefusal
    BY DEF PayrollInv, NoFalseRefusal
  <1> QED
    BY <1>1, PayrollStarts, PayrollStep, PTL DEF AllSpec
==============================================================================
