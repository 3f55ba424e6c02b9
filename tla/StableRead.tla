----------------------------- MODULE StableRead -----------------------------
(***************************************************************************)
(* PayrollReader._stable_rows and ._fetch_rows                             *)
(* (adapters/odoo/payroll/reader.py): the rows of one Odoo model that      *)
(* match a domain are counted, read page by page, counted again and read   *)
(* again with only their ids and write dates.  Every call to Odoo is an    *)
(* await and a transaction of its own, and Odoo users edit the rows        *)
(* between any two of them.                                                *)
(*                                                                         *)
(* A row that leaves the domain, or is deleted, has the value Outside; one *)
(* that enters it, or is created, had that value before.  Assumption: two  *)
(* writes of one row never carry the same write_date (Odoo answers with    *)
(* seconds, so edits of one row within a second are not told apart).       *)
(***************************************************************************)
EXTENDS Integers, Sequences, FiniteSets

CONSTANTS
    Ids,        \* record ids of the model
    Values,     \* what a matching row holds; rows are ordered by it
    Outside,    \* the row does not match the domain
    PageSize,   \* _SOURCE_PAGE_SIZE
    SourceCap,  \* the model's entry of PAYROLL_SOURCE_CAPS
    MaxEdits    \* bound on the writes of Odoo users

ASSUME StableReadAssumption ==
    /\ Ids \subseteq Nat
    /\ IsFiniteSet(Ids)
    /\ Values \subseteq Nat
    /\ Outside \notin Values
    /\ PageSize \in Nat \ {0}
    /\ SourceCap \in Nat
    /\ MaxEdits \in Nat

VARIABLES
    table,      \* the model's table in Odoo
    edits,      \* number of writes so far, the latest write_date
    stage,      \* where the read is suspended
    count,      \* search_count before the first pass
    rows,       \* rows of the first pass
    anchors,    \* (id, write_date) of the second pass
    began,      \* history: edits when the read counted its rows
    atRecount   \* history: the table when the rows were counted again

source == <<table, edits>>
read == <<stage, count, rows, anchors, began, atRecount>>
vars == <<table, edits, stage, count, rows, anchors, began, atRecount>>

----------------------------------------------------------------------------
\* Odoo: external, from how the reader calls it.

Row == [id : Ids, date : Nat, value : Values]
Table == [Ids -> [date : Nat, value : Values \cup {Outside}]]

Matching(t) == {i \in Ids : t[i].value # Outside}

RowOf(t, i) == [id |-> i, date |-> t[i].date, value |-> t[i].value]

Contents(t) == {RowOf(t, i) : i \in Matching(t)}

\* "order": by a field a write may change, then by id.
Before(p, q) == p.value < q.value \/ (p.value = q.value /\ p.id < q.id)

Listings(S) == {s \in [1..Cardinality(S) -> S] :
                   \A a, b \in DOMAIN s : a < b => Before(s[a], s[b])}

Smaller(m, n) == IF m < n THEN m ELSE n

\* transport.search_read: the one page there is, of the table as it is now.
SearchRead(offset, limit) ==
    {[k \in 1..Smaller(limit, Len(s) - offset) |-> s[offset + k]] :
        s \in Listings(Contents(table))}

\* transport.search_count.
SearchCount == Cardinality(Contents(table))

----------------------------------------------------------------------------
\* _fetch_rows.

Distinct(s) == \A a, b \in DOMAIN s : a # b => s[a].id # s[b].id

\* Mutant of Requested: the last page asks for a full page.
RequestedFull(got) == IF count = 0 THEN 1 ELSE PageSize

\* The limit of the next page; an empty result is probed with one row.
Requested(got) == IF count = 0 THEN 1 ELSE Smaller(PageSize, count - Len(got))

\* A short page or a repeated id ends the read, as does a row where none was.
Accepts(got, page) ==
    IF count = 0 THEN page = <<>>
                 ELSE Len(page) = Requested(got) /\ Distinct(got \o page)

\* Mutant of Anchor: only the ids are compared.
AnchorUndated(row) == [id |-> row.id, date |-> 0]

Anchor(row) == [id |-> row.id, date |-> row.date]

Anchors(s) == [k \in DOMAIN s |-> Anchor(s[k])]

----------------------------------------------------------------------------
Init ==
    /\ table \in [Ids -> [date : {0}, value : Values \cup {Outside}]]
    /\ edits = 0
    /\ stage = "idle"
    /\ count = 0
    /\ rows = <<>>
    /\ anchors = <<>>
    /\ began = 0
    /\ atRecount = table

\* An Odoo user writes, creates or removes a row.
Edit(i, v) ==
    /\ edits < MaxEdits
    /\ edits' = edits + 1
    /\ table' = [table EXCEPT ![i] = [date |-> edits', value |-> v]]
    /\ UNCHANGED read

\* _stable_rows up to the answer of the first search_count.
CountRows ==
    /\ stage = "idle"
    /\ count' = SearchCount
    /\ stage' = IF SearchCount > SourceCap THEN "too_large" ELSE "fetching"
    /\ rows' = <<>>
    /\ anchors' = <<>>
    /\ began' = edits
    /\ UNCHANGED <<source, atRecount>>

\* One search_read of the first pass.
FetchRows ==
    /\ stage = "fetching"
    /\ \E page \in SearchRead(Len(rows), Requested(rows)) :
          /\ Accepts(rows, page)
          /\ rows' = rows \o page
    /\ stage' = IF Len(rows') < count THEN "fetching" ELSE "recounting"
    /\ UNCHANGED <<source, count, anchors, began, atRecount>>

\* The second search_count.
RecountRows ==
    /\ stage = "recounting"
    /\ stage' = IF SearchCount = count THEN "refetching" ELSE "failed"
    /\ atRecount' = table
    /\ UNCHANGED <<source, count, rows, anchors, began>>

\* One search_read of the second pass and, after its last page, the comparison.
FetchAnchors ==
    /\ stage = "refetching"
    /\ \E page \in SearchRead(Len(anchors), Requested(anchors)) :
          /\ Accepts(anchors, page)
          /\ anchors' = anchors \o Anchors(page)
    /\ stage' = IF Len(anchors') < count THEN "refetching"
                ELSE IF anchors' = Anchors(rows) THEN "returned" ELSE "failed"
    /\ UNCHANGED <<source, count, rows, began, atRecount>>

\* A page of either pass is not accepted: ODOO_STATE_CONFLICT or an API error.
FetchFails ==
    /\ \/ /\ stage = "fetching"
          /\ \E page \in SearchRead(Len(rows), Requested(rows)) : ~Accepts(rows, page)
       \/ /\ stage = "refetching"
          /\ \E page \in SearchRead(Len(anchors), Requested(anchors)) : ~Accepts(anchors, page)
    /\ stage' = "failed"
    /\ UNCHANGED <<source, count, rows, anchors, began, atRecount>>

\* A call to Odoo raises: a timeout, a denial, a transport error.
CallRaises ==
    /\ stage \in {"idle", "fetching", "recounting", "refetching"}
    /\ stage' = "raised"
    /\ UNCHANGED <<source, count, rows, anchors, began, atRecount>>

Read ==
    CountRows \/ FetchRows \/ RecountRows \/ FetchAnchors \/ FetchFails \/ CallRaises

Edits == \E i \in Ids, v \in Values \cup {Outside} : Edit(i, v)

Next == Read \/ Edits

Spec == Init /\ [][Next]_vars

----------------------------------------------------------------------------
\* Properties.

Stages == {"idle", "fetching", "recounting", "refetching",
           "returned", "failed", "too_large", "raised"}

\* Every variable of the read keeps its type.
TypeOK ==
    /\ table \in Table
    /\ edits \in Nat
    /\ stage \in Stages
    /\ count \in Nat
    /\ rows \in Seq(Row)
    /\ anchors \in Seq([id : Ids, date : Nat])
    /\ began \in Nat
    /\ atRecount \in Table

RowSet(s) == {s[k] : k \in DOMAIN s}

\* "The Payroll source changed while it was being read." is raised whenever it
\* matters: the rows _stable_rows returns, read in several pages, are exactly
\* the matching rows of the table at one instant of the read, whatever was
\* written, created or removed between the pages.
SnapshotRead == stage = "returned" => RowSet(rows) = Contents(atRecount)

\* And it is not raised for nothing: unless a call to Odoo raised, a read fails
\* only if somebody wrote to the model after the read began.
QuietReadSucceeds == stage = "failed" => edits # began

\* A row that was seen is still there or has a later write_date.
SeenIn(t, s) ==
    \A k \in DOMAIN s :
        /\ s[k].date <= t[s[k].id].date
        /\ s[k].date = t[s[k].id].date => s[k] = RowOf(t, s[k].id)

\* The strengthening of SnapshotRead that is inductive: the table only moves
\* forward, the first pass saw rows no later than the second count, the second
\* pass sees dates no earlier than it.
ReadInv ==
    /\ \A i \in Ids : table[i].date <= edits
    /\ SeenIn(table, rows)
    /\ Distinct(rows)
    /\ Len(rows) <= count
    /\ stage \in {"fetching", "recounting"} => anchors = <<>>
    /\ stage \in {"recounting", "refetching", "returned"} => Len(rows) = count
    /\ stage \in {"refetching", "returned"} =>
          /\ SeenIn(atRecount, rows)
          /\ Cardinality(Contents(atRecount)) = count
          /\ \A i \in Ids :
                /\ atRecount[i].date <= table[i].date
                /\ atRecount[i].date = table[i].date => atRecount[i] = table[i]
          /\ \A k \in DOMAIN anchors : atRecount[anchors[k].id].date <= anchors[k].date
    /\ stage = "returned" => anchors = Anchors(rows)

\* What makes QuietReadSucceeds inductive: a read that nobody disturbed is on
\* its way through the one listing of the table, in both passes.
QuietReadInv ==
    /\ began <= edits
    /\ stage = "failed" => edits # began
    /\ edits = began /\ stage \in {"fetching", "recounting", "refetching", "returned"} =>
          /\ count = SearchCount
          /\ Len(anchors) <= count
          /\ \A s \in Listings(Contents(table)) :
                /\ \A k \in DOMAIN rows : rows[k] = s[k]
                /\ \A k \in DOMAIN anchors : anchors[k] = Anchor(s[k])
          /\ stage \in {"refetching", "returned"} => atRecount = table
=============================================================================
