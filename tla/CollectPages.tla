---------------------------- MODULE CollectPages ----------------------------
(***************************************************************************)
(* _collect_pages (workflows/payroll/evidence.py) over the page calls of   *)
(* PayrollReader (adapters/odoo/payroll/reader.py).  Each page call reads  *)
(* all rows again with _stable_rows, module StableRead, and returns a      *)
(* slice of them together with a cursor that binds the next call to the    *)
(* ids and write dates it saw.                                             *)
(***************************************************************************)
EXTENDS StableRead

CONSTANTS
    Limit,     \* _PAGE_SIZE of the collector
    Cap,       \* the collector's cap
    NoCursor,  \* None
    NoTotal    \* None

ASSUME CollectPagesAssumption ==
    /\ Limit \in Nat \ {0}
    /\ Cap \in Nat
    /\ NoTotal \notin Nat
    /\ NoCursor \notin [bound : Seq([id : Ids, date : Nat]), offset : Nat]

VARIABLES
    outcome,   \* "running", or how the collection ended
    cursor,    \* the cursor of the next page call
    seen,      \* seen_cursors
    items,     \* items collected so far
    total,     \* expected_total
    since,     \* history: edits when the collection began
    first      \* history: the table at the second count of the first page call

collector == <<outcome, cursor, seen, items, total, since, first>>

----------------------------------------------------------------------------
\* PayrollReader._page.

\* _cursor_fingerprint, taken to be injective.
Fingerprint(sorted) == Anchors(sorted)

Offset == IF cursor = NoCursor THEN 0 ELSE cursor.offset

\* Mutant of CursorMatches: the cursor carries only the offset.
CursorMatchesAny(sorted) == Offset <= Len(sorted)

\* _decode_cursor and the range check after it.
CursorMatches(sorted) ==
    /\ cursor # NoCursor => cursor.bound = Fingerprint(sorted)
    /\ Offset <= Len(sorted)

\* Mutant of Page: the next offset is one short.
PageOverlapping(sorted) ==
    LET end == Smaller(Offset + Limit, Len(sorted)) IN
    [items |-> SubSeq(sorted, Offset + 1, end),
     total |-> Len(sorted),
     next  |-> IF end < Len(sorted)
                 THEN [bound |-> Fingerprint(sorted), offset |-> end - 1]
                 ELSE NoCursor]

Page(sorted) ==
    LET end == Smaller(Offset + Limit, Len(sorted)) IN
    [items |-> SubSeq(sorted, Offset + 1, end),
     total |-> Len(sorted),
     next  |-> IF end < Len(sorted)
                 THEN [bound |-> Fingerprint(sorted), offset |-> end]
                 ELSE NoCursor]

----------------------------------------------------------------------------
\* _collect_pages.

\* The checks that raise _malformed_source.
WellFormed(page) ==
    LET collected == items \o page.items IN
    /\ Len(page.items) <= Limit
    /\ total \in {NoTotal, page.total}
    /\ page.next # NoCursor => page.items # <<>> /\ page.next \notin seen
    /\ Distinct(collected)
    /\ Len(collected) <= Cap /\ Len(collected) <= page.total
    /\ page.next = NoCursor => Len(collected) = page.total

CollectInit ==
    /\ Init
    /\ outcome = "running"
    /\ cursor = NoCursor
    /\ seen = {}
    /\ items = <<>>
    /\ total = NoTotal
    /\ since = 0
    /\ first = table

\* The page call of a running collection goes on; "since" is set by its first.
ReadOn ==
    /\ outcome = "running"
    /\ Read
    /\ since' = IF total = NoTotal /\ stage = "idle" THEN edits ELSE since
    /\ UNCHANGED <<outcome, cursor, seen, items, total, first>>

\* The page call raised.
ReadRaises ==
    /\ outcome = "running"
    /\ stage \in {"failed", "too_large", "raised"}
    /\ outcome' = stage
    /\ UNCHANGED <<vars, cursor, seen, items, total, since, first>>

\* The page call accepts its cursor, the collector the page.
Accepted(sorted) ==
    /\ CursorMatches(sorted)
    /\ total = NoTotal => Len(sorted) <= Cap
    /\ WellFormed(Page(sorted))

\* The page call returns, after sorting the rows, and its page is accepted.
TakePage ==
    /\ outcome = "running"
    /\ stage = "returned"
    /\ \E sorted \in Listings(RowSet(rows)) :
          LET page == Page(sorted) IN
          /\ Accepted(sorted)
          /\ items' = items \o page.items
          /\ total' = page.total
          /\ cursor' = page.next
          /\ seen' = seen \cup ({page.next} \ {NoCursor})
          /\ IF page.next = NoCursor
               THEN outcome' = "complete" /\ UNCHANGED stage
               ELSE stage' = "idle" /\ UNCHANGED outcome
    /\ first' = IF total = NoTotal THEN atRecount ELSE first
    /\ UNCHANGED <<source, count, rows, anchors, began, atRecount, since>>

\* The page call or the collector refuses what was read.
RefusePage ==
    /\ outcome = "running"
    /\ stage = "returned"
    /\ \E sorted \in Listings(RowSet(rows)) :
          /\ ~Accepted(sorted)
          /\ outcome' = IF CursorMatches(sorted) /\ total = NoTotal /\ Len(sorted) > Cap
                          THEN "too_large" ELSE "failed"
    /\ UNCHANGED <<vars, cursor, seen, items, total, since, first>>

CollectNext ==
    \/ ReadOn \/ ReadRaises \/ TakePage \/ RefusePage
    \/ Edits /\ UNCHANGED collector

CollectSpec == CollectInit /\ [][CollectNext]_<<vars, collector>>

----------------------------------------------------------------------------
\* Properties.

\* What _collect_pages returns is one state of the source, in order and whole:
\* the matching rows at the second count of the first page call, which are
\* still the matching rows at that of the last, although every page came from
\* a read of its own.
CollectedSnapshot ==
    outcome = "complete" =>
        /\ items \in Listings(Contents(first))
        /\ Contents(first) = Contents(atRecount)

\* A collection fails, by a conflict, a stale cursor or a malformed source,
\* only if somebody wrote to the model after it began, and a read of one of its
\* pages only if after that read began.
QuietCollectionSucceeds ==
    /\ outcome = "failed" => edits # since
    /\ QuietReadSucceeds

----------------------------------------------------------------------------
\* What makes CollectedSnapshot inductive.

\* A table moves forward: a row that differs has a later write_date.
Precedes(t, u) ==
    \A i \in Ids : /\ t[i].date <= u[i].date
                   /\ t[i].date = u[i].date => t[i] = u[i]

\* The items are the beginning of the listing the first page was cut from, and
\* the cursor binds the next page call to that listing.
Collected(listing) ==
    /\ total = Len(listing)
    /\ items \in Seq(Row) /\ Len(items) <= Len(listing)
    /\ \A k \in 1..Len(items) : items[k] = listing[k]
    /\ outcome = "running" =>
          cursor = [bound |-> Fingerprint(listing), offset |-> Len(items)]
    /\ outcome = "complete" =>
          items = listing /\ Contents(first) = Contents(atRecount)

CollectInv ==
    /\ first \in Table
    /\ total = NoTotal => items = <<>> /\ cursor = NoCursor /\ outcome # "complete"
    /\ total # NoTotal =>
          /\ Precedes(first, table)
          /\ stage \in {"refetching", "returned"} => Precedes(first, atRecount)
          /\ \E listing \in Listings(Contents(first)) : Collected(listing)

\* What makes QuietCollectionSucceeds inductive: cursors name ever later places,
\* and while nobody writes every page call reads the table of the first.
QuietCollectInv ==
    /\ since \in 0..edits
    /\ stage # "raised" => since <= began
    /\ outcome = "failed" => since < edits
    /\ total = NoTotal => seen = {}
    /\ total # NoTotal => total <= Cap
    /\ \A c \in seen : c.offset \in 0..Len(items)
    /\ edits = since /\ total # NoTotal => first = table
=============================================================================
