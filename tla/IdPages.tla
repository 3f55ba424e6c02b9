------------------------------ MODULE IdPages -------------------------------
(***************************************************************************)
(* The id-cursor pages of adapters/odoo/accounting.py (_read_page), and    *)
(* the checks of the workflows that collect them.                          *)
(***************************************************************************)
EXTENDS Integers, FiniteSets

CONSTANTS
    PageSize,    \* _SOURCE_PAGE_SIZE
    MaxRecords   \* _MAX_SOURCE_RECORDS

\* The rows of the domain with id > cursor, by id, at most PageSize.
PageAfter(S, c) ==
    LET ahead == {i \in S : i > c} IN
    {i \in ahead : Cardinality({j \in ahead : j < i}) < PageSize}

\* One row more was asked for, which is how the reader knows of a next page.
HasMore(S, c) == \E i \in S : i > c /\ i \notin PageAfter(S, c)

\* A page that repeats a row, or one row too many, ends the collection.
Unsafe(seen, page) ==
    page \cap seen # {} \/ Cardinality(seen) + Cardinality(page) > MaxRecords

\* Decimal.quantize with ROUND_HALF_UP, which rounds halves away from zero.
RoundedTo(v, increment) ==
    LET up(w) == ((2 * w + increment) \div (2 * increment)) * increment
    IN  IF v < 0 THEN -up(-v) ELSE up(v)
=============================================================================
