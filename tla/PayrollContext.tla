--------------------------- MODULE PayrollContext ---------------------------
(***************************************************************************)
(* Employees, contracts and work entries: get_employee_payroll_context and *)
(* get_attendance_summary (workflows/payroll/evidence.py), the context of  *)
(* _load_snapshot (workflows/payroll/analysis.py), and the contract        *)
(* segments the reader makes of hr.contract (Odoo 18) and of hr.version    *)
(* (Odoo 19).                                                              *)
(*                                                                         *)
(* Employees, contracts and entries are read apart while users change      *)
(* them.  A write date is the number of the write: two writes within a     *)
(* second are the subject of PayrollEvidence.                              *)
(***************************************************************************)
EXTENDS Integers, Sequences, FiniteSetsExt, Sorting

CONSTANTS
    Employees,
    FirstDay, LastDay,   \* the days of the period asked for
    Requests,      \* [tool, states]: "context", "attendance" or "snapshot"
    InitialSource, \* [version, contracts, entries]
    NewContracts,  \* contracts users may add
    Limit,         \* rows of a page
    MaxWrites      \* bound on the steps of Odoo users

\* The states of a work entry, in the order of their names.
StateRank == [cancelled |-> 1, conflict |-> 2, draft |-> 3, validated |-> 4]

Contract == [id : Nat, emp : Employees, rev : Nat, start : Nat, finish : Nat, wd : Nat]
Entry == [id : Nat, emp : Employees, from : Nat, to : Nat, contract : Nat, hours : Int,
          state : DOMAIN StateRank, wd : Nat]

Tools == {"context", "attendance", "snapshot"}

\* Ids are given once.
Identified(rows) == \A a, b \in rows : a.id = b.id => a = b

\* Odoo 18 or 19, whose work entries are of one day.
PayrollContextAssumption ==
    /\ Employees \subseteq Nat /\ IsFiniteSet(Employees)
    /\ FirstDay \in Nat /\ LastDay \in Nat /\ FirstDay <= LastDay
    /\ Limit \in Nat \ {0} /\ MaxWrites \in Nat
    /\ \A q \in Requests : q.tool \in Tools
    /\ NewContracts \subseteq Contract
    /\ \A s \in InitialSource :
          /\ s.version \in {18, 19}
          /\ s.contracts \subseteq Contract /\ IsFiniteSet(s.contracts) /\ Identified(s.contracts)
          /\ s.entries \subseteq Entry /\ IsFiniteSet(s.entries) /\ Identified(s.entries)
          /\ \A c \in s.contracts \cup s.entries : c.wd = 0
          /\ s.version = 19 => \A e \in s.entries : e.from = e.to

VARIABLES
    version,    \* of Odoo: 18 or 19
    name,       \* employee -> name
    contracts,  \* [id, emp, rev, start, finish, wd]; finish 0 is none
    entries,    \* [id, emp, from, to, contract, hours, state, wd]
    writes,
    request, cursor, pc,
    got,        \* [name, segments, entries]
    answer,     \* [items, next]
    listed,
    joined,     \* history: the pages the client put together
    basis,      \* history: the request and the rows of the last page
    stirred     \* history: a user wrote since the call began

odoo == <<version, name, contracts, entries, writes>>
vars == <<odoo, request, cursor, pc, got, answer, listed, joined, basis, stirred>>

FirstPage == [print |-> {}, offset |-> 0]
NoAnswer == [items |-> <<>>, next |-> FirstPage]
Nothing == [name |-> <<>>, segments |-> {}, entries |-> {}]

----------------------------------------------------------------------------
\* The domain of get_payroll_contract_segments.
InDomain(c) ==
    IF version = 18 THEN c.start <= LastDay /\ (c.finish = 0 \/ c.finish >= FirstDay)
    ELSE c.rev <= LastDay

Later(c, rows) == {d.rev : d \in {e \in rows : e.emp = c.emp /\ e.rev > c.rev}}

\* Mutant of Begin: a version is in force from the start of its contract.
BeginOfContract(c) == c.start

Begin(c) == IF version = 18 THEN c.start ELSE Max({c.rev, c.start})

\* A contract ends by itself; a version also on the eve of the next one.
Ends(c, rows) ==
    ({c.finish} \ {0})
        \cup (IF version = 19 /\ Later(c, rows) # {} THEN {Min(Later(c, rows)) - 1} ELSE {})

\* A row that ends before it begins, or two versions of one day.
Twisted(rows) ==
    \/ \E c \in rows : \E e \in Ends(c, rows) : e < Begin(c)
    \/ version = 19 /\ \E c, d \in rows : c # d /\ c.emp = d.emp /\ c.rev = d.rev

\* Mutant of Segments: not cut to the period.
SegmentsUncut(rows) ==
    {[id |-> c.id, emp |-> c.emp, name |-> name[c.emp], from |-> Begin(c),
      to |-> Min(Ends(c, rows) \cup {LastDay}), wd |-> c.wd] :
        c \in {d \in rows : Begin(d) <= LastDay /\ \A e \in Ends(d, rows) : FirstDay <= e}}

\* _contract_segments_18 and _contract_segments_19: what of a row is in force
\* within the period.
Segments(rows) ==
    {[id |-> c.id, emp |-> c.emp, name |-> name[c.emp], from |-> Max({Begin(c), FirstDay}),
      to |-> Min(Ends(c, rows) \cup {LastDay}), wd |-> c.wd] :
        c \in {d \in rows : Begin(d) <= LastDay /\ \A e \in Ends(d, rows) : FirstDay <= e}}

\* Mutant of Overlapping: segments that follow each other overlap.
OverlappingTouching(segments) ==
    \E a, b \in segments : a # b /\ a.emp = b.emp /\ a.from <= b.to + 1 /\ b.from <= a.to + 1

Overlapping(segments) ==
    \E a, b \in segments : a # b /\ a.emp = b.emp /\ a.from <= b.to /\ b.from <= a.to

Domain == {c \in contracts : InDomain(c)}

SegmentsRefused == Twisted(Domain) \/ Overlapping(Segments(Domain))

\* What the reader returns; only Odoo 19 names the contract.
EntryRow(e) ==
    [id |-> e.id, emp |-> e.emp, name |-> name[e.emp], from |-> e.from, to |-> e.to,
     contract |-> IF version = 18 THEN 0 ELSE e.contract, hours |-> e.hours, state |-> e.state,
     wd |-> e.wd]

\* get_payroll_work_entries: whatever touches the period, in the states asked
\* for.
WorkEntries(states) ==
    {EntryRow(e) :
        e \in {d \in entries : d.from <= LastDay /\ d.to >= FirstDay /\ d.state \in states}}

\* Mutant of UnderContract: not on the first day.
UnderContractLater(e, segments) ==
    \E s \in segments : /\ s.id = e.contract /\ s.emp = e.emp
                        /\ s.from < e.from /\ e.to <= s.to

\* An entry of a version lies within it.
UnderContract(e, segments) ==
    \E s \in segments : /\ s.id = e.contract /\ s.emp = e.emp
                        /\ s.from <= e.from /\ e.to <= s.to

\* Mutant of EntriesValid: no tool takes an entry that reaches out.
EntriesValidWithin(g) ==
    \A e \in g.entries :
        /\ e.emp \in DOMAIN g.name /\ e.name = g.name[e.emp]
        /\ e.contract # 0 => UnderContract(e, g.segments)
        /\ FirstDay <= e.from /\ e.to <= LastDay

\* _validate_work_entries, and the loop of get_attendance_summary: only the
\* snapshot wants entries within the period.
EntriesValid(g) ==
    \A e \in g.entries :
        /\ e.emp \in DOMAIN g.name /\ e.name = g.name[e.emp]
        /\ e.contract # 0 => UnderContract(e, g.segments)
        /\ request.tool = "snapshot" => FirstDay <= e.from /\ e.to <= LastDay

\* _validate_segments, and the loop of get_employee_payroll_context.
SegmentsValid(g) == \A s \in g.segments : s.emp \in DOMAIN g.name /\ s.name = g.name[s.emp]

Hours(rows) == MapThenSumSet(LAMBDA e : e.hours, rows)

\* One item per employee and state: the hours and the number of entries.
AttendanceItem(e, rows) ==
    LET same == {d \in rows : d.emp = e.emp /\ d.state = e.state}
    IN  [emp |-> e.emp, state |-> e.state, count |-> Cardinality(same), hours |-> Hours(same)]

AttendanceItems(rows) ==
    InOrder({AttendanceItem(e, rows) : e \in rows},
            LAMBDA a, b : \/ a.emp < b.emp
                          \/ a.emp = b.emp /\ StateRank[a.state] < StateRank[b.state])

SegmentItems(segments) ==
    InOrder(segments, LAMBDA a, b : a.from < b.from \/ (a.from = b.from /\ a.id < b.id))

\* Mutant of Anchors: the work entries are left out.
AnchorsOfContracts(g) == {<<"contract", s.id, s.wd>> : s \in g.segments}

\* _anchors; a new name is a new write date of the employee.
Anchors(g) ==
    {<<"employee", e, g.name[e]>> : e \in DOMAIN g.name}
        \cup {<<"entry", e.id, e.wd>> : e \in g.entries}
        \cup {<<"contract", s.id, s.wd>> : s \in g.segments}

Fingerprint(g) == {<<request, Anchors(g)>>}

----------------------------------------------------------------------------
Init ==
    /\ \E s \in InitialSource :
           version = s.version /\ contracts = s.contracts /\ entries = s.entries
    /\ name = [e \in Employees |-> 0]
    /\ writes = 0
    /\ request \in Requests
    /\ cursor = FirstPage
    /\ pc = "employees"
    /\ got = Nothing
    /\ answer = NoAnswer
    /\ listed = <<>>
    /\ joined = <<>>
    /\ basis = {}
    /\ stirred = FALSE

Ask(q, c) ==
    /\ pc \in {"answered", "refused"}
    /\ c = FirstPage \/ (pc = "answered" /\ c = answer.next)
    /\ request' = q
    /\ cursor' = c
    /\ pc' = "employees"
    /\ joined' = IF c = FirstPage THEN <<>> ELSE joined
    /\ basis' = IF c = FirstPage THEN {} ELSE basis
    /\ answer' = NoAnswer
    /\ listed' = <<>>
    /\ stirred' = FALSE
    /\ UNCHANGED <<odoo, got>>

Quietly == UNCHANGED <<odoo, request, cursor, answer, listed, joined, basis, stirred>>

Refuse == pc' = "refused" /\ got' = Nothing

\* A collection is refused when its rows change under it.
ReadRefused ==
    /\ pc \notin {"answer", "answered", "refused"}
    /\ stirred
    /\ Refuse
    /\ Quietly

\* _all_employees; the snapshot has them from the payslips.
ReadEmployees ==
    /\ pc = "employees"
    /\ got' = [got EXCEPT !.name = name]
    /\ pc' = IF request.tool = "attendance" THEN "entries" ELSE "segments"
    /\ Quietly

\* _all_segments: the context cannot do without one.
ReadSegments ==
    /\ pc = "segments"
    /\ LET g == [got EXCEPT !.segments = Segments(Domain)]
       IN  IF \/ SegmentsRefused \/ ~SegmentsValid(g)
              \/ request.tool = "context" /\ g.segments = {}
           THEN Refuse
           ELSE /\ got' = g
                /\ pc' = IF request.tool = "snapshot" THEN "entries" ELSE "answer"
    /\ Quietly

\* _all_work_entries: attendance reads contracts only if an entry names one.
ReadEntries ==
    /\ pc = "entries"
    /\ LET rows == WorkEntries(request.states)
       IN  /\ got' = [got EXCEPT !.entries = rows]
           /\ pc' = IF request.tool = "attendance" /\ \E e \in rows : e.contract # 0
                    THEN "segments" ELSE "answer"
    /\ Quietly

\* The answer; attendance is cut into pages (_paginate).
Answer ==
    /\ pc = "answer"
    /\ LET items == IF request.tool = "attendance" THEN AttendanceItems(got.entries)
                    ELSE SegmentItems(got.segments)
           page == IF request.tool # "attendance" THEN items
                   ELSE SubSeq(items, cursor.offset + 1, Min({cursor.offset + Limit, Len(items)}))
           after == cursor.offset + Len(page)
       IN  IF \/ ~EntriesValid(got)
              \/ cursor # FirstPage /\ cursor.print # Fingerprint(got)
              \/ cursor.offset > Len(items)
           THEN pc' = "refused" /\ joined' = <<>> /\ basis' = {} /\ UNCHANGED <<answer, listed>>
           ELSE /\ pc' = "answered"
                /\ answer' = [items |-> page,
                              next |-> IF after < Len(items)
                                       THEN [print |-> Fingerprint(got), offset |-> after]
                                       ELSE FirstPage]
                /\ listed' = items
                /\ joined' = joined \o page
                /\ basis' = {[request |-> request, got |-> got]}
    /\ got' = Nothing
    /\ UNCHANGED <<odoo, request, cursor, stirred>>

----------------------------------------------------------------------------
\* The users of Odoo.
Write ==
    /\ writes < MaxWrites
    /\ writes' = writes + 1
    /\ stirred' = TRUE
    /\ UNCHANGED <<version, request, cursor, pc, got, answer, listed, joined, basis>>

Rename(e) ==
    /\ Write
    /\ name' = [name EXCEPT ![e] = @ + 1]
    /\ UNCHANGED <<contracts, entries>>

AddContract(c) ==
    /\ Write
    /\ \A d \in contracts : d.id # c.id
    /\ contracts' = contracts \cup {[c EXCEPT !.wd = writes']}
    /\ UNCHANGED <<name, entries>>

EndContract(c, day) ==
    /\ Write
    /\ contracts' = (contracts \ {c}) \cup {[c EXCEPT !.finish = day, !.wd = writes']}
    /\ UNCHANGED <<name, entries>>

EditEntry(e, state, hours) ==
    /\ Write
    /\ entries' = (entries \ {e}) \cup {[e EXCEPT !.state = state, !.hours = hours, !.wd = writes']}
    /\ UNCHANGED <<name, contracts>>

DeleteEntry(e) ==
    /\ Write
    /\ entries' = entries \ {e}
    /\ UNCHANGED <<name, contracts>>

Users ==
    \/ \E e \in Employees : Rename(e)
    \/ \E c \in NewContracts : AddContract(c)
    \/ \E c \in contracts, day \in FirstDay..LastDay : EndContract(c, day)
    \/ \E e \in entries : \/ DeleteEntry(e)
                          \/ EditEntry(e, "cancelled", e.hours) \/ EditEntry(e, e.state, e.hours + 1)

Next ==
    \/ ReadEmployees \/ ReadSegments \/ ReadEntries \/ ReadRefused \/ Answer
    \/ Users
    \/ \E q \in Requests, c \in {FirstPage, answer.next} : Ask(q, c)

Spec == Init /\ [][Next]_vars

----------------------------------------------------------------------------
\* The contract in force on a day: of the contracts that run then, in Odoo 19
\* the one of the latest version that has begun.
InForce(c, day) ==
    /\ c.start <= day /\ (c.finish = 0 \/ day <= c.finish)
    /\ version = 19 => /\ c.rev <= day
                       /\ \A d \in contracts : d.emp = c.emp /\ d.rev <= day => d.rev <= c.rev

\* README: "only the employee and contract/version evidence applicable to an
\* exact period".  Day by day, an undisturbed context shows the contract in
\* force, no other, and nothing outside the period.
ContractOfTheDay ==
    pc = "answered" /\ request.tool = "context" /\ ~stirred =>
        /\ \A day \in FirstDay..LastDay, c \in contracts :
               InForce(c, day) <=> \E k \in DOMAIN listed : /\ listed[k].id = c.id
                                                            /\ listed[k].from <= day
                                                            /\ day <= listed[k].to
        /\ \A k \in DOMAIN listed : FirstDay <= listed[k].from /\ listed[k].to <= LastDay

\* An undisturbed call is refused only for what Odoo holds: contracts that
\* overlap, versions of one day or that never come into force, no contract at
\* all, an entry on a day its version is not in force, and for a snapshot an
\* entry that reaches out of the period.
NoFalseRefusal ==
    pc = "refused" /\ ~stirred /\ cursor = FirstPage =>
        \/ version = 18 /\ \E c, d \in contracts, day \in FirstDay..LastDay :
               c # d /\ c.emp = d.emp /\ InForce(c, day) /\ InForce(d, day)
        \/ version = 18 /\ \E c \in contracts : c.finish # 0 /\ c.finish < c.start
        \/ version = 19 /\ \E c \in contracts :
               /\ InDomain(c)
               /\ \/ \E d \in contracts : d # c /\ d.emp = c.emp /\ d.rev = c.rev
                  \/ \A day \in 1..LastDay + 1 : ~InForce(c, day)
        \/ request.tool = "context" /\ \A c \in contracts, day \in FirstDay..LastDay : ~InForce(c, day)
        \/ version = 19 /\ \E e \in entries : \A c \in contracts :
               c.id = e.contract /\ c.emp = e.emp => \E day \in e.from..e.to : ~InForce(c, day)
        \/ request.tool = "snapshot" /\ \E e \in entries : e.from < FirstDay \/ e.to > LastDay

\* The pages of an attendance summary that a client puts together are the
\* pages of one list: a contract or an entry that changed in between is refused
\* by the fingerprint.  Read in peace, it has one item for each employee and
\* state of an entry, with the hours of those entries.
AttendanceOfOneMoment ==
    pc = "answered" /\ request.tool = "attendance" =>
        /\ joined = SubSeq(listed, 1, Len(joined))
        /\ ~stirred =>
              LET rows == WorkEntries(request.states)
                  of(x) == {e \in rows : e.emp = x.emp /\ e.state = x.state}
              IN  /\ \A e \in rows : \E k \in DOMAIN listed : e \in of(listed[k])
                  /\ \A k \in DOMAIN listed :
                        /\ listed[k].hours = Hours(of(listed[k]))
                        /\ \A j \in DOMAIN listed \ {k} : of(listed[j]) # of(listed[k])

----------------------------------------------------------------------------
\* What the properties rest on.

\* Odoo's rows: ids are given once, and no write is of the future.
SourceInv ==
    /\ version \in {18, 19} /\ name \in [Employees -> Nat] /\ writes \in Nat
    /\ contracts \subseteq Contract /\ IsFiniteSet(contracts) /\ Identified(contracts)
    /\ entries \subseteq Entry /\ IsFiniteSet(entries) /\ Identified(entries)
    /\ \A e \in entries : e.wd <= writes /\ (version = 19 => e.from = e.to)
    /\ request \in Requests

\* The models a call has read.
SegmentsRead ==
    IF request.tool = "attendance" THEN pc = "answer" /\ \E e \in got.entries : e.contract # 0
    ELSE pc \in {"entries", "answer"}

EntriesRead ==
    \/ request.tool = "attendance" /\ pc \in {"segments", "answer"}
    \/ request.tool = "snapshot" /\ pc = "answer"

Underway == pc \in {"segments", "entries", "answer"}

\* What an undisturbed call has read is what Odoo holds, and what it answers is
\* made of that.
QuietInv ==
    /\ pc \in {"employees", "answered", "refused"} \/ Underway
    /\ ~Underway => got = Nothing
    /\ pc = "entries" => request.tool # "context"
    /\ pc = "segments" /\ request.tool = "attendance" => \E e \in got.entries : e.contract # 0
    /\ ~stirred /\ Underway =>
          /\ got = [name |-> name,
                    segments |-> IF SegmentsRead THEN Segments(Domain) ELSE {},
                    entries |-> IF EntriesRead THEN WorkEntries(request.states) ELSE {}]
          /\ SegmentsRead => ~SegmentsRefused
    /\ ~stirred /\ pc = "answered" =>
          IF request.tool = "attendance"
          THEN listed = AttendanceItems(WorkEntries(request.states))
          ELSE listed = SegmentItems(Segments(Domain)) /\ ~SegmentsRefused

\* The cursor of the page the client has, or of the call that is under way.
Place ==
    IF pc = "answered" THEN answer.next ELSE IF pc = "refused" THEN FirstPage ELSE cursor

Unnamed(e) == [e EXCEPT !.name = 0]

\* Rows read earlier against rows as they are now, or as they were read later.
Precede(old, new) ==
    \A e \in old, d \in new :
        e.id = d.id => e.wd <= d.wd /\ (e.wd = d.wd => Unnamed(e) = Unnamed(d))

\* Rows as the reader returned them, now or earlier.
ReadEntry == [id : Nat, emp : Employees, name : Nat, from : Nat, to : Nat, contract : Nat,
              hours : Int, state : DOMAIN StateRank, wd : Nat]

Older(rows) ==
    /\ IsFiniteSet(rows) /\ rows \subseteq ReadEntry
    /\ Precede(rows, {EntryRow(e) : e \in entries})

\* A page begins where the pages before it end, in the list that was made of
\* the rows the cursor names; those rows have only become older since.
PagesInv ==
    /\ Older(got.entries) /\ IsFiniteSet(got.segments)
    /\ Place = FirstPage /\ pc \notin {"answered", "refused"} => joined = <<>>
    /\ pc = "answered" /\ request.tool = "attendance" => joined = SubSeq(listed, 1, Len(joined))
    /\ Place # FirstPage =>
          \E b \in basis :
             /\ b.request.tool = "attendance"
             /\ Place.print = {<<b.request, Anchors(b.got)>>}
             /\ Place.offset \in 0..Len(AttendanceItems(b.got.entries))
             /\ joined = SubSeq(AttendanceItems(b.got.entries), 1, Place.offset)
             /\ \A e \in b.got.entries : e.emp \in DOMAIN b.got.name /\ e.name = b.got.name[e.emp]
             /\ Older(b.got.entries)
             /\ Precede(b.got.entries, got.entries)
=============================================================================
