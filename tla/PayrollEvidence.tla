-------------------------- MODULE PayrollEvidence ---------------------------
(***************************************************************************)
(* list_payroll_periods, get_payroll_batch, list_payslips,                 *)
(* list_salary_rules and get_payslip of workflows/payroll/evidence.py,     *)
(* over the get_* operations of adapters/odoo/payroll/reader.py.           *)
(*                                                                         *)
(* A call reads one Odoo model after the other, each in one stable         *)
(* collection (CollectPages), while users of Odoo go on working; it then   *)
(* cuts a page out of what it listed.  The cursor to the next page carries *)
(* a fingerprint of the request and of the write dates of the rows read,   *)
(* which Odoo gives to the second.                                         *)
(*                                                                         *)
(* The company, the names, and the relations that follow the payslip       *)
(* (employee, contract, structure) are one attribute with its currency.    *)
(* What a row stores of its rule (name, code, sequence) is an edition:     *)
(* that of a line is the rule's when the payslip was calculated.           *)
(***************************************************************************)
EXTENDS Integers, Sequences, FiniteSetsExt, Sorting

CONSTANTS
    Slips,       \* payslip ids
    Periods,     \* date pairs, as numbers
    Currencies,
    States,      \* of a payslip
    Category,    \* salary rule -> category
    Requests,    \* [tool, states, scope, period, slip]
    InitialSource, \* [run, slip, line, input, types]
    Chunk,       \* ids of one query for children (_PAGE_SIZE)
    Limit,       \* rows of a page
    MaxLines,    \* _MAX_LINES
    MaxWrites,   \* bound on the steps of Odoo users
    MaxTime      \* bound on the seconds that pass

Rules == DOMAIN Category

Lists == {"payslips", "rules"}
Tools == Lists \cup {"periods", "batch", "payslip"}

\* A list is of a batch, of a period, or of both.
WellAsked(q) ==
    /\ q.tool \in Tools
    /\ q.tool = "periods" => q.scope = "window"
    /\ q.tool = "batch" => q.scope = "batch"
    /\ q.tool \in Lists => q.scope \in {"batch", "period", "both"}
    /\ q.tool = "payslip" => q.scope = "slip" /\ q.slip \in Slips

Run == [there : BOOLEAN, covers : SUBSET Periods, wd : Nat]
Payslip == [period : Periods, state : STRING, member : BOOLEAN, currency : Currencies, wd : Nat]
Line == [id : Nat, slip : Slips, of : Rules, edition : Nat, value : Int, wd : Nat]
Input == [id : Nat, slip : Slips, of : STRING, edition : Nat, value : Int, wd : Nat]

\* Ids are given once.
Identified(rows) == \A a, b \in rows : a.id = b.id => a = b

PayrollEvidenceAssumption ==
    /\ Slips \subseteq Nat /\ IsFiniteSet(Slips) /\ Periods \subseteq Nat
    /\ Rules \subseteq Nat \ {0} /\ IsFiniteSet(Rules)
    /\ States \subseteq STRING
    /\ Chunk \in Nat \ {0} /\ Limit \in Nat \ {0} /\ MaxLines \in Nat
    /\ MaxTime \in Nat
    /\ \A q \in Requests : WellAsked(q)
    /\ \A s \in InitialSource :
          /\ s.run \in Run /\ s.run.wd = 0
          /\ s.slip \in [Slips -> Payslip] /\ \A i \in Slips : s.slip[i].wd = 0
          /\ s.line \subseteq Line /\ IsFiniteSet(s.line) /\ Identified(s.line)
          /\ \A l \in s.line : l.wd = 0
          /\ s.input \subseteq Input /\ IsFiniteSet(s.input) /\ Identified(s.input)

VARIABLES
    run,       \* the batch: [there, covers, wd]
    slip,      \* id -> [period, state, member, currency, wd]
    line,      \* salary lines: [id, slip, of, edition, value, wd]
    input,     \* one-off inputs, and worked days as those of "worked"
    types,     \* input type -> "amount" or "quantity"
    now, writes, lastLine,
    request, cursor, pc,
    got,       \* what the call has read: [run, slips, lines, worked, inputs, types]
    chunks,    \* payslips whose lines are still to be read
    answer,    \* [items, totals, next]
    listed,    \* the list the page was cut from
    joined,    \* history: the pages the client put together
    basis,     \* history: the request and the rows of the last page
    stirred,   \* history: a user wrote since the call began
    blurred    \* history: a row was written twice within a second

odoo == <<run, slip, line, input, types, now, writes, lastLine, blurred>>
call == <<request, cursor, pc, got, chunks, answer, listed, joined, basis>>
vars == <<odoo, call, stirred>>

FirstPage == [print |-> {}, offset |-> 0]
NoAnswer == [items |-> <<>>, totals |-> {}, next |-> FirstPage]
Nothing == [run |-> {}, slips |-> {}, lines |-> {}, worked |-> {}, inputs |-> {}, types |-> <<>>]

----------------------------------------------------------------------------
\* What the reader returns.
Row(i) == [id |-> i, period |-> slip[i].period, state |-> slip[i].state,
           member |-> slip[i].member, currency |-> slip[i].currency, wd |-> slip[i].wd]

Payslips == {Row(i) : i \in Slips}

\* A line carries what it has of its payslip.
Children(rows, ids) ==
    {[id |-> l.id, slip |-> l.slip, of |-> l.of, edition |-> l.edition,
      currency |-> slip[l.slip].currency, value |-> l.value, wd |-> l.wd] :
        l \in {k \in rows : k.slip \in ids}}

Lines(ids) == Children(line, ids)
WorkedDays(ids) == Children({i \in input : i.of = "worked"}, ids)

\* Mutant of Inputs: worked days are taken for inputs.
InputsUnsorted(ids) == Children(input, ids)

Inputs(ids) == Children({i \in input : i.of # "worked"}, ids)

----------------------------------------------------------------------------
\* Mutant of Parented: the children are taken as they come.
ParentedAny(rows, slips) == TRUE

\* _validate_lines, _validate_worked_days, _validate_inputs: a child belongs to
\* a payslip read before, and agrees with it.
Parented(rows, slips) ==
    \A l \in rows : \E s \in slips : s.id = l.slip /\ s.currency = l.currency

\* Mutants of OneEdition: the lines of a category are compared; none are.
OneEditionOfCategory(lines) ==
    \A k, l \in lines : Category[k.of] = Category[l.of] => k.edition = l.edition
OneEditionUnread(lines) == TRUE

\* _validate_line_metadata: lines of one rule say the same of it.
OneEdition(lines) == \A k, l \in lines : k.of = l.of => k.edition = l.edition

Chosen(q, slips) == {s \in slips : s.state \in q.states}

\* The payslips whose lines are asked for.
Included(q, slips) ==
    IF q.tool = "batch" THEN {s \in Chosen(q, slips) : s.state # "cancelled"}
    ELSE IF q.tool = "payslip" THEN slips
    ELSE Chosen(q, slips)

IdsOf(rows) == {r.id : r \in rows}

Newest(a, b) == a.period > b.period \/ (a.period = b.period /\ a.id > b.id)

Compact(s) == [id |-> s.id, period |-> s.period, state |-> s.state, member |-> s.member,
               currency |-> s.currency]

SumOf(rows) == MapThenSumSet(LAMBDA l : l.value, rows)

\* Mutant of ObservedTotals: one total per rule, whatever the currency.
ObservedTotalsMixed(lines) ==
    {[by |-> <<"rule", l.of>>, currency |-> l.currency, total |-> SumOf({k \in lines : k.of = l.of})] :
        l \in lines}
    \cup {[by |-> <<"category", Category[l.of]>>, currency |-> l.currency,
           total |-> SumOf({k \in lines : Category[k.of] = Category[l.of]})] : l \in lines}

\* _observed_totals: by rule and by category, a currency at a time.
ObservedTotals(lines) ==
    {[by |-> <<"rule", l.of>>, currency |-> l.currency,
      total |-> SumOf({k \in lines : k.of = l.of /\ k.currency = l.currency})] : l \in lines}
    \cup {[by |-> <<"category", Category[l.of]>>, currency |-> l.currency,
           total |-> SumOf({k \in lines : Category[k.of] = Category[l.of]
                                            /\ k.currency = l.currency})] : l \in lines}

\* A period of the window with its counts.
PeriodItem(p, slips) ==
    [period |-> p,
     observed |-> Cardinality({s \in slips : s.period = p}),
     active |-> Cardinality({s \in slips : s.period = p /\ s.state # "cancelled"}),
     currencies |-> {s.currency : s \in {t \in slips : t.period = p /\ t.state # "cancelled"}}]

PeriodItems(slips) ==
    InOrder({PeriodItem(s.period, slips) : s \in slips}, LAMBDA a, b : a.period > b.period)

\* A rule seen on the lines.
RuleItem(r, lines) ==
    [rule |-> r,
     affected |-> Cardinality({l.slip : l \in {k \in lines : k.of = r}}),
     currencies |-> {l.currency : l \in {k \in lines : k.of = r}}]

RuleItems(lines) ==
    InOrder({RuleItem(l.of, lines) : l \in lines}, LAMBDA a, b : a.rule < b.rule)

\* Payslips are listed by period and id, the latest first.
Sorted(slips) == InOrder(slips, Newest)

SlipItems(q, slips) ==
    LET sorted == Sorted(Chosen(q, slips))
    IN  [k \in DOMAIN sorted |-> Compact(sorted[k])]

\* Mutant of InputItems: every input is an amount.
InputItemsAmounts(rows, kinds) ==
    InOrder({[id |-> i.id, as |-> "amount", value |-> i.value] : i \in rows},
            LAMBDA a, b : a.id < b.id)

\* An input is an amount or a quantity, as its type says.
InputItems(rows, kinds) ==
    InOrder({[id |-> i.id, as |-> kinds[i.of], value |-> i.value] : i \in rows},
            LAMBDA a, b : a.id < b.id)

AllItems(q, g) ==
    CASE q.tool = "periods" -> PeriodItems(g.slips)
      [] q.tool \in {"batch", "payslips"} -> SlipItems(q, g.slips)
      [] q.tool = "rules" -> RuleItems(g.lines)
      [] q.tool = "payslip" -> InputItems(g.inputs, g.types)

\* Mutant of Anchors: the lines are left out.
AnchorsOfSlips(g) == {<<"slip", s.id, s.wd>> : s \in g.slips}

\* _anchors: the write date of every row read.
Anchors(g) ==
    {<<"run", 1, r.wd>> : r \in g.run} \cup {<<"slip", s.id, s.wd>> : s \in g.slips}
        \cup {<<"line", l.id, l.wd>> : l \in g.lines}

\* _fingerprint.
Fingerprint(g) == {<<request, Anchors(g)>>}

----------------------------------------------------------------------------
\* _payslip_scope: the batch first, then the period.
FirstRead(q) ==
    CASE q.tool = "periods" -> "window"
      [] q.tool = "payslip" -> "slip"
      [] q.tool = "batch" \/ q.scope \in {"batch", "both"} -> "run"
      [] OTHER -> "period"

Init ==
    /\ \E s \in InitialSource :
           /\ run = s.run /\ slip = s.slip /\ line = s.line
           /\ input = s.input /\ types = s.types
    /\ now = 1 /\ writes = 0 /\ blurred = FALSE
    /\ lastLine = Max({l.id : l \in line} \cup {0})
    /\ request \in Requests
    /\ cursor = FirstPage
    /\ pc = FirstRead(request)
    /\ got = Nothing
    /\ chunks = <<>>
    /\ answer = NoAnswer
    /\ listed = <<>>
    /\ joined = <<>>
    /\ basis = {}
    /\ stirred = FALSE

\* The client asks anew, or for the page after the last one, perhaps of
\* another request.
Ask(q, c) ==
    /\ pc \in {"answered", "refused"}
    /\ c = FirstPage \/ (pc = "answered" /\ c = answer.next)
    /\ request' = q
    /\ cursor' = c
    /\ pc' = FirstRead(q)
    /\ UNCHANGED <<got, chunks>>
    /\ joined' = IF c = FirstPage THEN <<>> ELSE joined
    /\ basis' = IF c = FirstPage THEN {} ELSE basis
    /\ stirred' = FALSE
    /\ answer' = NoAnswer
    /\ listed' = <<>>
    /\ UNCHANGED odoo

Quietly == UNCHANGED <<odoo, request, cursor, answer, listed, joined, basis, stirred>>

\* The call raises.
Refuse == pc' = "refused" /\ got' = Nothing /\ chunks' = <<>>

\* A collection is refused when its rows change under it.
ReadRefused ==
    /\ pc \notin {"answer", "answered", "refused"}
    /\ stirred
    /\ Refuse
    /\ Quietly

\* The lines are read chunk by chunk (_chunks).
ToLines(slips) ==
    /\ LET sorted == Sorted(slips)
       IN  chunks' = [k \in DOMAIN sorted |-> sorted[k].id]
    /\ pc' = IF slips = {} THEN "answer" ELSE "lines"

\* Mutant of AfterSlips: the lines of everybody.
AfterSlipsAll(slips) ==
    IF request.tool \in {"batch", "rules"} THEN ToLines(slips)
    ELSE pc' = "answer" /\ UNCHANGED chunks

AfterSlips(slips) ==
    IF request.tool \in {"batch", "rules"} THEN ToLines(Included(request, slips))
    ELSE pc' = "answer" /\ UNCHANGED chunks

\* list_payroll_periods.
ReadWindow ==
    /\ pc = "window"
    /\ got' = [got EXCEPT !.slips = {r \in Payslips : r.state \in request.states}]
    /\ pc' = "answer"
    /\ UNCHANGED chunks
    /\ Quietly

\* _exact_batch.
ReadRun ==
    /\ pc = "run"
    /\ IF run.there
       THEN got' = [got EXCEPT !.run = {run}] /\ pc' = "members" /\ UNCHANGED chunks
       ELSE Refuse
    /\ Quietly

\* _batch_members: in every state, and within the dates of the batch.
ReadMembers ==
    /\ pc = "members"
    /\ LET rows == {r \in Payslips : r.member}
       IN  IF \E s \in rows, r \in got.run : s.period \notin r.covers
           THEN Refuse
           ELSE /\ got' = [got EXCEPT !.slips = rows]
                /\ IF request.tool # "batch" /\ request.scope = "both"
                   THEN pc' = "period" /\ UNCHANGED chunks
                   ELSE AfterSlips(rows)
    /\ Quietly

\* _period_payslips; with a batch, the members that are of the period.
ReadPeriod ==
    /\ pc = "period"
    /\ LET rows == {r \in Payslips : r.period = request.period}
           kept == IF request.scope = "both"
                   THEN {s \in got.slips : s.id \in IdsOf(rows) /\ s.period = request.period}
                   ELSE rows
       IN  IF rows = {} THEN Refuse
           ELSE got' = [got EXCEPT !.slips = kept] /\ AfterSlips(kept)
    /\ Quietly

\* get_payslip: _exact_payslip.
ReadSlip ==
    /\ pc = "slip"
    /\ LET rows == {r \in Payslips : r.id = request.slip}
       IN  got' = [got EXCEPT !.slips = rows] /\ ToLines(rows)
    /\ Quietly

\* _all_lines: one chunk, at most MaxLines rows in all; a line moves to no
\* other payslip, so none comes twice.
ReadLines ==
    /\ pc = "lines"
    /\ LET ids == Range(SubSeq(chunks, 1, Min({Chunk, Len(chunks)})))
           rest == SubSeq(chunks, Chunk + 1, Len(chunks))
           rows == got.lines \cup Lines(ids)
       IN  IF Cardinality(rows) > MaxLines
           THEN Refuse
           ELSE /\ got' = [got EXCEPT !.lines = rows]
                /\ chunks' = rest
                /\ pc' = IF rest # <<>> THEN "lines"
                         ELSE IF request.tool = "payslip" THEN "worked" ELSE "answer"
    /\ Quietly

\* _all_worked_days and _all_inputs of the payslip.
ReadWorkedDays ==
    /\ pc = "worked"
    /\ got' = [got EXCEPT !.worked = WorkedDays({request.slip})]
    /\ pc' = "inputs"
    /\ UNCHANGED chunks
    /\ Quietly

ReadInputs ==
    /\ pc = "inputs"
    /\ got' = [got EXCEPT !.inputs = Inputs({request.slip})]
    /\ pc' = IF Inputs({request.slip}) = {} THEN "answer" ELSE "types"
    /\ UNCHANGED chunks
    /\ Quietly

\* The types of the inputs; one that is gone is inconsistent.
ReadTypes ==
    /\ pc = "types"
    /\ IF \A i \in got.inputs : i.of \in DOMAIN types
       THEN got' = [got EXCEPT !.types = types] /\ pc' = "answer" /\ UNCHANGED chunks
       ELSE Refuse
    /\ Quietly

\* _paginate: the cursor must carry this fingerprint.
Answer ==
    /\ pc = "answer"
    /\ LET items == AllItems(request, got)
           page == IF request.tool = "payslip" THEN items
                   ELSE SubSeq(items, cursor.offset + 1, Min({cursor.offset + Limit, Len(items)}))
           after == cursor.offset + Len(page)
       IN  IF \/ ~Parented(got.lines, Included(request, got.slips))
              \/ ~Parented(got.worked \cup got.inputs, got.slips)
              \/ ~OneEdition(got.lines)
              \/ cursor # FirstPage /\ cursor.print # Fingerprint(got)
              \/ cursor.offset > Len(items)
           THEN pc' = "refused" /\ joined' = <<>> /\ basis' = {} /\ UNCHANGED <<answer, listed>>
           ELSE /\ pc' = "answered"
                /\ answer' = [items |-> page,
                              totals |-> IF request.tool = "batch" THEN ObservedTotals(got.lines)
                                         ELSE {},
                              next |-> IF after < Len(items)
                                       THEN [print |-> Fingerprint(got), offset |-> after]
                                       ELSE FirstPage]
                /\ listed' = items
                /\ joined' = joined \o page
                /\ basis' = {[request |-> request, got |-> got]}
    /\ got' = Nothing
    /\ UNCHANGED <<odoo, request, cursor, chunks, stirred>>

----------------------------------------------------------------------------
\* The users of Odoo.
Write ==
    /\ writes < MaxWrites
    /\ writes' = writes + 1
    /\ stirred' = TRUE
    /\ UNCHANGED <<call, now>>

ChangeSlip(i) ==
    /\ Write
    /\ \E row \in {[slip[i] EXCEPT !.period = p] : p \in Periods}
                 \cup {[slip[i] EXCEPT !.state = s] : s \in States}
                 \cup {[slip[i] EXCEPT !.member = m] : m \in {FALSE, run.there}}
                 \cup {[slip[i] EXCEPT !.currency = c] : c \in Currencies} :
           /\ row # slip[i]
           /\ slip' = [slip EXCEPT ![i] = [row EXCEPT !.wd = now]]
    /\ blurred' = (blurred \/ slip[i].wd = now)
    /\ UNCHANGED <<run, line, input, types, lastLine>>

\* compute_sheet: new lines for old ones, in the present edition of the rules.
Recalculate(i, R) ==
    /\ Write
    /\ line' = {l \in line : l.slip # i}
               \cup {[id |-> lastLine + r, slip |-> i, of |-> r, edition |-> 1, value |-> 2,
                      wd |-> now] : r \in R}
    /\ lastLine' = lastLine + Max(R)
    /\ UNCHANGED <<run, slip, input, types, blurred>>

EditLine(l, r) ==
    /\ Write
    /\ l \in line /\ r # l.of
    /\ line' = (line \ {l}) \cup {[l EXCEPT !.of = r, !.wd = now]}
    /\ blurred' = (blurred \/ l.wd = now)
    /\ UNCHANGED <<run, slip, input, types, lastLine>>

ChangeRun(P) ==
    /\ Write
    /\ run.there /\ run.covers # P
    /\ run' = [run EXCEPT !.covers = P, !.wd = now]
    /\ blurred' = (blurred \/ run.wd = now)
    /\ UNCHANGED <<slip, line, input, types, lastLine>>

DeleteInput(i) ==
    /\ Write
    /\ i \in input
    /\ input' = input \ {i}
    /\ UNCHANGED <<run, slip, line, types, lastLine, blurred>>

ArchiveType(t) ==
    /\ Write
    /\ types' = [u \in DOMAIN types \ {t} |-> types[u]]
    /\ UNCHANGED <<run, slip, line, input, lastLine, blurred>>

Tick ==
    /\ now < MaxTime
    /\ now' = now + 1
    /\ UNCHANGED <<run, slip, line, input, types, writes, lastLine, blurred, call, stirred>>

Read ==
    \/ ReadWindow \/ ReadRun \/ ReadMembers \/ ReadPeriod \/ ReadSlip \/ ReadLines
    \/ ReadWorkedDays \/ ReadInputs \/ ReadTypes \/ ReadRefused \/ Answer

Users ==
    \/ Tick
    \/ \E i \in Slips : ChangeSlip(i) \/ \E R \in (SUBSET Rules) \ {{}} : Recalculate(i, R)
    \/ \E l \in line, r \in Rules : EditLine(l, r)
    \/ \E P \in SUBSET Periods : ChangeRun(P)
    \/ \E i \in input : DeleteInput(i)
    \/ \E t \in DOMAIN types : ArchiveType(t)

Next ==
    \/ Read
    \/ Users
    \/ \E q \in Requests, c \in {FirstPage, answer.next} : Ask(q, c)

Spec == Init /\ [][Next]_vars

----------------------------------------------------------------------------
\* The pages a client puts together by following cursors are the pages of one
\* list: a row that changed, came or went in between, or a cursor of another
\* request, is refused by the fingerprint.  Only two writes of a row within
\* one second escape it (write_date, reader.py:657).
PagesOfOneSnapshot ==
    pc = "answered" /\ ~blurred /\ request.tool # "payslip"
        => joined = SubSeq(listed, 1, Len(joined))

\* The payslips of a request, straight from Odoo.
InScope(i) ==
    /\ request.scope \in {"batch", "both"} => slip[i].member
    /\ request.scope \in {"period", "both"} => slip[i].period = request.period
    /\ slip[i].state \in request.states

LinesInScope(r, c) ==
    {l \in Children(line, Slips) :
        /\ InScope(l.slip) /\ (request.tool = "batch" => slip[l.slip].state # "cancelled")
        /\ l.of = r /\ l.currency = c}

\* Those of a period, among the states asked for.
OfPeriod(p) == {s \in Payslips : s.period = p /\ s.state \in request.states}

\* The lines that a call is about.
LinesOfCall ==
    {l \in line : IF request.tool = "payslip" THEN l.slip = request.slip
                  ELSE /\ request.tool \in {"batch", "rules"} /\ InScope(l.slip)
                       /\ request.tool = "batch" => slip[l.slip].state # "cancelled"}

\* Some of them were calculated before a rule was revised, and some after.
Divided == \E k, l \in LinesOfCall : k.of = l.of /\ k.edition # l.edition

\* A call nobody disturbed tells Odoo as it is: every payslip in scope and no
\* other, the counts of each period, and for a batch the rule totals of each
\* currency, which cancelled payslips have no part in.  The name and code that
\* are told of a rule, which are those of one line, hold for all its lines.
QuietAnswerExact ==
    pc = "answered" /\ ~stirred =>
        /\ ~Divided
        /\ request.tool \in {"batch", "payslips"} =>
               {listed[k].id : k \in 1..Len(listed)} = {i \in Slips : InScope(i)}
        /\ request.tool = "periods" =>
               \A p \in Periods :
                   {<<listed[k].observed, listed[k].active>> : k \in {n \in DOMAIN listed :
                                                                     listed[n].period = p}} =
                       IF OfPeriod(p) = {} THEN {}
                       ELSE {<<Cardinality(OfPeriod(p)),
                               Cardinality({s \in OfPeriod(p) : s.state # "cancelled"})>>}
        /\ request.tool = "rules" =>
               {listed[k].rule : k \in 1..Len(listed)} =
                   {r \in Rules : \E c \in Currencies : LinesInScope(r, c) # {}}
        /\ request.tool = "payslip" =>
               \A i \in Children(input, {request.slip}) : i.of # "worked" =>
                   \E k \in DOMAIN listed : listed[k] = [id |-> i.id, as |-> types[i.of],
                                                       value |-> i.value]
        /\ request.tool = "batch" =>
               \A r \in Rules, c \in Currencies :
                   {t.total : t \in {u \in answer.totals : u.by = <<"rule", r>> /\ u.currency = c}} =
                       IF LinesInScope(r, c) = {} THEN {}
                       ELSE {SumOf(LinesInScope(r, c))}

UsesRun == request.tool = "batch" \/ request.scope \in {"batch", "both"}
UsesPeriod == request.scope \in {"period", "both"}

\* An undisturbed call without a cursor is refused only for what Odoo holds:
\* no such batch or period, a payslip outside the dates of its batch, too many
\* lines, an input whose type is gone, or lines of one rule that do not say
\* the same of it.  The other consistency checks refuse nothing.
NoFalseRefusal ==
    pc = "refused" /\ ~stirred /\ cursor = FirstPage =>
        \/ UsesRun /\ ~run.there
        \/ UsesRun /\ \E i \in Slips : slip[i].member /\ slip[i].period \notin run.covers
        \/ UsesPeriod /\ \A i \in Slips : slip[i].period # request.period
        \/ Cardinality(line) > MaxLines
        \/ request.tool = "payslip" /\ \E i \in input : i.of \notin DOMAIN types \cup {"worked"}
        \/ Divided

\* Payslips and lines are read apart; whatever users did in between, an answer
\* totals no currency that none of its payslips shows.
TotalsOfListed ==
    pc = "answered" /\ request.tool = "batch" =>
        {t.currency : t \in answer.totals} \subseteq
            {listed[k].currency : k \in {n \in 1..Len(listed) : listed[n].state # "cancelled"}}

----------------------------------------------------------------------------
\* What the properties rest on.

\* Odoo's rows: ids are given once, and no write is of the future.
SourceInv ==
    /\ now \in Nat /\ lastLine \in Nat /\ request \in Requests
    /\ run \in Run
    /\ slip \in [Slips -> Payslip] /\ \A i \in Slips : slip[i].wd <= now
    /\ line \subseteq Line /\ IsFiniteSet(line) /\ Identified(line)
    /\ \A l \in line : l.wd <= now /\ l.id <= lastLine
    /\ input \subseteq Input /\ IsFiniteSet(input) /\ Identified(input)

\* What the request asks for.
SlipsAsked ==
    {r \in Payslips : /\ request.tool = "periods" => r.state \in request.states
                      /\ UsesRun => r.member
                      /\ UsesPeriod => r.period = request.period
                      /\ request.tool = "payslip" => r.id = request.slip}

LinesAsked ==
    IF request.tool \in {"batch", "rules", "payslip"} THEN Lines(IdsOf(Included(request, SlipsAsked)))
    ELSE {}

InputsAsked == IF request.tool = "payslip" THEN Inputs({request.slip}) ELSE {}
WorkedAsked == IF request.tool = "payslip" THEN WorkedDays({request.slip}) ELSE {}

ItemsAsked ==
    AllItems(request, [slips |-> SlipsAsked, lines |-> LinesAsked, inputs |-> InputsAsked,
                       types |-> types])

\* Which stage serves which tool.
StageInv ==
    /\ got = [run |-> got.run, slips |-> got.slips, lines |-> got.lines, worked |-> got.worked,
              inputs |-> got.inputs, types |-> got.types]
    /\ \/ pc \in {"window", "run", "slip", "answered", "refused"} /\ got = Nothing
       \/ pc \in {"members", "period", "lines", "worked", "inputs", "types", "answer"}
    /\ pc = "window" => request.tool = "periods"
    /\ pc \in {"run", "members"} => UsesRun
    /\ pc = "period" => request.tool \in Lists /\ UsesPeriod /\ (request.scope = "period" => got = Nothing)
    /\ pc = "lines" => request.tool \in {"batch", "rules", "payslip"}
    /\ pc \in {"slip", "worked", "inputs", "types"} => request.tool = "payslip"
    /\ pc \in {"members", "period", "lines", "worked"} => got.worked = {} /\ got.inputs = {}
    /\ pc \in {"members", "period"} => got.lines = {}

\* What an undisturbed call has read is what Odoo holds, and what it answers is
\* made of that.
QuietInv ==
    ~stirred =>
        /\ pc = "members" => got.run = {run}
        /\ pc = "period" /\ request.scope = "both" => got.slips = {r \in Payslips : r.member}
        /\ pc \in {"lines", "worked", "inputs", "types", "answer"} => got.slips = SlipsAsked
        /\ pc = "lines" => /\ chunks \in Seq(Slips)
                           /\ got.lines \cup Lines(Range(chunks)) = LinesAsked
        /\ pc \in {"worked", "inputs", "types", "answer"} => got.lines = LinesAsked
        /\ pc \in {"inputs", "types", "answer"} => got.worked = WorkedAsked
        /\ pc \in {"types", "answer"} => got.inputs = InputsAsked
        /\ pc = "answer" /\ InputsAsked # {} => got.types = types
        /\ pc = "answered" => listed = ItemsAsked /\ OneEdition(LinesAsked)
        /\ pc = "answered" /\ request.tool = "batch" => answer.totals = ObservedTotals(LinesAsked)

\* The cursor of the page the client has, or of the call that is under way.
Place ==
    IF pc = "answered" THEN answer.next ELSE IF pc = "refused" THEN FirstPage ELSE cursor

\* Rows as the reader returned them, now or earlier.
SlipRow == [id : Slips, period : Periods, state : STRING, member : BOOLEAN,
            currency : Currencies, wd : Nat]
LineRow == [id : Nat, slip : Slips, of : Rules, edition : Nat, currency : Currencies, value : Int,
            wd : Nat]

WellRead(g) ==
    /\ IsFiniteSet(g.slips) /\ g.slips \subseteq SlipRow /\ Identified(g.slips)
    /\ IsFiniteSet(g.lines) /\ g.lines \subseteq LineRow
    /\ IsFiniteSet(g.inputs)

\* A line says the same, whatever the currency of its payslip became.
Alike(k, l) == k.slip = l.slip /\ k.of = l.of /\ k.edition = l.edition /\ k.value = l.value

\* Rows read earlier against rows as they are now, and as they were read later.
Older(g) ==
    /\ \A s \in g.slips : s.wd <= slip[s.id].wd /\ (s.wd = slip[s.id].wd => s = Row(s.id))
    /\ \A l \in g.lines :
          /\ l.id <= lastLine
          /\ \A k \in line : k.id = l.id => l.wd <= k.wd /\ (l.wd = k.wd => Alike(l, k))

Agree(g, h) ==
    /\ \A s \in g.slips, t \in h.slips : s.id = t.id /\ s.wd = t.wd => s = t
    /\ \A k \in g.lines, l \in h.lines : k.id = l.id /\ k.wd = l.wd => Alike(k, l)

\* A page begins where the pages before it end, in the list that was made of
\* the rows the cursor names; those rows have only become older since.
PagesInv ==
    /\ WellRead(got) /\ (~blurred => Older(got))
    /\ Place = FirstPage /\ pc \notin {"answered", "refused"} => joined = <<>>
    /\ pc = "answered" /\ ~blurred /\ request.tool # "payslip"
          => joined = SubSeq(listed, 1, Len(joined))
    /\ Place # FirstPage =>
          \E b \in basis :
             /\ b.request.tool # "payslip"
             /\ Place.print = {<<b.request, Anchors(b.got)>>}
             /\ Place.offset \in 0..Len(AllItems(b.request, b.got))
             /\ WellRead(b.got) /\ Parented(b.got.lines, Included(b.request, b.got.slips))
             /\ ~blurred => /\ joined = SubSeq(AllItems(b.request, b.got), 1, Place.offset)
                            /\ Older(b.got) /\ Agree(b.got, got)
=============================================================================
