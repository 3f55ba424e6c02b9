---------------------------- MODULE LedgerReports ----------------------------
(***************************************************************************)
(* The accounting reports: workflows/accounting/reports.py, cashbook.py,   *)
(* the open documents of invoicing.py and the listing of journals.py, read *)
(* through the id-cursor pages of adapters/odoo/accounting.py and served   *)
(* by accounting_report of mcp/server.py, page by page.                    *)
(*                                                                         *)
(* A report reads one model after the other, each in pages; every page is  *)
(* a transaction of its own in Odoo, and users post moves and reconcile    *)
(* lines between any two.  The lines of a move are fixed; posting makes    *)
(* them visible together, whatever their ids.  Dates are day numbers;      *)
(* amounts are in hundredths, so that an analytic share is exact, and      *)
(* Increment of them are one unit of currency precision.                   *)
(***************************************************************************)
EXTENDS IdPages, Sequences, FiniteSetsExt, Sorting, Functions

CONSTANTS
    Line,        \* line id -> [move, account, date, due, partner, invoice, balance, foreign,
                 \*   share]: balance in the company's currency, foreign in the move's
    Type,        \* account -> account_type
    Partial,     \* partial id -> [debit, credit, amount, debitForeign, creditForeign, date]
    Requests,    \* [kind, start, end, accounts, analytic, states, overdue]
    Limit,       \* rows the client asks for at a time
    Increment,   \* rounding of the company currency
    MaxChanges   \* bound on the steps of Odoo users

LineIds == DOMAIN Line
Kinds == {"trial_balance", "profit_and_loss", "balance_sheet", "cashbook", "aged_balance",
          "open_documents", "journal_entries"}
Moves == {Line[i].move : i \in LineIds}
Accounts == DOMAIN Type

\* Odoo numbers records from 1.
LedgerReportsAssumption ==
    /\ IsFiniteSet(LineIds) /\ LineIds \subseteq Nat \ {0}
    /\ \A i \in LineIds : {Line[i].move, Line[i].account, Line[i].partner} \subseteq Nat \ {0}
    /\ IsFiniteSet(DOMAIN Partial) /\ DOMAIN Partial \subseteq Nat \ {0}
    /\ \A q \in Requests : /\ IsFiniteSet(q.accounts) /\ q.accounts \subseteq Nat \ {0}
                            /\ q.kind \in Kinds
    /\ PageSize \in Nat \ {0} /\ Limit \in Nat \ {0}

VARIABLES
    posted,    \* moves in state posted; the others are drafts
    applied,   \* partial reconciliations there are
    changes,   \* number of user steps
    request,   \* what the client asks for
    stage,     \* the model being read, "idle", "done" or "failed"
    cursor,    \* id the next page starts after
    rows,      \* what each stage has read
    report,    \* the report computed last
    shown,     \* keys of the rows the client has got so far
    moments,   \* history: the states of Odoo since this report began
    session    \* history: the states of Odoo since the client began

odoo == <<posted, applied, changes>>
reader == <<request, stage, cursor, rows, report, shown>>
vars == <<posted, applied, changes, request, stage, cursor, rows, report, shown,
          moments, session>>

Sum(S, Op(_)) == MapThenSumSet(Op, S)

Moment == [posted |-> posted, applied |-> applied]

----------------------------------------------------------------------------
\* Odoo: external, from how the adapter reads it.

\* amount_residual and amount_residual_currency of a line.
Residual(i, A) ==
    Line[i].balance - Sum({p \in A : Partial[p].debit = i}, LAMBDA p : Partial[p].amount)
                    + Sum({p \in A : Partial[p].credit = i}, LAMBDA p : Partial[p].amount)

ForeignResidual(i, A) ==
    Line[i].foreign - Sum({p \in A : Partial[p].debit = i}, LAMBDA p : Partial[p].debitForeign)
                    + Sum({p \in A : Partial[p].credit = i}, LAMBDA p : Partial[p].creditForeign)

----------------------------------------------------------------------------
\* The filters of the reports.

TrialBalanceLine(q, i) ==
    /\ Line[i].move \in posted
    /\ Line[i].date <= q.end
    /\ q.accounts = {} \/ Line[i].account \in q.accounts

ProfitAndLossLine(q, i) ==
    Line[i].move \in posted /\ q.start <= Line[i].date /\ Line[i].date <= q.end

BalanceSheetLine(q, i) == Line[i].move \in posted /\ Line[i].date <= q.end

AgedLine(q, i) ==
    /\ Line[i].move \in posted
    /\ Line[i].date <= q.end
    /\ Type[Line[i].account] = "asset_receivable"

CashbookLine(q, i) ==
    /\ Line[i].move \in posted
    /\ Line[i].date <= q.end
    /\ Type[Line[i].account] = "asset_cash"

\* list_open_documents asks for lines by move, whatever its state is by now.
OpenLine(q, i) ==
    /\ Line[i].move \in {m.id : m \in rows.moves}
    /\ Type[Line[i].account] = "asset_receivable"

DateOf(m) == (CHOOSE d \in {Line[i].date : i \in LineIds} :
                \E i \in LineIds : Line[i].move = m /\ Line[i].date = d)

LinesOf(m) == {i \in LineIds : Line[i].move = m}

\* Customer invoices; the bills are read in the same way.
OpenMove(q, m) == m \in posted /\ DateOf(m) <= q.end /\ \E i \in LinesOf(m) : Line[i].invoice

StateOf(m) == IF m \in posted THEN "posted" ELSE "draft"

EntryMove(q, m) == q.start <= DateOf(m) /\ DateOf(m) <= q.end /\ StateOf(m) \in q.states

Selects(q, i) ==
    CASE q.kind = "trial_balance" -> TrialBalanceLine(q, i)
      [] q.kind = "profit_and_loss" -> ProfitAndLossLine(q, i)
      [] q.kind = "balance_sheet" -> BalanceSheetLine(q, i)
      [] q.kind = "aged_balance" -> AgedLine(q, i)
      [] q.kind = "cashbook" -> CashbookLine(q, i)
      [] q.kind = "open_documents" -> OpenLine(q, i)

\* The ids a stage of a report reads.
Selected(q, s) ==
    CASE s = "moves" /\ q.kind = "open_documents" -> {m \in Moves : OpenMove(q, m)}
      [] s = "moves" /\ q.kind = "journal_entries" -> {m \in Moves : EntryMove(q, m)}
      [] s = "lines" -> {i \in LineIds : Selects(q, i)}
      [] s = "partials" -> {p \in applied : Partial[p].date > q.end}

\* What is kept of a row.
RowOf(s, i) ==
    CASE s \in {"moves", "entries"} -> [id |-> i, state |-> StateOf(i)]
      [] s = "lines" -> [id |-> i, residual |-> Residual(i, applied),
                         foreign |-> ForeignResidual(i, applied)]
      [] s = "partials" -> [id |-> i]

\* The models a report reads, in order.
Stages(kind) ==
    CASE kind \in {"trial_balance", "profit_and_loss", "balance_sheet", "cashbook"} -> <<"lines">>
      [] kind = "aged_balance" -> <<"lines", "partials">>
      [] kind = "open_documents" -> <<"moves", "lines", "partials">>
      [] kind = "journal_entries" -> <<"moves", "entries">>

----------------------------------------------------------------------------
\* The reports, computed from the rows of the lines L (or moves M).

Rounded(v) == RoundedTo(v, Increment)

\* _analytic_factor, in hundredths.
Factor(q, i) == IF q.analytic THEN Line[i].share ELSE 100

Debit(i) == IF Line[i].balance > 0 THEN Line[i].balance ELSE 0
Credit(i) == IF Line[i].balance < 0 THEN -Line[i].balance ELSE 0

On(L, a) == {i \in L : Line[i].account = a}

\* get_trial_balance.
TrialBalance(q, L) ==
    [a \in q.accounts \cup {Line[i].account : i \in L} |->
        LET opening == Sum({i \in On(L, a) : Line[i].date < q.start}, LAMBDA i : Line[i].balance)
            debit == Sum({i \in On(L, a) : Line[i].date >= q.start}, Debit)
            credit == Sum({i \in On(L, a) : Line[i].date >= q.start}, Credit)
        IN  [opening |-> opening, debit |-> debit, credit |-> credit,
             closing |-> opening + debit - credit]]

\* Mutant of TrialReconciles: the check is made for selected accounts only.
TrialReconcilesNever(q, r) == TRUE

\* A report on the whole company must add up.
TrialReconciles(q, r) ==
    q.accounts = {} =>
        /\ Sum(DOMAIN r, LAMBDA a : r[a].opening) = 0
        /\ Sum(DOMAIN r, LAMBDA a : r[a].debit) = Sum(DOMAIN r, LAMBDA a : r[a].credit)
        /\ Sum(DOMAIN r, LAMBDA a : r[a].closing) = 0

\* "The full-company ... source did not reconcile".
SourceReconciles(L) == Rounded(Sum(L, LAMBDA i : Line[i].balance)) = 0

IncomeTypes == {"income", "income_other"}
ExpenseTypes == {"expense", "expense_depreciation", "expense_direct_cost"}

\* _balance_group.
BalanceGroup(type) ==
    CASE type \in {"asset_cash", "asset_receivable"} -> "asset"
      [] type \in {"liability_payable"} -> "liability"
      [] type \in {"equity", "equity_unaffected"} -> "equity"
      [] type \in IncomeTypes \cup ExpenseTypes \cup {"off_balance"} -> "none"

\* The accounts with a line that has a share in the request.
Touched(q, L, types) ==
    {a \in Accounts : Type[a] \in types /\ \E i \in On(L, a) : Factor(q, i) # 0}

\* Mutant of ProfitAndLoss: an expense has the sign of an income.
ProfitAndLossUnsigned(q, L) ==
    [a \in Touched(q, L, IncomeTypes \cup ExpenseTypes) |->
        LET debit == Rounded(Sum(On(L, a), LAMBDA i : Debit(i) * Factor(q, i)) \div 100)
            credit == Rounded(Sum(On(L, a), LAMBDA i : Credit(i) * Factor(q, i)) \div 100)
        IN  credit - debit]

\* get_profit_and_loss: the signed balance of every income and expense account.
ProfitAndLoss(q, L) ==
    [a \in Touched(q, L, IncomeTypes \cup ExpenseTypes) |->
        LET debit == Rounded(Sum(On(L, a), LAMBDA i : Debit(i) * Factor(q, i)) \div 100)
            credit == Rounded(Sum(On(L, a), LAMBDA i : Credit(i) * Factor(q, i)) \div 100)
        IN  IF Type[a] \in IncomeTypes THEN credit - debit ELSE debit - credit]

NetProfit(r) ==
    Sum({a \in DOMAIN r : Type[a] \in IncomeTypes}, LAMBDA a : r[a])
        - Sum({a \in DOMAIN r : Type[a] \in ExpenseTypes}, LAMBDA a : r[a])

AccountBalance(q, L, a) ==
    Rounded(Sum(On(L, a), LAMBDA i : Line[i].balance * Factor(q, i)) \div 100)

\* get_balance_sheet: the signed balances, and the unclosed earnings.
BalanceSheet(q, L) ==
    [a \in {b \in Touched(q, L, {Type[b] : b \in Accounts}) : BalanceGroup(Type[b]) # "none"} |->
        IF BalanceGroup(Type[a]) = "asset" THEN AccountBalance(q, L, a)
                                           ELSE -AccountBalance(q, L, a)]

UnclosedEarnings(q, L) ==
    Rounded(-Sum(Touched(q, L, IncomeTypes \cup ExpenseTypes), LAMBDA a : AccountBalance(q, L, a)))

\* total_assets - total_liabilities - total_equity.
Difference(q, L) ==
    LET r == BalanceSheet(q, L)
        total(group) == Sum({a \in DOMAIN r : BalanceGroup(Type[a]) = group}, LAMBDA a : r[a])
    IN  Rounded(total("asset") - total("liability") - (total("equity") + UnclosedEarnings(q, L)))

\* Mutant of AsOf: later reconciliations of the credit side are forgotten.
AsOfDebitOnly(row, P) ==
    row.residual + Sum({p \in P : Partial[p].debit = row.id}, LAMBDA p : Partial[p].amount)

\* The residual of a line as of the date, undoing the later partials P.
AsOf(row, P) ==
    row.residual + Sum({p \in P : Partial[p].debit = row.id}, LAMBDA p : Partial[p].amount)
                 - Sum({p \in P : Partial[p].credit = row.id}, LAMBDA p : Partial[p].amount)

\* _bucket.
Bucket(due, asOf) ==
    LET overdue == asOf - due IN
    CASE overdue <= 0 -> "not_yet_due"
      [] overdue > 0 /\ overdue <= 30 -> "days_1_30"
      [] overdue > 30 /\ overdue <= 60 -> "days_31_60"
      [] overdue > 60 /\ overdue <= 90 -> "days_61_90"
      [] overdue > 90 -> "days_90_plus"

Buckets == <<"not_yet_due", "days_1_30", "days_31_60", "days_61_90", "days_90_plus">>

\* get_aged_balance: per partner, the open residuals by bucket.
AgedBalance(q, R, P) ==
    LET open == {row \in R : AsOf(row, P) # 0} IN
    [k \in {Line[row.id].partner : row \in open} |->
        [b \in 1..5 |->
            Sum({row \in open : Line[row.id].partner = k
                                /\ Bucket(Line[row.id].due, q.end) = Buckets[b]},
                LAMBDA row : AsOf(row, P))]]

\* The same of its amount in the currency of its move.
ForeignAsOf(row, P) ==
    row.foreign + Sum({p \in P : Partial[p].debit = row.id}, LAMBDA p : Partial[p].debitForeign)
                - Sum({p \in P : Partial[p].credit = row.id}, LAMBDA p : Partial[p].creditForeign)

Size(v) == IF v < 0 THEN -v ELSE v

DueOf(m) == Max({Line[i].due : i \in LinesOf(m)})

\* list_open_documents: what is open of a document in either currency.
OpenDocuments(q, M, R, P) ==
    LET of(m) == {row \in R : Line[row.id].move = m}
        company(m) == Sum(of(m), LAMBDA row : AsOf(row, P))
        record(m) == Sum(of(m), LAMBDA row : ForeignAsOf(row, P))
        late(m) == Max({q.end - DueOf(m), 0})
    IN  [m \in {n \in {k.id : k \in M} : /\ company(n) # 0 \/ record(n) # 0
                                         /\ q.overdue => late(n) # 0} |->
            [company |-> Size(company(m)), record |-> Size(record(m)), late |-> late(m)]]

\* get_cashbook: the lines of the period and the balances around them.
Cashbook(q, L) ==
    LET opening == Sum({i \in L : Line[i].date < q.start}, LAMBDA i : Line[i].balance)
        period == {i \in L : Line[i].date >= q.start}
    IN  [i \in period |-> [amount |-> Line[i].balance, opening |-> opening,
                           closing |-> opening + Sum(period, Debit) - Sum(period, Credit)]]

\* list_journal_entries: every listed entry is read again with its lines.
JournalEntries(E) == [m \in {e.id : e \in E} |-> (CHOOSE e \in E : e.id = m).state]

Ids(S) == {row.id : row \in S}

\* The report of the rows read, and whether it is refused.
Computed(q, r) ==
    CASE q.kind = "trial_balance" -> TrialBalance(q, Ids(r.lines))
      [] q.kind = "profit_and_loss" -> ProfitAndLoss(q, Ids(r.lines))
      [] q.kind = "balance_sheet" -> BalanceSheet(q, Ids(r.lines))
      [] q.kind = "aged_balance" -> AgedBalance(q, r.lines, Ids(r.partials))
      [] q.kind = "open_documents" -> OpenDocuments(q, r.moves, r.lines, Ids(r.partials))
      [] q.kind = "cashbook" -> Cashbook(q, Ids(r.lines))
      [] q.kind = "journal_entries" -> JournalEntries(r.entries)

Accepted(q, r) ==
    CASE q.kind = "trial_balance" -> TrialReconciles(q, TrialBalance(q, Ids(r.lines)))
      [] q.kind = "profit_and_loss" -> SourceReconciles(Ids(r.lines))
      [] q.kind = "balance_sheet" ->
            SourceReconciles(Ids(r.lines)) /\ (q.analytic \/ Difference(q, Ids(r.lines)) = 0)
      [] OTHER -> TRUE

----------------------------------------------------------------------------
NoRows == [moves |-> {}, lines |-> {}, partials |-> {}, entries |-> {}]

Init ==
    /\ posted \in SUBSET Moves
    /\ applied = {}
    /\ changes = 0
    /\ request \in Requests
    /\ stage = "idle"
    /\ cursor = 0
    /\ rows = NoRows
    /\ report = <<>>
    /\ shown = <<>>
    /\ moments = {Moment}
    /\ session = {Moment}

\* accounting_report up to the operation; the client may be asking for the
\* page after the ones it has.
Begin ==
    /\ stage = "idle"
    /\ stage' = Head(Stages(request.kind))
    /\ cursor' = 0
    /\ rows' = NoRows
    /\ moments' = {Moment}
    /\ UNCHANGED <<odoo, request, report, shown, session>>

NextStage(kind, s) ==
    LET n == CHOOSE k \in 1..Len(Stages(kind)) : Stages(kind)[k] = s
    IN  IF n = Len(Stages(kind)) THEN "compute" ELSE Stages(kind)[n + 1]

\* One page of one model.
ReadPage ==
    /\ stage \in {"moves", "lines", "partials"}
    /\ LET S == Selected(request, stage)
           page == PageAfter(S, cursor)
       IN  /\ rows' = [rows EXCEPT ![stage] = @ \cup {RowOf(stage, i) : i \in page}]
           /\ IF Unsafe(Ids(rows[stage]), page)
              THEN stage' = "failed" /\ UNCHANGED cursor
              ELSE IF HasMore(S, cursor)
              THEN cursor' = Max(page) /\ UNCHANGED stage
              ELSE cursor' = 0 /\ stage' = NextStage(request.kind, stage)
    /\ UNCHANGED <<odoo, request, report, shown, moments, session>>

Smallest(S) == Min(S)

\* Mutant of Slice: it starts one row early.
SliceOverlapping(keys, offset) ==
    SubSeq(keys, Max({1, offset}), Smallest({Max({1, offset}) + Limit - 1, Len(keys)}))

\* _page: the rows from the offset of the cursor on.
Slice(keys, offset) == SubSeq(keys, offset + 1, Smallest({offset + Limit, Len(keys)}))

\* get_journal_entry for one entry of the page asked for.
ReadEntry ==
    /\ stage = "entries"
    /\ LET page == Slice(InOrder(Ids(rows.moves), <), Len(shown))
           left == Range(page) \ Ids(rows.entries)
       IN  IF left = {}
           THEN stage' = "compute" /\ UNCHANGED rows
           ELSE /\ rows' = [rows EXCEPT !.entries = @ \cup {RowOf("entries", Min(left))}]
                /\ UNCHANGED stage
    /\ UNCHANGED <<odoo, request, cursor, report, shown, moments, session>>

\* What the rows of the whole report are about.
Keys(q, r) ==
    InOrder(IF q.kind = "journal_entries" THEN Ids(r.moves) ELSE DOMAIN Computed(q, r), <)

\* The report is computed and one page of it is answered and recorded.
Answer ==
    /\ stage = "compute"
    /\ LET r == Computed(request, rows)
           keys == Keys(request, rows)
       IN  IF Accepted(request, rows) /\ Len(shown) <= Len(keys)
           THEN /\ report' = r
                /\ shown' = shown \o Slice(keys, Len(shown))
                /\ stage' = IF Len(shown') < Len(keys) THEN "idle" ELSE "done"
           ELSE stage' = "failed" /\ UNCHANGED <<report, shown>>
    /\ UNCHANGED <<odoo, request, cursor, rows, moments, session>>

\* Odoo users.
Happens ==
    /\ changes < MaxChanges
    /\ changes' = changes + 1
    /\ moments' = moments \cup {Moment'}
    /\ session' = session \cup {Moment'}
    /\ UNCHANGED reader

PostMove(m) == m \notin posted /\ posted' = posted \cup {m} /\ UNCHANGED applied /\ Happens

Reconcile(p) ==
    /\ p \notin applied
    /\ {Line[Partial[p].debit].move, Line[Partial[p].credit].move} \subseteq posted
    /\ applied' = applied \cup {p}
    /\ UNCHANGED posted
    /\ Happens

Next ==
    \/ Begin \/ ReadPage \/ ReadEntry \/ Answer
    \/ \E m \in Moves : PostMove(m)
    \/ \E p \in DOMAIN Partial : Reconcile(p)

Spec == Init /\ [][Next]_vars

----------------------------------------------------------------------------
\* What the reports should say of the moment t, from the ledger alone.

Visible(t) == {i \in LineIds : Line[i].move \in t.posted}

Balance(S) == Sum(S, LAMBDA i : Line[i].balance)

Before(S, d) == {i \in S : Line[i].date < d}

\* What is owed on a line at the end of day d.
OwedOn(t, i, d) == Residual(i, {p \in t.applied : Partial[p].date <= d})

DaysLate(i, d) == LET late == d - Line[i].due IN
                  IF late <= 0 THEN 1 ELSE Smallest({5, (late + 29) \div 30 + 1})

ExpectedTrialBalance(q, lines) ==
    LET V == {i \in Before(lines, q.end + 1) :
                q.accounts = {} \/ Line[i].account \in q.accounts}
    IN  [a \in q.accounts \cup {Line[i].account : i \in V} |->
            LET opening == Balance(Before(On(V, a), q.start))
                closing == Balance(On(V, a))
                credit == -Sum(On(V, a) \ Before(V, q.start), LAMBDA i : Min({Line[i].balance, 0}))
            IN  [opening |-> opening, debit |-> closing - opening + credit, credit |-> credit,
                 closing |-> closing]]

ExpectedAged(q, t) ==
    LET V == {i \in Before(Visible(t), q.end + 1) : Type[Line[i].account] = "asset_receivable"}
        owed == {i \in V : OwedOn(t, i, q.end) # 0}
    IN  [k \in {Line[i].partner : i \in owed} |->
            [b \in 1..5 |-> Sum({i \in owed : Line[i].partner = k /\ DaysLate(i, q.end) = b},
                                LAMBDA i : OwedOn(t, i, q.end))]]

ForeignOwedOn(t, i, d) == ForeignResidual(i, {p \in t.applied : Partial[p].date <= d})

\* A document is late from the day after it is due.
ExpectedOpen(q, t) ==
    LET V(m) == {i \in LinesOf(m) : Type[Line[i].account] = "asset_receivable"}
        owed(m) == Size(Sum(V(m), LAMBDA i : OwedOn(t, i, q.end)))
        foreign(m) == Size(Sum(V(m), LAMBDA i : ForeignOwedOn(t, i, q.end)))
        due(m) == CHOOSE d \in {Line[i].due : i \in LinesOf(m)} :
                    \A i \in LinesOf(m) : Line[i].due <= d
        invoiced(m) == \E i \in LinesOf(m) : Line[i].invoice /\ Line[i].date <= q.end
        listed == {m \in t.posted : /\ invoiced(m)
                                    /\ owed(m) + foreign(m) > 0
                                    /\ q.overdue => due(m) < q.end}
    IN  [m \in listed |-> [company |-> owed(m), record |-> foreign(m),
                           late |-> IF due(m) < q.end THEN q.end - due(m) ELSE 0]]

\* Within one unit on every account, as debit and credit are rounded apart.
NearlyEarned(q, lines, r) ==
    \A a \in Accounts :
        Type[a] \in IncomeTypes \cup ExpenseTypes =>
            LET S == {i \in lines : Line[i].account = a /\ q.start <= Line[i].date
                                    /\ Line[i].date <= q.end}
                exact == Sum(S, LAMBDA i : Line[i].balance * Factor(q, i)) \div 100
                told == IF a \notin DOMAIN r THEN 0
                        ELSE IF Type[a] \in IncomeTypes THEN -r[a] ELSE r[a]
            IN  told - exact <= Increment /\ exact - told <= Increment

\* To half a unit, with the sign of its group.
NearlyHeld(q, lines, r) ==
    \A a \in Accounts :
        BalanceGroup(Type[a]) # "none" =>
            LET S == On(Before(lines, q.end + 1), a)
                exact == Sum(S, LAMBDA i : Line[i].balance * Factor(q, i)) \div 100
                told == IF a \notin DOMAIN r THEN 0
                        ELSE IF BalanceGroup(Type[a]) = "asset" THEN r[a] ELSE -r[a]
            IN  2 * (told - exact) <= Increment /\ 2 * (exact - told) <= Increment

\* What the reports of whole companies should say of some lines.
OfCompany == {"trial_balance", "profit_and_loss", "balance_sheet"}

SaysOf(q, r, lines) ==
    CASE q.kind = "trial_balance" -> r = ExpectedTrialBalance(q, lines)
      [] q.kind = "profit_and_loss" -> NearlyEarned(q, lines, r)
      [] q.kind = "balance_sheet" -> NearlyHeld(q, lines, r)

Says(q, r, t) ==
    CASE q.kind \in OfCompany -> SaysOf(q, r, Visible(t))
      [] q.kind = "aged_balance" -> r = ExpectedAged(q, t)
      [] q.kind = "open_documents" -> r = ExpectedOpen(q, t)
      [] q.kind = "cashbook" ->
            \A i \in DOMAIN r :
                r[i].closing = Balance({j \in Before(Visible(t), q.end + 1) :
                                          Type[Line[j].account] = "asset_cash"})
      [] q.kind = "journal_entries" ->
            \A m \in DOMAIN r :
                r[m] \in q.states /\ (r[m] = "posted" <=> m \in t.posted)

Answered == stage = "done" \/ (stage = "idle" /\ shown # <<>>)

\* A report that nothing happened to while it was read says what the ledger
\* says: opening and closing balances, residuals as of the date whatever was
\* reconciled later, and ageing by days overdue (reports.py, cashbook.py,
\* invoicing.py, journals.py).
QuietReportExact ==
    Answered /\ Cardinality(moments) = 1 => \A t \in moments : Says(request, report, t)

\* The lines of the move m after the id c, which a page border at c leaves to
\* be seen when m is posted there: none, all, or a part in between.
TailOf(m, c) == {i \in LinesOf(m) : i > c}

\* A whole-company trial balance, profit and loss or balance sheet that was
\* read while one move was posted shows, besides what was there, nothing of
\* that move, all of it, or a tail of its lines that balances on its own;
\* a move no tail of which balances is so seen whole or not at all.  This
\* is as far as the full-company checks of reports.py go: they see the sum
\* of the lines, and do not notice half a move that is in balance.
PostingSeenBalanced ==
    /\ Answered
    /\ Cardinality(moments) = 2
    /\ request.accounts = {}
    /\ request.kind \in OfCompany
    => LET before == {i \in LineIds : \A t \in moments : i \in Visible(t)}
       IN  \E m \in posted, c \in LineIds \cup {0} :
              /\ Balance(TailOf(m, c)) = 0
              /\ SaysOf(request, report, before \cup TailOf(m, c))

\* A client that pages through a report to its end while nothing changes gets
\* every row once and in order (_page, next_cursor).
PagesCover ==
    stage = "done" /\ Cardinality(session) = 1 => shown = Keys(request, rows)

\* The profit and loss from the first day on is the unclosed earnings of the
\* balance sheet of that day, whatever has been posted: the two reports
\* classify accounts apart from each other (_pnl_group, _balance_group).
EarningsAgree ==
    LET L == {i \in LineIds : BalanceSheetLine(request, i)}
        q == [request EXCEPT !.analytic = FALSE]
    IN  NetProfit(ProfitAndLoss(q, L)) = UnclosedEarnings(q, L)

----------------------------------------------------------------------------
\* The invariant behind PagesCover.

Quiet == session = {Moment}

\* What a report of this kind reads first.
MovesFirst == request.kind \in {"open_documents", "journal_entries"}

WholeMoves == IF MovesFirst THEN Selected(request, "moves") ELSE {}

WholeLines ==
    CASE request.kind = "journal_entries" -> {}
      [] request.kind = "open_documents" ->
            {i \in LineIds : /\ Line[i].move \in WholeMoves
                             /\ Type[Line[i].account] = "asset_receivable"}
      [] OTHER -> {i \in LineIds : Selects(request, i)}

WholePartials ==
    IF request.kind \in {"aged_balance", "open_documents"} THEN Selected(request, "partials") ELSE {}

RowsOf(s, S) == {RowOf(s, i) : i \in S}

\* What a report reads when nobody else is about.
Whole == [moves |-> RowsOf("moves", WholeMoves), lines |-> RowsOf("lines", WholeLines),
          partials |-> RowsOf("partials", WholePartials), entries |-> {}]

LedgerTypeOK ==
    /\ posted \subseteq Moves /\ applied \subseteq DOMAIN Partial
    /\ request \in Requests
    /\ stage \in {Stages(request.kind)[k] : k \in 1..Len(Stages(request.kind))}
                    \cup {"idle", "compute", "done", "failed"}
    /\ cursor \in Nat
    /\ DOMAIN rows = {"moves", "lines", "partials", "entries"}
    /\ Moment \in session /\ IsFiniteSet(session)

UpToCursor(S) == {i \in S : i <= cursor}

\* A stage that has been left was read whole, and one that has not been
\* reached not at all; the stage in hand is read up to the cursor.
RowsInv ==
    Quiet =>
        /\ stage = "moves" => rows = [NoRows EXCEPT !.moves = RowsOf("moves", UpToCursor(WholeMoves))]
        /\ stage = "lines" => rows = [NoRows EXCEPT !.moves = Whole.moves,
                                                    !.lines = RowsOf("lines", UpToCursor(WholeLines))]
        /\ stage = "partials" =>
              rows = [Whole EXCEPT !.partials = RowsOf("partials", UpToCursor(WholePartials))]
        /\ stage \in {"entries", "compute", "done"} =>
              rows.moves = Whole.moves /\ rows.lines = Whole.lines /\ rows.partials = Whole.partials

\* The client has the first rows of the one report there is to get.
ShownInv ==
    Quiet => LET keys == Keys(request, Whole) IN
             /\ Len(shown) \in 0..Len(keys) /\ shown = SubSeq(keys, 1, Len(shown))
             /\ stage = "done" => shown = keys

PagesInv == LedgerTypeOK /\ RowsInv /\ ShownInv
=============================================================================
