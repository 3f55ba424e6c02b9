-------------------------- MODULE PayrollAnalysis ---------------------------
(***************************************************************************)
(* workflows/payroll/analysis.py: compare_payroll_periods,                 *)
(* analyze_employee_payroll_change, detect_payroll_anomalies,              *)
(* prepare_payroll_approval_pack and explain_payslip.                      *)
(*                                                                         *)
(* A snapshot of one period after the other is loaded while users of Odoo  *)
(* work, and then compared.  How the parts of a snapshot are read is the   *)
(* subject of PayrollEvidence and PayrollContext.  An amount that is not   *)
(* there is the empty set; contract facts are one value per employee, and  *)
(* work-entry hours one number.                                            *)
(***************************************************************************)
EXTENDS Integers, Sequences, FiniteSetsExt, SequencesExt

CONSTANTS
    Employees, Currencies,
    RuleInfo,     \* salary rule -> [category, code]
    Tools,        \* "compare", "analyze", "detect", "pack", "explain"
    Threshold,    \* of _THRESHOLDS, in percent
    MinHistory,   \* comparable values a statistical check needs
    MaxLines,     \* _MAX_LINES, over all snapshots
    InitialSource,
    MaxWrites     \* bound on the steps of Odoo users

PayrollAnalysisAssumption == Threshold \in Nat /\ MinHistory \in Nat

Rules == DOMAIN RuleInfo
Codes == {"BASIC", "GROSS", "NET"}

VARIABLES
    source,   \* per period: [slips, lines, facts, hours, conflicts]; no fact is 0;
              \* a line is [id, slip, rule, edition, total], a slip
              \* [id, emp, currency, state, contract]
    writes,
    tool,
    pc,       \* "load", "judge" or "segments", "answered" or "refused"
    got,      \* the snapshots loaded
    answer,
    stirred   \* history: a user wrote since the call began

vars == <<source, writes, tool, pc, got, answer, stirred>>

NoAnswer == [payslips |-> {}, rules |-> {}, categories |-> {}, recognized |-> {}, changed |-> {},
             findings |-> {}]

\* The periods: the baseline, the target, and the history.
Baseline == 1
Target == 2
Needed == IF tool = "detect" THEN Len(source) ELSE 2

----------------------------------------------------------------------------
Abs(x) == IF x < 0 THEN -x ELSE x
SumOf(lines) == MapThenSumSet(LAMBDA l : l.total, lines)

\* A line as it is read, with the employee and the currency of its payslip.
LineOfSlip(l, s) ==
    [id |-> l.id, slip |-> s.id, emp |-> s.emp, currency |-> s.currency, rule |-> l.rule,
     edition |-> l.edition, total |-> l.total]

\* Mutant of LinesOf: the lines of every payslip of the same employees.
LinesOfEmployees(p, slips) ==
    UNION {{LineOfSlip(l, s) : l \in {k \in source[p].lines : k.slip = s.id}} :
              s \in {x \in source[p].slips : \E y \in slips : y.emp = x.emp}}

\* _all_lines: those of the payslips selected.
LinesOf(p, slips) ==
    UNION {{LineOfSlip(l, s) : l \in {k \in source[p].lines : k.slip = s.id}} : s \in slips}

\* _validate_line_metadata: lines of one rule say the same of it.
OneEdition(lines) == \A k, l \in lines : k.rule = l.rule => k.edition = l.edition

\* _load_snapshot: cancelled payslips have no part in it, and the context is
\* that of the employees it names.
Snapshot(p) ==
    LET slips == {s \in source[p].slips : s.state # "cancelled" /\ (tool = "analyze" => s.emp = 1)}
        emps == {s.emp : s \in slips}
    IN  [slips |-> slips,
         lines |-> LinesOf(p, slips),
         facts |-> [e \in emps |-> source[p].facts[e]],
         hours |-> [e \in emps |-> source[p].hours[e]],
         conflicts |-> [e \in emps |-> source[p].conflicts[e]]]

Names(s) == DOMAIN s.facts
CurrenciesOf(s, e) == {x.currency : x \in {y \in s.slips : y.emp = e}}

\* _line_aggregates: the lines of a rule, for an employee paid in one currency.
Mixed(s) == \E e \in Names(s) : Cardinality({l.currency : l \in {k \in s.lines : k.emp = e}}) > 1

Rows(s, e, r) == {l \in s.lines : l.emp = e /\ l.rule = r}
Aggregate(s, e, r) == IF Rows(s, e, r) = {} THEN {} ELSE {SumOf(Rows(s, e, r))}
CurrencyOf(s, e, r) == {l.currency : l \in Rows(s, e, r)}

Value(amount) == IF amount = {} THEN 0 ELSE CHOOSE v \in amount : TRUE

\* _line_changes: employees of both periods; nothing is compared across
\* currencies.
LineChanges(b, t) ==
    {c \in {[emp |-> e, rule |-> r, before |-> Aggregate(b, e, r), after |-> Aggregate(t, e, r),
             comparable |-> \/ CurrencyOf(b, e, r) = {} \/ CurrencyOf(t, e, r) = {}
                            \/ CurrencyOf(b, e, r) = CurrencyOf(t, e, r)] :
                e \in Names(b) \cap Names(t), r \in Rules} :
        /\ c.before # c.after
        /\ ~(c.before = {} /\ Value(c.after) = 0) /\ ~(c.after = {} /\ Value(c.before) = 0)}

\* _contract_changes and _work_entry_hours; nothing counts as none.
Fact(s, e) == IF e \in Names(s) THEN s.facts[e] ELSE 0
Hours(s, e) == IF e \in Names(s) THEN s.hours[e] ELSE 0
ContractChanges(b, t) == {e \in Names(b) \cup Names(t) : Fact(b, e) # Fact(t, e)}
HoursChanged(b, t) == {e \in Names(b) \cup Names(t) : Hours(b, e) # Hours(t, e)}

\* Mutant of ChangedEmployees: the hours are forgotten.
ChangedEmployeesPaid(b, t) ==
    {c.emp : c \in LineChanges(b, t)} \cup ContractChanges(b, t)
        \cup (Names(b) \ Names(t)) \cup (Names(t) \ Names(b))

\* changed_ids.
ChangedEmployees(b, t) ==
    {c.emp : c \in LineChanges(b, t)} \cup ContractChanges(b, t) \cup HoursChanged(b, t)
        \cup (Names(b) \ Names(t)) \cup (Names(t) \ Names(b))

----------------------------------------------------------------------------
Compared(key, before, after) == [key |-> key, before |-> SumOf(before), after |-> SumOf(after)]

\* _payslip_totals: by employee and currency, also of a payslip with no line.
PayslipTotals(b, t) ==
    LET own(s, k) == {l \in s.lines : l.emp = k[1] /\ l.currency = k[2]}
    IN  {Compared(k, own(b, k), own(t, k)) :
            k \in {<<x.emp, x.currency>> : x \in b.slips \cup t.slips}}

\* _rule_totals: by currency and rule.
RuleTotals(b, t) ==
    LET own(s, k) == {l \in s.lines : l.rule = k[1] /\ l.currency = k[2]}
    IN  {Compared(k, own(b, k), own(t, k)) :
            k \in {<<l.rule, l.currency>> : l \in b.lines \cup t.lines}}

\* Mutant of CategoryTotals: the currencies of a category are added up.
CategoryTotalsMixed(b, t) ==
    LET own(s, k) == {l \in s.lines : RuleInfo[l.rule].category = k[1]}
    IN  {Compared(k, own(b, k), own(t, k)) :
            k \in {<<RuleInfo[l.rule].category, l.currency>> : l \in b.lines \cup t.lines}}

\* _category_totals: by currency and category.
CategoryTotals(b, t) ==
    LET own(s, k) == {l \in s.lines : RuleInfo[l.rule].category = k[1] /\ l.currency = k[2]}
    IN  {Compared(k, own(b, k), own(t, k)) :
            k \in {<<RuleInfo[l.rule].category, l.currency>> : l \in b.lines \cup t.lines}}

\* _recognized_value: exactly one rule may carry the code.
Recognized(lines, code) ==
    LET own == {l \in lines : RuleInfo[l.rule].code = code}
    IN  IF Cardinality({l.rule : l \in own}) # 1 THEN {}
        ELSE {<<code, c, SumOf({l \in own : l.currency = c})>> : c \in {l.currency : l \in own}}

----------------------------------------------------------------------------
Finding(code, e, r) == [code |-> code, emp |-> e, rule |-> r]

\* _base_findings.
BaseFindings(b, t) ==
    {Finding("new_employee", e, 0) : e \in Names(t) \ Names(b)}
    \cup {Finding("missing_employee", e, 0) : e \in Names(b) \ Names(t)}
    \cup {Finding("employee_count_change", 0, 0) :
              x \in {1} \cap {IF Cardinality(Names(b)) = Cardinality(Names(t)) THEN 0 ELSE 1}}
    \cup {Finding("contract_change", e, 0) : e \in ContractChanges(b, t)}
    \cup {Finding("rule_line_added", c.emp, c.rule) : c \in {d \in LineChanges(b, t) : d.before = {}}}
    \cup {Finding("rule_line_removed", c.emp, c.rule) : c \in {d \in LineChanges(b, t) : d.after = {}}}
    \cup {Finding("currency_change", e, 0) :
              e \in {x \in Names(b) \cap Names(t) : CurrenciesOf(b, x) # CurrenciesOf(t, x)}}

\* Mutant of Deviates: the threshold itself does not count.
DeviatesBeyond(before, after) ==
    before # 0 /\ Abs(after - before) * 100 > Threshold * Abs(before)

\* (target - baseline) / abs(baseline) * 100 meets the threshold.
Deviates(before, after) ==
    before # 0 /\ Abs(after - before) * 100 >= Threshold * Abs(before)

\* _threshold_findings.
ThresholdFindings(b, t) ==
    {Finding("monetary_deviation", c.emp, c.rule) :
        c \in {d \in LineChanges(b, t) : /\ d.before # {} /\ d.after # {} /\ d.comparable
                                         /\ Deviates(Value(d.before), Value(d.after))}}
    \cup {Finding("hours_deviation", e, 0) :
              e \in {x \in Names(b) \cup Names(t) : Deviates(Hours(b, x), Hours(t, x))}}

\* _work_entry_conflict_findings.
ConflictFindings(t) ==
    {Finding("work_entry_conflict", e, 0) : e \in {x \in Names(t) : t.conflicts[x] > 0}}

\* Mutant of Median2: one past the middle.
Median2Late(values) ==
    LET s == SortSeq(values, LAMBDA x, y : x < y)
        m == Len(s) \div 2
    IN  IF Len(s) % 2 = 1 THEN 2 * s[m + 1] ELSE s[m + 1] + s[Min({m + 2, Len(s)})]

\* _median, twice, to stay with whole numbers.
Median2(values) ==
    LET s == SortSeq(values, LAMBDA x, y : x < y)
        m == Len(s) \div 2
    IN  IF Len(s) % 2 = 1 THEN 2 * s[m + 1] ELSE s[m] + s[m + 1]

\* What history has of a line of the target, in its currency.
Comparable(t, histories, e, r) ==
    LET kept == SelectSeq(histories, LAMBDA h : CurrencyOf(h, e, r) = CurrencyOf(t, e, r))
    IN  [k \in 1..Len(kept) |-> Value(Aggregate(kept[k], e, r))]

\* 0.6745 * (target - median) / MAD reaches 3.5, both sides times 4 * 10000.
Outlying(x, values) ==
    LET centre == Median2(values)
        spread == Median2([k \in 1..Len(values) |-> Abs(2 * values[k] - centre)])
    IN  spread # 0 /\ 6745 * 2 * Abs(2 * x - centre) >= 35000 * spread

\* _statistical_findings.
StatisticalFindings(t, histories) ==
    {Finding("statistical_deviation", k[1], k[2]) :
        k \in {n \in Names(t) \X Rules :
                  LET values == Comparable(t, histories, n[1], n[2])
                  IN  /\ Rows(t, n[1], n[2]) # {}
                      /\ Len(values) >= MinHistory
                      /\ Outlying(Value(Aggregate(t, n[1], n[2])), values)}}

Findings(b, t, histories) ==
    BaseFindings(b, t)
        \cup (IF tool \in {"detect", "pack"} THEN ThresholdFindings(b, t) \cup ConflictFindings(t)
              ELSE {})
        \cup (IF tool = "detect" THEN StatisticalFindings(t, histories) ELSE {})

----------------------------------------------------------------------------
Init ==
    /\ source \in InitialSource
    /\ writes = 0
    /\ tool \in Tools
    /\ pc = "load"
    /\ got = <<>>
    /\ answer = NoAnswer
    /\ stirred = FALSE

\* _comparison_snapshots and the loop over history_periods: one period after
\* the other.  A period without a payslip is not found, lines that do not agree
\* on a rule are inconsistent, and the lines of all periods together are
\* bounded (_enforce_combined_caps).
Load ==
    /\ pc = "load" /\ tool # "explain"
    /\ LET snapshot == Snapshot(Len(got) + 1)
           lines == MapThenSumSet(LAMBDA k : Cardinality(got[k].lines), DOMAIN got)
                        + Cardinality(snapshot.lines)
       IN  IF \/ source[Len(got) + 1].slips = {} \/ lines > MaxLines
              \/ ~OneEdition(snapshot.lines)
           THEN pc' = "refused" /\ UNCHANGED got
           ELSE /\ got' = Append(got, snapshot)
                /\ pc' = IF Len(got') = Needed THEN "judge" ELSE "load"
    /\ UNCHANGED <<source, writes, tool, answer, stirred>>

\* analyze_employee_payroll_change wants payslips in a period, and a contract
\* wherever there are payslips.
Incomparable(b, t) ==
    /\ tool = "analyze"
    /\ \/ b.slips = {} /\ t.slips = {}
       \/ \E s \in {b, t} : \E e \in Names(s) : s.facts[e] = 0

\* What is told of the snapshots.
Judge ==
    /\ pc = "judge"
    /\ LET b == got[Baseline]
           t == got[Target]
           histories == SubSeq(got, 3, Len(got))
       IN  IF Incomparable(b, t) \/ \E k \in DOMAIN got : Mixed(got[k])
           THEN pc' = "refused" /\ UNCHANGED answer
           ELSE /\ pc' = "answered"
                /\ answer' = [payslips |-> PayslipTotals(b, t), rules |-> RuleTotals(b, t),
                              categories |-> CategoryTotals(b, t),
                              recognized |-> UNION {Recognized(t.lines, c) : c \in Codes},
                              changed |-> ChangedEmployees(b, t),
                              findings |-> Findings(b, t, histories)]
    /\ UNCHANGED <<source, writes, tool, got, stirred>>

\* explain_payslip: first get_payslip, of employee 1 in the target period,
\* with its lines,
ReadPayslip ==
    /\ pc = "load" /\ tool = "explain"
    /\ LET slips == {s \in source[Target].slips : s.emp = 1}
       IN  \/ \E s \in slips :
                 IF OneEdition(LinesOf(Target, {s}))
                 THEN /\ pc' = "segments"
                      /\ got' = <<[lines |-> {}],
                                  [slips |-> {s}, lines |-> LinesOf(Target, {s})]>>
                 ELSE pc' = "refused" /\ UNCHANGED got
           \/ slips = {} /\ pc' = "refused" /\ UNCHANGED got
    /\ UNCHANGED <<source, writes, tool, answer, stirred>>

\* then the contracts, which are either missing or include the payslip's own.
Explain ==
    /\ pc = "segments"
    /\ LET lines == got[Target].lines
           fact == source[Target].facts[1]
       IN  IF fact # 0 /\ \A s \in got[Target].slips : s.contract # fact
           THEN pc' = "refused" /\ UNCHANGED answer
           ELSE /\ pc' = "answered"
                /\ answer' = [NoAnswer EXCEPT
                                 !.categories = CategoryTotals(got[Baseline], got[Target]),
                                 !.recognized = UNION {Recognized(lines, c) : c \in Codes}]
    /\ UNCHANGED <<source, writes, tool, got, stirred>>

\* A user of Odoo edits a line, cancels a payslip or changes a contract.
EditLine(p, l, v) ==
    /\ writes < MaxWrites
    /\ writes' = writes + 1
    /\ source' = [source EXCEPT ![p].lines = (@ \ {l}) \cup {[l EXCEPT !.total = v]}]
    /\ stirred' = TRUE
    /\ UNCHANGED <<tool, pc, got, answer>>

Cancel(p, s) ==
    /\ writes < MaxWrites
    /\ writes' = writes + 1
    /\ source' = [source EXCEPT ![p].slips = (@ \ {s}) \cup {[s EXCEPT !.state = "cancelled"]}]
    /\ stirred' = TRUE
    /\ UNCHANGED <<tool, pc, got, answer>>

ChangeContract(p, e, f) ==
    /\ writes < MaxWrites
    /\ writes' = writes + 1
    /\ source' = [source EXCEPT ![p].facts[e] = f]
    /\ stirred' = TRUE
    /\ UNCHANGED <<tool, pc, got, answer>>

Next ==
    \/ Load \/ Judge \/ ReadPayslip \/ Explain
    \/ \E p \in {Baseline, Target} :
           \/ \E l \in source[p].lines, v \in {20, 22} : EditLine(p, l, v)
           \/ \E s \in source[p].slips : Cancel(p, s)
           \/ \E e \in Employees : ChangeContract(p, e, 2)

Spec == Init /\ [][Next]_vars

----------------------------------------------------------------------------
\* The sum of a grouping for a currency.
Before(totals, c) == MapThenSumSet(LAMBDA x : x.before, {x \in totals : x.key[2] = c})
After(totals, c) == MapThenSumSet(LAMBDA x : x.after, {x \in totals : x.key[2] = c})

\* What Odoo holds for it on some payslips of a period.
Held(p, slips, c) ==
    SumOf({l \in source[p].lines : \E s \in slips : s.id = l.slip /\ s.currency = c})

Live(p) == {s \in source[p].slips : s.state # "cancelled"}

\* README: "Monetary comparisons never combine or convert currencies".  The
\* totals by payslip, by rule and by category are three groupings of the same
\* lines: in every currency they come to the same sums.  When nobody disturbed
\* the call these are what Odoo holds on the payslips that are not cancelled;
\* a cancelled payslip of somebody who has another has no part in them.
TotalsAgree ==
    pc = "answered" =>
        \A c \in Currencies :
            /\ ~stirred /\ tool = "explain" =>
                   After(answer.categories, c) = Held(Target, got[Target].slips, c)
            /\ tool # "explain" =>
                   /\ Before(answer.payslips, c) = Before(answer.rules, c)
                   /\ Before(answer.rules, c) = Before(answer.categories, c)
                   /\ After(answer.payslips, c) = After(answer.rules, c)
                   /\ After(answer.rules, c) = After(answer.categories, c)
            /\ ~stirred /\ tool \notin {"explain", "analyze"} =>
                   /\ Before(answer.rules, c) = Held(Baseline, Live(Baseline), c)
                   /\ After(answer.rules, c) = Held(Target, Live(Target), c)

\* An employee who is neither listed as changed nor has a change of currency
\* has, in both snapshots, the same total on every salary rule (a line of
\* nothing is no line), the same contract facts and the same hours.
UnchangedIsUnchanged ==
    pc = "answered" /\ tool # "explain" =>
        \A e \in (Names(got[Baseline]) \cup Names(got[Target])) \ answer.changed :
            \/ Finding("currency_change", e, 0) \in answer.findings
            \/ /\ \A r \in Rules, c \in Currencies :
                      SumOf({l \in Rows(got[Baseline], e, r) : l.currency = c}) =
                          SumOf({l \in Rows(got[Target], e, r) : l.currency = c})
               /\ got[Baseline].facts[e] = got[Target].facts[e]
               /\ got[Baseline].hours[e] = got[Target].hours[e]

LineCodes == {"rule_line_added", "rule_line_removed", "monetary_deviation"}

\* README: "fixed public percentage thresholds".  For an employee of both
\* periods paid in one currency, a line that moved by the threshold or more,
\* came or went is found exactly once; one that moved by less, or from
\* nothing, is not.
EveryMoveFoundOnce ==
    pc = "answered" /\ tool \in {"detect", "pack"} =>
        LET b == got[Baseline]
            t == got[Target]
        IN  \A e \in Names(b) \cap Names(t), r \in Rules :
                CurrenciesOf(b, e) = CurrenciesOf(t, e) =>
                    LET before == SumOf(Rows(b, e, r))
                        after == SumOf(Rows(t, e, r))
                    IN  Cardinality({f \in answer.findings :
                                        f.code \in LineCodes /\ f.emp = e /\ f.rule = r}) =
                            IF before # after /\
                               (IF before = 0 THEN Rows(b, e, r) = {}
                                ELSE Abs(after - before) * 100 >= Threshold * Abs(before))
                            THEN 1 ELSE 0

\* m is a median of the values: half of them on either side (twice).
Splits(m, values) ==
    /\ 2 * Cardinality({k \in DOMAIN values : 2 * values[k] <= m}) >= Len(values)
    /\ 2 * Cardinality({k \in DOMAIN values : 2 * values[k] >= m}) >= Len(values)

\* README: "Statistical checks require six comparable history values and an
\* absolute modified z-score of at least 3.5".  What is reported as a
\* statistical deviation is one: around a median of at least six values, half
\* of the history lies within the fifth part of the target's distance, and no
\* more than half on the median itself.
DeviationJustified ==
    pc = "answered" =>
        \A f \in {g \in answer.findings : g.code = "statistical_deviation"} :
            LET values == Comparable(got[Target], SubSeq(got, 3, Len(got)), f.emp, f.rule)
                x == 2 * Value(Aggregate(got[Target], f.emp, f.rule))
                near(m) == {k \in DOMAIN values : 35000 * Abs(2 * values[k] - m) <= 6745 * Abs(x - m)}
            IN  /\ Len(values) >= 6
                /\ \E m \in {values[j] + values[k] : j, k \in DOMAIN values} :
                       /\ Splits(m, values)
                       /\ 2 * Cardinality(near(m)) >= Len(values)
                       /\ 2 * Cardinality({k \in DOMAIN values : 2 * values[k] = m}) <= Len(values)
=============================================================================
