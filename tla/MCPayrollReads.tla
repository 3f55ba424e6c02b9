--------------------------- MODULE MCPayrollReads ---------------------------
(***************************************************************************)
(* Small instances of the payroll tools that read, for TLC.                *)
(***************************************************************************)
EXTENDS PayrollReads, CollectPages

VARIABLE scene   \* which of the scenes below; it does not change

----------------------------------------------------------------------------
\* Two payslips in two periods and currencies, two rules of one category.
Payslip(p, s, m, c) == [period |-> p, state |-> s, member |-> m, currency |-> c, wd |-> 0]
Child(n, i, r, v) == [id |-> n, slip |-> i, of |-> r, edition |-> 1, value |-> v, wd |-> 0]

\* The second rule was revised after the first payslip was calculated.
Payroll(covers, one, other) ==
    [run |-> [there |-> TRUE, covers |-> covers, wd |-> 0],
     slip |-> <<one, other>>,
     line |-> {Child(1, 1, 1, 1), [Child(2, 1, 2, 3) EXCEPT !.edition = 0], Child(3, 2, 1, 5)},
     input |-> {},
     types |-> <<>>]

\* With a batch, and with none.
NoInputs ==
    {Payroll({1, 2}, Payslip(1, "done", TRUE, "EUR"), Payslip(1, "done", TRUE, "EUR")),
     Payroll({1, 2}, Payslip(1, "done", TRUE, "EUR"), Payslip(2, "cancelled", TRUE, "USD")),
     [Payroll({1}, Payslip(1, "done", FALSE, "EUR"), Payslip(2, "draft", FALSE, "USD"))
         EXCEPT !.run.there = FALSE]}

WithInputs ==
    {[s EXCEPT !.input = {Child(1, 1, "bonus", 4), Child(2, 1, "hours", 6), Child(3, 1, "worked", 8)},
               !.types = [bonus |-> "amount", hours |-> "quantity"]] : s \in NoInputs}

MCPayrolls == NoInputs \cup WithInputs

List(t, states, scope, p, i) ==
    [tool |-> t, states |-> states, scope |-> scope, period |-> p, slip |-> i]

MCEvidenceRequests ==
    {List("periods", {"done", "cancelled"}, "window", 0, 0),
     List("batch", {"done"}, "batch", 0, 0),
     List("batch", {"done", "cancelled"}, "batch", 0, 0),
     List("payslips", {"done"}, "both", 1, 0),
     List("payslips", {"done", "draft"}, "period", 1, 0),
     List("rules", {"done"}, "batch", 0, 0),
     List("payslip", {}, "slip", 0, 1)}

MCCategory == <<1, 1>>

----------------------------------------------------------------------------
\* Contracts and work entries around a period of the days 2 to 4.
Contract(n, e, r, s, f) == [id |-> n, emp |-> e, rev |-> r, start |-> s, finish |-> f, wd |-> 0]
Entry(n, e, f, t, c, h, s) ==
    [id |-> n, emp |-> e, from |-> f, to |-> t, contract |-> c, hours |-> h, state |-> s, wd |-> 0]

\* Every history of two contracts or versions of one employee, and a third.
ContractHistories ==
    {[version |-> v, contracts |-> {Contract(1, 1, r1, s1, f1), Contract(2, 1, r2, s2, f2)} \cup third,
      entries |-> {}] :
        v \in {18, 19}, r1 \in 1..3, s1 \in 1..3, f1 \in {0, 1, 3}, r2 \in 2..4, s2 \in {1, 3, 5}, f2 \in {0, 4, 5},
        third \in {{}, {Contract(3, 1, 4, 4, 0)}, {Contract(3, 1, 5, 1, 0)}}}

\* Two employees with entries, in Odoo 18 perhaps one that began before.
WorkEntries(v) ==
    {[version |-> v, contracts |-> {Contract(1, 1, 1, 1, 0), Contract(2, 2, 2, 1, 5)},
      entries |-> {Entry(1, 1, 2, 2, 1, 8, "draft"), Entry(2, 1, 3, 3, 1, 4, "validated"),
                   Entry(3, 2, 4, 4, 2, 8, "draft")} \cup more] :
        more \in {{}, {Entry(4, 2, IF v = 18 THEN 1 ELSE 2, 2, 2, 3, "draft")}}}

MCHistories == ContractHistories \cup WorkEntries(18) \cup WorkEntries(19)

MCNewContracts == {Contract(4, 1, 3, 1, 0)}

MCContextRequests ==
    {[tool |-> t, states |-> {"draft", "validated"}] : t \in {"attendance", "snapshot"}}
    \cup {[tool |-> "context", states |-> {}]}

----------------------------------------------------------------------------
\* Two rules of one category; employee 1 varies, employee 2 comes and goes.
SlipOf(e, c) == [id |-> e, emp |-> e, currency |-> c, state |-> "done", contract |-> 1]
LineOf(n, i, r, v) == [id |-> n, slip |-> i, rule |-> r, edition |-> 1, total |-> v]

\* The lines of employee 1: an amount or none for each rule.
Lines1(a, b) == {LineOf(1, 1, 1, v) : v \in a} \cup {LineOf(2, 1, 2, v) : v \in b}

Amounts == {{}, {0}, {20}, {21}, {-20}}
Lines2 == {LineOf(3, 2, 1, 7), LineOf(4, 2, 2, 5)}

Month(c, a, b, second, fact, hours, conflicts) ==
    [slips |-> {SlipOf(1, c)} \cup (IF second THEN {SlipOf(2, "EUR")} ELSE {}),
     lines |-> Lines1(a, b) \cup (IF second THEN Lines2 ELSE {}),
     facts |-> <<fact, 1>>, hours |-> <<hours, 8>>, conflicts |-> <<conflicts, 0>>]

ManyComparisons ==
    {<<Month("EUR", a1, b1, second, 1, 20, 0), Month(c, a2, b2, TRUE, fact, hours, conflicts)>> :
        a1 \in Amounts, a2 \in Amounts, b1 \in {{}, {20}}, b2 \in {{20}, {21}},
        c \in {"EUR", "USD"}, second \in BOOLEAN, fact \in {1, 2}, hours \in {20, 21},
        conflicts \in {0, 1}}

\* Employee 1 has a second payslip in the target period.
Second(c, state, edition) ==
    [Month("EUR", {20}, {21}, TRUE, 1, 20, 0) EXCEPT
        !.slips = @ \cup {[SlipOf(1, c) EXCEPT !.id = 3, !.state = state]},
        !.lines = @ \cup {[LineOf(9, 3, 1, 20) EXCEPT !.edition = edition]}]

\* A few, for users who write in the middle: one payslip each; a second one,
\* in another currency, cancelled, or calculated before the rule was revised;
\* and none.
FewComparisons ==
    {<<Month("EUR", {20}, {0}, TRUE, 1, 20, 0), Month(c, {21}, {20}, TRUE, fact, 21, 0)>> :
        c \in {"EUR", "USD"}, fact \in {0, 1}}
    \cup {<<Month("EUR", {20}, {20}, TRUE, 1, 20, 0), target>> :
              target \in {Second("USD", "done", 1), Second("USD", "cancelled", 1),
                          Second("EUR", "cancelled", 1), Second("EUR", "done", 0),
                          [Month("EUR", {20}, {21}, TRUE, 1, 20, 0) EXCEPT !.slips = {}]}}

\* Histories of five to seven values, one rule.
Plain(v) == Month("EUR", {v}, {}, FALSE, 1, 20, 0)
AmountHistories ==
    {<<Plain(10), Plain(x)>> \o [k \in 1..Len(h) |-> Plain(h[k])] :
        x \in {4, 30}, h \in [1..6 -> {9, 10, 20}] \cup [1..5 -> {9, 20}] \cup [1..7 -> {9, 11}]}

MCComparisons == ManyComparisons \cup FewComparisons \cup AmountHistories

MCRuleInfo == <<[category |-> 1, code |-> "BASIC"], [category |-> 1, code |-> "NET"]>>

----------------------------------------------------------------------------
\* One model, collected; lists, and one payslip; contracts in every history, and
\* attendance among users; comparisons of every kind, a few of them among
\* users, and statistics.
Scenes == {"collected", "lists", "payslip", "contracts", "attendance", "compared", "disturbed",
           "statistics"}

PartOf == [collected |-> "collected", lists |-> "evidence", payslip |-> "evidence",
           contracts |-> "context", attendance |-> "context", compared |-> "analysis",
           disturbed |-> "analysis", statistics |-> "analysis"]

\* What the scene asks, and whether its users write.
Asked ==
    /\ scene = "lists" => request.tool # "payslip"
    /\ scene = "payslip" => request.tool = "payslip"
    /\ scene = "contracts" => request.tool = "context" /\ writes = 0
    /\ scene = "compared" => tool \in {"compare", "detect", "pack"} /\ writes = 0
    /\ scene = "statistics" => tool = "detect" /\ writes = 0

CollectionAtRest ==
    /\ table = AtRest /\ edits = AtRest /\ stage = AtRest /\ count = AtRest /\ rows = AtRest
    /\ anchors = AtRest /\ began = AtRest /\ atRecount = AtRest /\ outcome = AtRest
    /\ cursor = AtRest /\ seen = AtRest /\ items = AtRest /\ total = AtRest /\ since = AtRest
    /\ first = AtRest

MCInit ==
    /\ scene \in Scenes /\ part = PartOf[scene]
    /\ \/ /\ scene = "collected" /\ CollectInit
          /\ PagingAtRest /\ CallAtRest /\ EvidenceAtRest /\ ContextAtRest /\ AnalysisAtRest
       \/ /\ scene # "collected" /\ CollectionAtRest
          /\ AllInit
          /\ Asked
    /\ scene \in {"lists", "payslip"} => (input = {}) = (scene = "lists")
    /\ scene \in {"contracts", "attendance"} => (entries = {}) = (scene = "contracts")
    /\ scene = "compared" => months \in ManyComparisons
    /\ scene = "disturbed" => months \in FewComparisons
    /\ scene = "statistics" => months \in AmountHistories

MCNext ==
    /\ UNCHANGED scene
    /\ \/ scene = "collected" /\ CollectNext /\ UNCHANGED allVars
       \/ scene # "collected" /\ AllNext /\ Asked' /\ UNCHANGED <<vars, collector>>

MCSpec == MCInit /\ [][MCNext]_<<allVars, vars, collector, scene>>
=============================================================================
