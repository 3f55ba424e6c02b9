------------------------ MODULE PayrollWrites_proofs ------------------------
(***************************************************************************)
(* Proofs about PayrollWrites, for any sets of requests, processes, input  *)
(* types and values, any initial inputs and any number of edits.           *)
(***************************************************************************)
EXTENDS PayrollWrites, FiniteSetTheorems, TLAPS

\* The highest id of an input at the start.
LEMMA InitialIds == Cardinality(InitialInputs) \in Nat
  BY PayrollAssumption, FS_CardinalityType

\* What a request asks for is well typed.
LEMMA AskTypes ==
  ASSUME NEW r \in Requests
  PROVE  /\ Op(r) \in Operations
         /\ Ask[r].process \in Processes
         /\ Ask[r].type \in Types
         /\ Ask[r].value \in Values
         /\ Ask[r].sets \subseteq Fields
         /\ Ask[r].input \in Nat
         /\ Passes(r) \in {4, 5}
  <1>1. Ask[r] \in AskType
    BY PayrollAssumption
  <1> QED
    BY <1>1 DEF AskType, Op, Passes, PreparePasses

\* _exact_input: what Find returns is one of the rows, or nothing.
LEMMA FindFacts ==
  ASSUME NEW rows, NEW id, Find(rows, id) # NoRow
  PROVE  Find(rows, id) \in rows /\ Find(rows, id).id = id
  BY DEF Find

\* A row Odoo creates is an input, younger than every other.
LEMMA NewRowType ==
  ASSUME TypeOK, NEW r \in Requests
  PROVE  /\ NewRow(r) \in Row
         /\ NewRow(r).write_date = writes + 1
         /\ NewRow(r).id = writes + 1 + Cardinality(InitialInputs)
  BY InitialIds, AskTypes DEF NewRow, Row, TypeOK

\* A row Odoo writes keeps its id and its type, and is dated anew.
LEMMA WrittenType ==
  ASSUME TypeOK, NEW r \in Requests, NEW row \in Row
  PROVE  /\ Written(r, row) \in Row
         /\ Written(r, row).write_date = writes + 1
         /\ Written(r, row).id = row.id
  <1>1. DOMAIN row = {"id", "type", "name", "amount", "write_date"}
    BY DEF Row
  <1>2. Ask[r].sets \subseteq {"name", "amount"} /\ Ask[r].value \in Values
    BY AskTypes DEF Fields
  <1>3. /\ Written(r, row).id = row.id
        /\ Written(r, row).type = row.type
        /\ Written(r, row).write_date = writes + 1
        /\ Written(r, row).name \in {row.name, Ask[r].value}
        /\ Written(r, row).amount \in {row.amount, Ask[r].value}
    BY <1>1, <1>2 DEF Written
  <1>4. Written(r, row) = [id |-> Written(r, row).id, type |-> Written(r, row).type,
                           name |-> Written(r, row).name, amount |-> Written(r, row).amount,
                           write_date |-> Written(r, row).write_date]
    BY <1>1 DEF Written
  <1>5. /\ row.id \in Nat /\ row.type \in Types /\ row.name \in Values
        /\ row.amount \in Values /\ writes + 1 \in Nat
    BY DEF Row, TypeOK
  <1> QED
    BY <1>2, <1>3, <1>4, <1>5 DEF Row

----------------------------------------------------------------------------
(* What a write of Odoo, whoever asked for it, does to the inputs. *)

InputsStep ==
  /\ inputs' \subseteq Row
  /\ \A i \in inputs' : i \in inputs \/ i.write_date = writes + 1
  /\ \A i, j \in inputs' : i.id = j.id => i = j
  /\ \A i \in inputs' : /\ i.write_date <= writes + 1
                        /\ i.id <= writes + 1 + Cardinality(InitialInputs)

\* Inputs that are not touched, or removed, are those of before.
LEMMA DropInputs ==
  ASSUME TypeOK, inputs' \subseteq inputs
  PROVE  InputsStep
  <1>1. \A i \in inputs : i.id \in Nat /\ i.write_date \in Nat
    BY DEF TypeOK, Row
  <1>2. writes \in Nat /\ Cardinality(InitialInputs) \in Nat
    BY InitialIds DEF TypeOK
  <1>3. \A i \in inputs : /\ i.write_date <= writes + 1
                          /\ i.id <= writes + 1 + Cardinality(InitialInputs)
    BY <1>1, <1>2 DEF TypeOK
  <1> QED
    BY <1>3 DEF InputsStep, TypeOK

\* An input is added, with an id that was never given out.
LEMMA AddInput ==
  ASSUME TypeOK, NEW row \in Row, row.write_date = writes + 1,
         row.id = writes + 1 + Cardinality(InitialInputs),
         inputs' = inputs \cup {row}
  PROVE  InputsStep
  <1>1. \A i \in inputs : i.id \in Nat /\ i.write_date \in Nat
    BY DEF TypeOK, Row
  <1>2. writes \in Nat /\ Cardinality(InitialInputs) \in Nat
    BY InitialIds DEF TypeOK
  <1>3. \A i \in inputs : /\ i.write_date <= writes + 1
                          /\ i.id <= writes + 1 + Cardinality(InitialInputs)
                          /\ i.id # row.id
    BY <1>1, <1>2 DEF TypeOK
  <1>4. \A i \in inputs' : /\ i.write_date <= writes + 1
                           /\ i.id <= writes + 1 + Cardinality(InitialInputs)
    BY <1>2, <1>3
  <1>5. \A i, j \in inputs' : i.id = j.id => i = j
    BY <1>3 DEF TypeOK
  <1>6. inputs' \subseteq Row /\ \A i \in inputs' : i \in inputs \/ i.write_date = writes + 1
    BY DEF TypeOK
  <1> QED
    BY <1>4, <1>5, <1>6 DEF InputsStep

\* An input is replaced by one with its id, dated anew.
LEMMA ReplaceInput ==
  ASSUME TypeOK, NEW old \in inputs, NEW row \in Row, row.write_date = writes + 1,
         row.id = old.id,
         \A i \in inputs' : i = row \/ (i \in inputs /\ i # old)
  PROVE  InputsStep
  <1>1. \A i \in inputs : i.id \in Nat /\ i.write_date \in Nat
    BY DEF TypeOK, Row
  <1>2. writes \in Nat /\ Cardinality(InitialInputs) \in Nat
    BY InitialIds DEF TypeOK
  <1>3. \A i \in inputs : /\ i.write_date <= writes + 1
                          /\ i.id <= writes + 1 + Cardinality(InitialInputs)
                          /\ i # old => i.id # old.id
    BY <1>1, <1>2 DEF TypeOK
  <1>4. \A i \in inputs' : /\ i.write_date <= writes + 1
                           /\ i.id <= writes + 1 + Cardinality(InitialInputs)
    BY <1>2, <1>3
  <1>5. \A i, j \in inputs' : i.id = j.id => i = j
    BY <1>3 DEF TypeOK
  <1>6. inputs' \subseteq Row /\ \A i \in inputs' : i \in inputs \/ i.write_date = writes + 1
    BY DEF TypeOK
  <1> QED
    BY <1>4, <1>5, <1>6 DEF InputsStep

\* The mutation of a request, applied by Odoo.
LEMMA LandInputs ==
  ASSUME TypeOK, NEW r \in Requests, Land(r)
  PROVE  InputsStep
  <1> DEFINE row == Find(inputs, Ask[r].input)
  <1>1. CASE Op(r) = "create"
    <2>1. inputs' = inputs \cup {NewRow(r)}
      BY <1>1 DEF Land
    <2> QED
      BY <2>1, NewRowType, AddInput
  <1>2. CASE Op(r) = "update"
    <2>1. row \in inputs /\ row \in Row
      BY <1>2, FindFacts DEF Land, TypeOK
    <2>2. inputs' = Others(inputs, row.id) \cup {Written(r, row)}
      BY <1>2 DEF Land
    <2>3. \A i \in inputs' : i = Written(r, row) \/ (i \in inputs /\ i # row)
      BY <2>2 DEF Others
    <2> QED
      BY <2>1, <2>3, WrittenType, ReplaceInput
  <1>3. CASE Op(r) = "remove"
    <2>1. inputs' = Others(inputs, row.id)
      BY <1>3 DEF Land
    <2> QED
      BY <2>1, DropInputs DEF Others
  <1>4. CASE Op(r) = "recalculate"
    <2>1. inputs' = inputs
      BY <1>4 DEF Land
    <2> QED
      BY <2>1, DropInputs
  <1> QED
    BY <1>1, <1>2, <1>3, <1>4, AskTypes DEF Operations

\* An edit by an Odoo user.
LEMMA EditInputs ==
  ASSUME TypeOK, Edit
  PROVE  InputsStep
  <1>1. CASE \E i \in inputs, f \in Fields, v \in Values :
               inputs' = (inputs \ {i}) \cup {[i EXCEPT ![f] = v, !.write_date = writes + 1]}
    <2>1. PICK i \in inputs, f \in Fields, v \in Values :
               inputs' = (inputs \ {i}) \cup {[i EXCEPT ![f] = v, !.write_date = writes + 1]}
      BY <1>1
    <2> DEFINE new == [i EXCEPT ![f] = v, !.write_date = writes + 1]
    <2>2. i \in Row /\ writes + 1 \in Nat
      BY DEF TypeOK
    <2>3. new \in Row /\ new.write_date = writes + 1 /\ new.id = i.id
      <3>1. CASE f = "name"
        BY <2>2, <3>1 DEF Row
      <3>2. CASE f = "amount"
        BY <2>2, <3>2 DEF Row
      <3> QED
        BY <3>1, <3>2 DEF Fields
    <2> HIDE DEF new
    <2>4. \A j \in inputs' : j = new \/ (j \in inputs /\ j # i)
      BY <2>1 DEF new
    <2> QED
      BY <2>3, <2>4, ReplaceInput
  <1>2. CASE \E t \in Types, v \in Values :
               inputs' = inputs \cup {[id |-> writes + 1 + Cardinality(InitialInputs), type |-> t,
                                       name |-> v, amount |-> v, write_date |-> writes + 1]}
    <2>1. PICK t \in Types, v \in Values :
               inputs' = inputs \cup {[id |-> writes + 1 + Cardinality(InitialInputs), type |-> t,
                                       name |-> v, amount |-> v, write_date |-> writes + 1]}
      BY <1>2
    <2> DEFINE new == [id |-> writes + 1 + Cardinality(InitialInputs), type |-> t,
                       name |-> v, amount |-> v, write_date |-> writes + 1]
    <2>2. /\ new \in Row /\ new.write_date = writes + 1
          /\ new.id = writes + 1 + Cardinality(InitialInputs)
      BY InitialIds DEF TypeOK, Row
    <2> QED
      BY <2>1, <2>2, AddInput
  <1>3. CASE \E i \in inputs : inputs' = inputs \ {i}
    BY <1>3, DropInputs
  <1> QED
    BY <1>1, <1>2, <1>3 DEF Edit

----------------------------------------------------------------------------
(* Types. *)

Stages == {"new", "slip", "inputs", "lines", "send", "wait", "back", "done"}
StepType == [at : Stages, pass : 0 .. 5]

\* The part of TypeOK about where the requests are.
StepsOK ==
  /\ step \in [Requests -> StepType]
  /\ \A r \in Requests : step[r].at \in Reading => step[r].pass \in 1 .. Passes(r)

\* The payslip starts as a draft with unique inputs and no write on the way.
LEMMA InitTypeOK == Init => TypeOK
  <1> SUFFICES ASSUME Init PROVE TypeOK
    OBVIOUS
  <1>1. NoPlan \in PlanType
    BY DEF NoPlan, SlipRow, PlanType
  <1>2. plan \in [Requests -> PlanType]
    BY <1>1 DEF Init
  <1>3. slip \in SlipRow
    BY DEF Init, SlipRow
  <1>4. \A i, j \in inputs : i.id = j.id => i = j
    BY PayrollAssumption DEF Init
  <1>5. \A i \in inputs : i.write_date <= writes /\ i.id <= writes + Cardinality(InitialInputs)
    <2>1. \A i \in inputs : i.write_date = 0 /\ i.id \in 1 .. Cardinality(InitialInputs)
      BY PayrollAssumption DEF Init
    <2> QED
      BY <2>1, InitialIds DEF Init
  <1>6. /\ step \in [Requests -> [at : {"new", "slip", "inputs", "lines", "send", "wait",
                                        "back", "done"}, pass : 0 .. 5]]
        /\ \A r \in Requests : step[r].at = "new"
    BY DEF Init
  <1>7. landed \in [Requests -> [inputs : SUBSET Row, at : Nat]]
    BY DEF Init
  <1>8. inputs \subseteq Row /\ active \subseteq Processes
    BY PayrollAssumption DEF Init
  <1>9. /\ mutation \in [Requests -> MutationType]
        /\ seen \in [Requests -> Row \cup SlipRow \cup {NoRow}]
        /\ outcome \in [Requests -> {"none", "failed", "unknown", "succeeded"}]
        /\ writes \in Nat /\ edits \in Nat /\ lines \in Nat
    BY DEF Init, MutationType
  <1> QED
    BY <1>2, <1>3, <1>4, <1>5, <1>6, <1>7, <1>8, <1>9 DEF TypeOK, Reading

\* A request moves on.
LEMMA GotoType ==
  ASSUME TypeOK, NEW r \in Requests, NEW where \in Stages, NEW pass \in 0 .. 5,
         where \in Reading => pass \in 1 .. Passes(r), Goto(r, where, pass)
  PROVE  StepsOK'
  <1>1. step \in [Requests -> StepType]
    BY DEF TypeOK, StepType, Stages
  <1>2. [at |-> where, pass |-> pass] \in StepType
    BY DEF StepType
  <1>3. step' \in [Requests -> StepType]
    BY <1>1, <1>2 DEF Goto
  <1>4. /\ step'[r].at = where /\ step'[r].pass = pass
        /\ \A q \in Requests : q # r => step'[q] = step[q]
    BY <1>1 DEF Goto
  <1> QED
    BY <1>3, <1>4 DEF StepsOK, TypeOK, Passes, PreparePasses, Op

\* A request that returns is done, and its caller is told.
LEMMA ReturnType ==
  ASSUME TypeOK, NEW r \in Requests, NEW result \in {"failed", "unknown", "succeeded"},
         Return(r, result)
  PROVE  /\ StepsOK'
         /\ outcome' \in [Requests -> {"none", "failed", "unknown", "succeeded"}]
         /\ active' \subseteq Processes
  <1>1. StepsOK'
    BY GotoType DEF Return, Stages, Reading
  <1> QED
    BY <1>1 DEF Return, Released, TypeOK

\* After the last read of a snapshot comes the next snapshot, or the mutation.
LEMMA PassDoneType ==
  ASSUME TypeOK, NEW r \in Requests, step[r].at \in Reading, PassDone(r)
  PROVE  StepsOK'
  <1>1. step[r].pass \in 1 .. Passes(r) /\ Passes(r) \in {4, 5}
    BY AskTypes DEF TypeOK
  <1>2. CASE step[r].pass = Passes(r)
    BY <1>2, GotoType DEF PassDone, Stages, Reading
  <1>3. CASE step[r].pass # Passes(r)
    <2>1. step[r].pass + 1 \in 0 .. 5 /\ step[r].pass + 1 \in 1 .. Passes(r)
      BY <1>1, <1>3
    <2>2. Goto(r, "slip", step[r].pass + 1)
      BY <1>3 DEF PassDone
    <2> QED
      BY <2>1, <2>2, GotoType DEF Stages
  <1> QED
    BY <1>2, <1>3

\* What the read-back remembers is a row, a payslip or nothing.
LEMMA RememberedType ==
  ASSUME TypeOK, NEW r \in Requests, NEW read
  PROVE  Remembered(r, read) \in Row \cup SlipRow \cup {NoRow}
  <1>1. Find(inputs, TargetId(r)) \in Row \cup {NoRow}
    BY FindFacts DEF TypeOK
  <1>2. seen[r] \in Row \cup SlipRow \cup {NoRow} /\ slip \in SlipRow
    BY DEF TypeOK
  <1> QED
    BY <1>1, <1>2 DEF Remembered

\* The read-back of every operation has at most five reads.
LEMMA ReadBackLength ==
  ASSUME NEW r \in Requests
  PROVE  Len(ReadBack(r)) \in {3, 5}
  <1>1. CASE Op(r) \in {"create", "update"}
    BY <1>1 DEF ReadBack
  <1>2. CASE Op(r) = "remove"
    BY <1>2 DEF ReadBack
  <1>3. CASE Op(r) = "recalculate"
    BY <1>3 DEF ReadBack
  <1> QED
    BY <1>1, <1>2, <1>3, AskTypes DEF Operations

\* Every step keeps the types.
LEMMA StepTypeOK == TypeOK /\ [Next]_vars => TypeOK'
  <1> SUFFICES ASSUME TypeOK, [Next]_vars PROVE TypeOK'
    OBVIOUS
  <1>a. StepsOK
    BY DEF TypeOK, StepsOK, StepType, Stages
  <1>b. ASSUME StepsOK', UNCHANGED <<odoo, edits, plan, seen, mutation, landed>>,
               outcome' \in [Requests -> {"none", "failed", "unknown", "succeeded"}],
               active' \subseteq Processes
        PROVE  TypeOK'
    BY <1>b DEF TypeOK, StepsOK, StepType, Stages, odoo
  <1>c. ASSUME UNCHANGED <<step>> PROVE StepsOK'
    BY <1>a, <1>c DEF StepsOK, Passes, PreparePasses, Op
  <1>1. ASSUME NEW r \in Requests, Submit(r) PROVE TypeOK'
    <2>1. CASE Goto(r, "slip", 1) /\ active' = active \cup {Ask[r].process} /\ UNCHANGED outcome
      <3>1. StepsOK'
        BY <2>1, AskTypes, GotoType DEF Stages
      <3> QED
        BY <1>1, <1>b, <2>1, <3>1, AskTypes DEF Submit, TypeOK
    <2>2. CASE Goto(r, "done", 0) /\ outcome' = [outcome EXCEPT ![r] = "failed"] /\ UNCHANGED active
      <3>1. StepsOK'
        BY <2>2, GotoType DEF Stages, Reading
      <3> QED
        BY <1>1, <1>b, <2>2, <3>1 DEF Submit, TypeOK
    <2> QED
      BY <1>1, <2>1, <2>2 DEF Submit
  <1>2. ASSUME NEW r \in Requests, NEW result \in {"failed", "unknown", "succeeded"},
               Return(r, result), UNCHANGED <<odoo, edits, plan, seen, mutation, landed>>
        PROVE  TypeOK'
    BY <1>2, <1>b, ReturnType
  <1>3. ASSUME NEW r \in Requests, ReadSlip(r) PROVE TypeOK'
    <2>1. CASE Editable(slip) /\ (step[r].pass = 1 \/ slip = plan[r].slip)
      <3>1. step[r].pass \in 1 .. Passes(r) /\ step[r].pass \in 0 .. 5
        BY <1>3 DEF ReadSlip, At, TypeOK, Reading
      <3>2. StepsOK'
        BY <1>3, <2>1, <3>1, GotoType DEF ReadSlip, Stages
      <3>3. plan' \in [Requests -> PlanType]
        <4>1. /\ plan \in [Requests -> PlanType] /\ slip \in SlipRow
              /\ writes \in Nat /\ lines \in Nat /\ inputs \in SUBSET Row
          BY DEF TypeOK
        <4>2. plan' = plan \/ plan' = [plan EXCEPT ![r].slip = slip, ![r].at = writes]
          BY <1>3, <2>1 DEF ReadSlip
        <4> QED
          BY <4>1, <4>2 DEF PlanType
      <3> QED
        BY <1>3, <2>1, <3>2, <3>3 DEF ReadSlip, TypeOK, StepsOK, StepType, Stages, odoo
    <2>2. CASE ~(Editable(slip) /\ (step[r].pass = 1 \/ slip = plan[r].slip))
      BY <1>3, <1>2, <2>2 DEF ReadSlip
    <2> QED
      BY <2>1, <2>2
  <1>4. ASSUME NEW r \in Requests, ReadInputs(r) PROVE TypeOK'
    <2> DEFINE pass == /\ DistinctTypes(inputs)
                       /\ IF step[r].pass = 1 THEN Plannable(r, inputs)
                                              ELSE inputs = plan[r].inputs
    <2>1. CASE pass
      <3>1. step[r].pass \in 1 .. Passes(r) /\ step[r].pass \in 0 .. 5 /\ step[r].at \in Reading
        BY <1>4 DEF ReadInputs, At, TypeOK, Reading
      <3>2. StepsOK'
        <4>1. CASE Op(r) = "recalculate"
          BY <1>4, <2>1, <3>1, <4>1, GotoType DEF ReadInputs, Stages
        <4>2. CASE Op(r) # "recalculate"
          BY <1>4, <2>1, <3>1, <4>2, PassDoneType DEF ReadInputs
        <4> QED
          BY <4>1, <4>2
      <3>3. plan' \in [Requests -> PlanType]
        <4>1. /\ plan \in [Requests -> PlanType] /\ slip \in SlipRow
              /\ writes \in Nat /\ lines \in Nat /\ inputs \in SUBSET Row
          BY DEF TypeOK
        <4>2. plan' = plan \/ plan' = [plan EXCEPT ![r].inputs = inputs]
          BY <1>4, <2>1 DEF ReadInputs
        <4> QED
          BY <4>1, <4>2 DEF PlanType
      <3> QED
        BY <1>4, <2>1, <3>2, <3>3 DEF ReadInputs, TypeOK, StepsOK, StepType, Stages, odoo
    <2>2. CASE ~pass
      BY <1>4, <1>2, <2>2 DEF ReadInputs
    <2> QED
      BY <2>1, <2>2
  <1>5. ASSUME NEW r \in Requests, ReadLines(r) PROVE TypeOK'
    <2>1. CASE step[r].pass = 1 \/ lines = plan[r].lines
      <3>1. StepsOK'
        BY <1>5, <2>1, PassDoneType DEF ReadLines, At, Reading
      <3>2. plan' \in [Requests -> PlanType]
        <4>1. /\ plan \in [Requests -> PlanType] /\ slip \in SlipRow
              /\ writes \in Nat /\ lines \in Nat /\ inputs \in SUBSET Row
          BY DEF TypeOK
        <4>2. plan' = plan \/ plan' = [plan EXCEPT ![r].lines = lines]
          BY <1>5, <2>1 DEF ReadLines
        <4> QED
          BY <4>1, <4>2 DEF PlanType
      <3> QED
        BY <1>5, <2>1, <3>1, <3>2 DEF ReadLines, TypeOK, StepsOK, StepType, Stages, odoo
    <2>2. CASE ~(step[r].pass = 1 \/ lines = plan[r].lines)
      BY <1>5, <1>2, <2>2 DEF ReadLines
    <2> QED
      BY <2>1, <2>2
  <1>6. ASSUME NEW r \in Requests, Send(r) PROVE TypeOK'
    <2>1. StepsOK'
      BY <1>6, GotoType DEF Send, Stages, Reading
    <2>2. mutation' \in [Requests -> MutationType]
      BY <1>6 DEF Send, TypeOK, MutationType
    <2> QED
      BY <1>6, <2>1, <2>2 DEF Send, TypeOK, StepsOK, StepType, Stages, odoo
  <1>7. ASSUME NEW r \in Requests, Answer(r) PROVE TypeOK'
    <2>1. CASE Goto(r, "back", 1) /\ UNCHANGED <<active, outcome>>
      <3>1. StepsOK'
        BY <2>1, GotoType DEF Stages, Reading
      <3> QED
        BY <1>7, <1>b, <2>1, <3>1 DEF Answer, TypeOK
    <2>2. CASE \E result \in {"failed", "unknown"} : Return(r, result)
      BY <1>7, <1>2, <2>2 DEF Answer
    <2> QED
      BY <1>7, <2>1, <2>2 DEF Answer
  <1>8. ASSUME NEW r \in Requests, Verify(r) PROVE TypeOK'
    <2>1. seen' \in [Requests -> Row \cup SlipRow \cup {NoRow}]
      BY <1>8, RememberedType DEF Verify, TypeOK
    <2>2. /\ StepsOK'
          /\ outcome' \in [Requests -> {"none", "failed", "unknown", "succeeded"}]
          /\ active' \subseteq Processes
      <3>1. CASE \E result \in {"unknown", "succeeded"} : Return(r, result)
        BY <3>1, ReturnType
      <3>2. CASE /\ step[r].pass < Len(ReadBack(r))
                 /\ Goto(r, "back", step[r].pass + 1) /\ UNCHANGED <<active, outcome>>
        <4>1. step[r].pass + 1 \in 0 .. 5
          <5>1. step[r].pass \in 0 .. 5
            BY DEF TypeOK
          <5>2. Len(ReadBack(r)) \in {3, 5} /\ step[r].pass < Len(ReadBack(r))
            BY <3>2, ReadBackLength
          <5>3. step[r].pass < 5
            <6>1. ASSUME NEW n \in {3, 5}, step[r].pass < n PROVE step[r].pass < 5
              BY <5>1, <6>1
            <6> QED
              BY <5>2, <6>1, Zenon
          <5> QED
            BY <5>1, <5>3
        <4>2. StepsOK'
          BY <3>2, <4>1, GotoType DEF Stages, Reading
        <4> QED
          BY <3>2, <4>2 DEF TypeOK
      <3> QED
        BY <1>8, <3>1, <3>2 DEF Verify
    <2> QED
      BY <1>8, <2>1, <2>2 DEF Verify, TypeOK, StepsOK, StepType, Stages, odoo
  <1>9. ASSUME NEW r \in Requests, GiveUp(r) PROVE TypeOK'
    BY <1>9, <1>2 DEF GiveUp, Unanswered
  <1>10. ASSUME NEW r \in Requests, Land(r) PROVE TypeOK'
    <2>1. InputsStep
      BY <1>10, LandInputs
    <2>2. slip' \in SlipRow /\ lines' \in Nat
      <3>1. CASE Op(r) = "recalculate"
        <4>1. lines' = writes + 1 /\ slip' = [state |-> ComputedState, write_date |-> writes + 1]
          BY <1>10, <3>1 DEF Land
        <4> QED
          BY <4>1 DEF TypeOK, SlipRow, ComputedState
      <3>2. CASE Op(r) # "recalculate"
        <4>1. UNCHANGED <<slip, lines>>
          BY <1>10, <3>2, AskTypes DEF Land, Operations
        <4> QED
          BY <4>1 DEF TypeOK
      <3> QED
        BY <3>1, <3>2
    <2>3. writes' = writes + 1 /\ writes' \in Nat
      BY <1>10 DEF Land, TypeOK
    <2>4. NewRow(r).id \in Nat
      BY NewRowType DEF Row
    <2>5. mutation' \in [Requests -> MutationType]
      BY <1>10, <2>4 DEF Land, TypeOK, MutationType
    <2>6. landed' \in [Requests -> [inputs : SUBSET Row, at : Nat]]
      BY <1>10 DEF Land, TypeOK
    <2>7. StepsOK' /\ UNCHANGED <<edits, active, step, plan, seen, outcome>>
      BY <1>10, <1>c DEF Land
    <2> QED
      BY <2>1, <2>2, <2>3, <2>5, <2>6, <2>7 DEF TypeOK, InputsStep, StepsOK, StepType, Stages
  <1>11. ASSUME NEW r \in Requests, Refuse(r) PROVE TypeOK'
    <2>1. mutation' \in [Requests -> MutationType]
      <3>1. mutation \in [Requests -> MutationType]
        BY DEF TypeOK
      <3>2. \E status \in {"denied", "error"} : mutation' = [mutation EXCEPT ![r].status = status]
        BY <1>11 DEF Refuse
      <3> QED
        BY <3>1, <3>2 DEF MutationType
    <2>2. StepsOK'
      BY <1>11, <1>c DEF Refuse
    <2> QED
      BY <1>11, <2>1, <2>2 DEF Refuse, TypeOK, StepsOK, StepType, Stages, odoo
  <1>12. ASSUME NEW p \in Processes, Crash(p) PROVE TypeOK'
    <2>1. step' \in [Requests -> StepType]
      BY <1>12, <1>a DEF Crash, StepsOK, StepType, Stages
    <2>2. StepsOK'
      BY <1>12, <1>a, <2>1 DEF Crash, StepsOK, Reading, Passes, PreparePasses, Op
    <2>3. outcome' \in [Requests -> {"none", "failed", "unknown", "succeeded"}]
      BY <1>12 DEF Crash, TypeOK
    <2> QED
      BY <1>12, <1>b, <2>2, <2>3 DEF Crash, TypeOK
  <1>13. CASE Edit
    <2>1. InputsStep
      BY <1>13, EditInputs
    <2>2. writes' = writes + 1 /\ writes' \in Nat /\ edits' \in Nat
      <3>1. writes' = writes + 1 /\ edits' = edits + 1
        BY <1>13 DEF Edit
      <3> QED
        BY <3>1 DEF TypeOK
    <2>3. StepsOK' /\ UNCHANGED <<slip, lines, active, step, plan, seen, mutation, landed, outcome>>
      BY <1>13, <1>c DEF Edit
    <2> QED
      BY <2>1, <2>2, <2>3 DEF TypeOK, InputsStep, StepsOK, StepType, Stages
  <1>14. CASE Transition \/ Recompute
    <2>1. InputsStep
      BY <1>14, DropInputs DEF Transition, Recompute
    <2>2. writes' = writes + 1 /\ writes' \in Nat /\ edits' \in Nat /\ lines' \in Nat
      BY <1>14 DEF Transition, Recompute, TypeOK
    <2>3. slip' \in SlipRow
      BY <1>14 DEF Transition, Recompute, TypeOK, SlipRow, ComputedState
    <2>4. StepsOK' /\ UNCHANGED <<active, step, plan, seen, mutation, landed, outcome>>
      BY <1>14, <1>c DEF Transition, Recompute
    <2> QED
      BY <2>1, <2>2, <2>3, <2>4 DEF TypeOK, InputsStep, StepsOK, StepType, Stages
  <1>15. CASE UNCHANGED vars
    BY <1>15, <1>b, <1>c DEF vars, odoo, TypeOK
  <1> QED
    BY <1>1, <1>3, <1>4, <1>5, <1>6, <1>7, <1>8, <1>9, <1>10, <1>11, <1>12, <1>13, <1>14,
       <1>15 DEF Next, Advance

(* Type correctness: every reachable state is well typed, input ids stay      *)
(* unique, and nothing is dated later than the last write.                    *)
THEOREM TypeCorrect == Spec => []TypeOK
  BY InitTypeOK, StepTypeOK, PTL DEF Spec

----------------------------------------------------------------------------
(* A write told to have failed has not landed and will not. *)

\* Where a request goes, nobody else goes.
LEMMA GotoFacts ==
  ASSUME TypeOK, NEW r \in Requests, NEW where, NEW pass, Goto(r, where, pass)
  PROVE  /\ step'[r].at = where /\ step'[r].pass = pass
         /\ \A q \in Requests \ {r} : step'[q] = step[q]
  BY DEF Goto, TypeOK

\* A request that returns.
LEMMA ReturnFacts ==
  ASSUME TypeOK, NEW r \in Requests, NEW result, Return(r, result)
  PROVE  /\ step'[r].at = "done"
         /\ outcome'[r] = result
         /\ \A q \in Requests \ {r} : step'[q] = step[q] /\ outcome'[q] = outcome[q]
         /\ active' = active \ {Ask[r].process}
  BY GotoFacts DEF Return, Released, TypeOK

\* The snapshot that follows, or the mutation.
LEMMA PassDoneFacts ==
  ASSUME TypeOK, NEW r \in Requests, PassDone(r), step[r].at \in Reading
  PROVE  /\ step'[r].at \in {"slip", "send"}
         /\ step'[r].at = "slip" => step'[r].pass # 1
         /\ \A q \in Requests \ {r} : step'[q] = step[q]
  <1>1. step[r].pass \in 1 .. Passes(r) /\ Passes(r) \in {4, 5}
    BY AskTypes DEF TypeOK
  <1>2. CASE step[r].pass = Passes(r)
    BY <1>2, GotoFacts DEF PassDone
  <1>3. CASE step[r].pass # Passes(r)
    <2>1. Goto(r, "slip", step[r].pass + 1) /\ step[r].pass + 1 # 1
      BY <1>1, <1>3 DEF PassDone
    <2> QED
      BY <2>1, GotoFacts
  <1> QED
    BY <1>2, <1>3

(* One read before the mutation either returns a failure, or moves on with    *)
(* only the first snapshot entering the plan.                                 *)
LEMMA ReadingStep ==
  ASSUME TypeOK, NEW r \in Requests, ReadSlip(r) \/ ReadInputs(r) \/ ReadLines(r)
  PROVE  /\ step[r].at \in Reading
         /\ \A q \in Requests \ {r} : step'[q] = step[q] /\ plan'[q] = plan[q]
         /\ UNCHANGED <<odoo, edits, seen, mutation, landed>>
         /\ \/ /\ step'[r].at \in Reading \cup {"send"}
               /\ UNCHANGED <<active, outcome>>
               /\ At(r, "slip") /\ step[r].pass = 1 => plan'[r].at = writes
               /\ ~(At(r, "slip") /\ step[r].pass = 1) => plan'[r].at = plan[r].at
               /\ At(r, "slip") \/ step'[r].at # "slip" \/ step'[r].pass # 1
               /\ At(r, "slip") => step'[r].at # "slip"
               /\ plan'[r].inputs \in {plan[r].inputs, inputs}
            \/ /\ Return(r, "failed")
               /\ plan'[r] = plan[r]
  <1>1. step[r].at \in Reading
    BY DEF ReadSlip, ReadInputs, ReadLines, At, Reading
  <1>2. plan \in [Requests -> PlanType]
    BY DEF TypeOK
  <1>3. UNCHANGED <<odoo, edits, seen, mutation, landed>>
    BY DEF ReadSlip, ReadInputs, ReadLines
  <1>4. CASE Return(r, "failed") /\ UNCHANGED plan
    BY <1>1, <1>3, <1>4, ReturnFacts
  <1>5. CASE /\ ReadSlip(r) /\ Goto(r, "inputs", step[r].pass)
             /\ plan' = IF step[r].pass # 1 THEN plan
                        ELSE [plan EXCEPT ![r].slip = slip, ![r].at = writes]
             /\ UNCHANGED <<active, outcome>>
    <2>1. /\ At(r, "slip")
          /\ \A q \in Requests \ {r} : plan'[q] = plan[q]
          /\ plan'[r].inputs = plan[r].inputs
          /\ step[r].pass = 1 => plan'[r].at = writes
          /\ step[r].pass # 1 => plan'[r].at = plan[r].at
      BY <1>2, <1>5 DEF ReadSlip, PlanType
    <2>2. step'[r].at = "inputs" /\ \A q \in Requests \ {r} : step'[q] = step[q]
      BY <1>5, GotoFacts
    <2> QED
      BY <1>1, <1>3, <1>5, <2>1, <2>2 DEF Reading
  <1>6. CASE /\ ReadInputs(r)
             /\ plan' = IF step[r].pass # 1 THEN plan ELSE [plan EXCEPT ![r].inputs = inputs]
             /\ IF Op(r) = "recalculate" THEN Goto(r, "lines", step[r].pass) ELSE PassDone(r)
             /\ UNCHANGED <<active, outcome>>
    <2>1. /\ At(r, "inputs")
          /\ \A q \in Requests \ {r} : plan'[q] = plan[q]
          /\ plan'[r].inputs \in {plan[r].inputs, inputs}
          /\ plan'[r].at = plan[r].at
      BY <1>2, <1>6 DEF ReadInputs, PlanType
    <2>2. /\ step'[r].at \in {"lines", "slip", "send"}
          /\ step'[r].at = "slip" => step'[r].pass # 1
          /\ \A q \in Requests \ {r} : step'[q] = step[q]
      <3>1. CASE Op(r) = "recalculate"
        BY <1>6, <3>1, GotoFacts
      <3>2. CASE Op(r) # "recalculate"
        BY <1>1, <1>6, <3>2, PassDoneFacts
      <3> QED
        BY <3>1, <3>2
    <2> QED
      BY <1>1, <1>3, <1>6, <2>1, <2>2 DEF Reading, At
  <1>7. CASE /\ ReadLines(r)
             /\ plan' = IF step[r].pass # 1 THEN plan ELSE [plan EXCEPT ![r].lines = lines]
             /\ PassDone(r)
             /\ UNCHANGED <<active, outcome>>
    <2>1. /\ At(r, "lines")
          /\ \A q \in Requests \ {r} : plan'[q] = plan[q]
          /\ plan'[r].inputs = plan[r].inputs
          /\ plan'[r].at = plan[r].at
      BY <1>2, <1>7 DEF ReadLines, PlanType
    <2>2. /\ step'[r].at \in {"slip", "send"}
          /\ step'[r].at = "slip" => step'[r].pass # 1
          /\ \A q \in Requests \ {r} : step'[q] = step[q]
      BY <1>1, <1>7, PassDoneFacts
    <2> QED
      BY <1>1, <1>3, <1>7, <2>1, <2>2 DEF Reading, At
  <1> QED
    BY <1>4, <1>5, <1>6, <1>7 DEF ReadSlip, ReadInputs, ReadLines

\* The first state: no request has begun.
LEMMA InitStageInv == Init => StageInv
  BY DEF Init, StageInv, At

\* Every step keeps the stages in line with the mutations.
LEMMA StepStageInv == TypeOK /\ StageInv /\ [Next]_vars => StageInv'
  <1> SUFFICES ASSUME TypeOK, StageInv, [Next]_vars PROVE StageInv'
    OBVIOUS
  <1>1. ASSUME NEW r \in Requests, Submit(r) PROVE StageInv'
    <2>1. mutation' = mutation /\ mutation[r].status = "none"
      BY <1>1 DEF Submit, StageInv, At, Unsent
    <2>2. /\ \/ step'[r].at = "slip" /\ UNCHANGED outcome
             \/ step'[r].at = "done" /\ outcome' = [outcome EXCEPT ![r] = "failed"]
          /\ \A q \in Requests \ {r} : step'[q] = step[q]
      <3>1. CASE Goto(r, "slip", 1) /\ UNCHANGED outcome
        BY <3>1, GotoFacts
      <3>2. CASE Goto(r, "done", 0) /\ outcome' = [outcome EXCEPT ![r] = "failed"]
        BY <3>2, GotoFacts
      <3> QED
        BY <1>1, <3>1, <3>2 DEF Submit
    <2>3. outcome[r] = "none" /\ \A q \in Requests \ {r} : outcome'[q] = outcome[q]
      BY <1>1, <2>2 DEF Submit, At, StageInv, TypeOK
    <2>4. outcome'[r] \in {"none", "failed"} /\ (outcome'[r] = "failed" => step'[r].at = "done")
      BY <2>2, <2>3 DEF TypeOK
    <2> QED
      BY <2>1, <2>2, <2>3, <2>4 DEF StageInv, At, Unsent, Reading
  <1>2. ASSUME NEW r \in Requests, ReadSlip(r) \/ ReadInputs(r) \/ ReadLines(r) PROVE StageInv'
    <2>1. /\ step[r].at \in Reading /\ mutation' = mutation
          /\ \A q \in Requests \ {r} : step'[q] = step[q]
          /\ \/ step'[r].at \in Reading \cup {"send"} /\ UNCHANGED outcome
             \/ Return(r, "failed")
      BY <1>2, ReadingStep
    <2>2. mutation[r].status = "none" /\ outcome[r] = "none"
      BY <2>1 DEF StageInv, Unsent, Reading, At
    <2>3. CASE step'[r].at \in Reading \cup {"send"} /\ UNCHANGED outcome
      BY <2>1, <2>2, <2>3 DEF StageInv, At, Unsent, Reading
    <2>4. CASE Return(r, "failed")
      BY <2>1, <2>2, <2>4, ReturnFacts DEF StageInv, At, Unsent, Reading
    <2> QED
      BY <2>1, <2>3, <2>4
  <1>3. ASSUME NEW r \in Requests, Send(r) PROVE StageInv'
    <2>1. /\ step'[r].at = "wait" /\ UNCHANGED outcome
          /\ \A q \in Requests \ {r} : step'[q] = step[q] /\ mutation'[q] = mutation[q]
      BY <1>3, GotoFacts DEF Send, TypeOK
    <2>2. outcome[r] = "none"
      BY <1>3 DEF Send, StageInv, At
    <2> QED
      BY <2>1, <2>2 DEF StageInv, At, Unsent, Reading
  <1>4. ASSUME NEW r \in Requests, Answer(r) PROVE StageInv'
    <2>1. mutation' = mutation /\ outcome[r] = "none"
      BY <1>4 DEF Answer, StageInv, At
    <2>2. CASE mutation[r].status = "applied" /\ Goto(r, "back", 1) /\ UNCHANGED outcome
      BY <2>1, <2>2, GotoFacts DEF StageInv, At, Unsent, Reading
    <2>3. CASE mutation[r].status = "denied" /\ Return(r, "failed")
      BY <2>1, <2>3, ReturnFacts DEF StageInv, At, Unsent, Reading
    <2>4. CASE mutation[r].status = "error" /\ Return(r, "unknown")
      BY <2>1, <2>4, ReturnFacts DEF StageInv, At, Unsent, Reading
    <2> QED
      BY <1>4, <2>2, <2>3, <2>4 DEF Answer
  <1>5. ASSUME NEW r \in Requests, Verify(r) PROVE StageInv'
    <2>1. mutation' = mutation /\ mutation[r].status = "applied" /\ outcome[r] = "none"
      BY <1>5 DEF Verify, StageInv, At
    <2>2. CASE \E result \in {"unknown", "succeeded"} : Return(r, result)
      BY <2>1, <2>2, ReturnFacts DEF StageInv, At, Unsent, Reading
    <2>3. CASE Goto(r, "back", step[r].pass + 1) /\ UNCHANGED outcome
      BY <2>1, <2>3, GotoFacts DEF StageInv, At, Unsent, Reading
    <2> QED
      BY <1>5, <2>2, <2>3 DEF Verify
  <1>6. ASSUME NEW r \in Requests, GiveUp(r) PROVE StageInv'
    <2>1. /\ mutation' = mutation /\ Return(r, Unanswered(r))
          /\ \/ Unanswered(r) = "unknown"
             \/ Unanswered(r) = "failed" /\ mutation[r].status = "none"
      <3>1. step[r].at \in Reading => mutation[r].status = "none"
        BY DEF StageInv, Unsent
      <3> QED
        BY <1>6, <3>1 DEF GiveUp, Unanswered, Reading
    <2> QED
      BY <2>1, ReturnFacts DEF StageInv, At, Unsent, Reading
  <1>7. ASSUME NEW r \in Requests, Land(r) \/ Refuse(r) PROVE StageInv'
    <2>1. /\ mutation[r].status = "sent" /\ UNCHANGED <<step, outcome>>
          /\ \A q \in Requests \ {r} : mutation'[q] = mutation[q]
      BY <1>7 DEF Land, Refuse, TypeOK
    <2> QED
      BY <2>1 DEF StageInv, At, Unsent, Reading
  <1>8. ASSUME NEW p \in Processes, Crash(p) PROVE StageInv'
    <2>1. /\ mutation' = mutation
          /\ \A r \in Requests : \/ step'[r] = step[r] /\ outcome'[r] = outcome[r]
                                 \/ step'[r].at = "done" /\ outcome'[r] = "unknown"
      BY <1>8 DEF Crash
    <2> QED
      BY <2>1 DEF StageInv, At, Unsent, Reading
  <1>9. CASE Edit \/ Transition \/ Recompute \/ UNCHANGED vars
    <2>1. UNCHANGED <<step, outcome, mutation>>
      BY <1>9 DEF Edit, Transition, Recompute, vars
    <2> QED
      BY <2>1 DEF StageInv, At
  <1> QED
    BY <1>1, <1>2, <1>3, <1>4, <1>5, <1>6, <1>7, <1>8, <1>9 DEF Next, Advance

(* The stage of a request bounds what became of its mutation.                 *)
THEOREM StageInvariant == Spec => []StageInv
  BY TypeCorrect, InitStageInv, StepStageInv, PTL DEF Spec

(* A call told that its write failed has left nothing in Odoo and never will. *)
THEOREM FailureIsFinal == Spec => []FailedNeverLands
  <1>1. StageInv => FailedNeverLands
    BY DEF StageInv, FailedNeverLands
  <1> QED
    BY <1>1, StageInvariant, PTL

----------------------------------------------------------------------------
(* A success was isolated from every other change of the inputs. *)

\* The read of the read-back that compares the other inputs, and what it shows.
LEMMA OthersRead ==
  ASSUME NEW r \in Requests
  PROVE  /\ ReadBack(r)[IF Op(r) = "remove" THEN 3 ELSE 2] = "others"
         /\ Len(ReadBack(r)) > IF Op(r) = "remove" THEN 3 ELSE 2
         /\ Agrees(r, "others") => Others(plan[r].inputs, TargetId(r)) \subseteq inputs
  <1>1. /\ ReadBack(r)[IF Op(r) = "remove" THEN 3 ELSE 2] = "others"
        /\ Len(ReadBack(r)) > IF Op(r) = "remove" THEN 3 ELSE 2
    <2>1. CASE Op(r) \in {"create", "update"}
      BY <2>1 DEF ReadBack
    <2>2. CASE Op(r) = "remove"
      BY <2>2 DEF ReadBack
    <2>3. CASE Op(r) = "recalculate"
      BY <2>3 DEF ReadBack
    <2> QED
      BY <2>1, <2>2, <2>3, AskTypes DEF Operations
  <1>2. Agrees(r, "others") => Untouched(inputs, TargetId(r)) = Untouched(plan[r].inputs, TargetId(r))
    BY DEF Agrees
  <1> QED
    BY <1>1, <1>2 DEF Untouched, Others

\* Nothing is planned and nothing compared at the start.
LEMMA InitIsolationInv == Init => IsolationInv
  BY DEF Init, IsolationInv, NoPlan, ComparedOthers, At

(* A step that leaves the inputs, the writes and the mutations alone, and in  *)
(* which a request only comes to have compared or succeeded when it is        *)
(* isolated.                                                                  *)
LEMMA QuietIsolation ==
  ASSUME IsolationInv, UNCHANGED <<inputs, writes, mutation, landed, plan>>,
         \A q \in Requests : (ComparedOthers(q) \/ outcome[q] = "succeeded")' =>
                                ComparedOthers(q) \/ outcome[q] = "succeeded" \/ Isolated(q)
  PROVE  IsolationInv'
  <1>1. \A q \in Requests : Isolated(q) => Isolated(q)'
    BY DEF Isolated, TargetId, Op
  <1> QED
    BY <1>1 DEF IsolationInv

(* A write of Odoo: rows it makes are younger than every plan, so a planned   *)
(* row that is there afterwards was there before.                             *)
LEMMA OdooIsolation ==
  ASSUME TypeOK, IsolationInv, InputsStep, writes' = writes + 1, UNCHANGED <<plan, step, outcome>>,
         \A q \in Requests :
            \/ mutation'[q] = mutation[q] /\ landed'[q] = landed[q]
            \/ /\ landed'[q].inputs = inputs
               /\ ~At(q, "back") /\ outcome[q] # "succeeded"
  PROVE  IsolationInv'
  <1> SUFFICES ASSUME NEW q \in Requests
               PROVE  /\ \A i \in plan[q].inputs : i.write_date <= writes'
                      /\ mutation'[q].status = "applied" =>
                            plan[q].inputs \cap inputs' \subseteq landed'[q].inputs
                      /\ (ComparedOthers(q) \/ outcome[q] = "succeeded")' => Isolated(q)'
    BY DEF IsolationInv
  <1>1. \A i \in plan[q].inputs : i.write_date \in Nat /\ i.write_date <= writes
    BY DEF TypeOK, IsolationInv, PlanType, Row
  <1>2. writes \in Nat
    BY DEF TypeOK
  <1>3. \A i \in plan[q].inputs : i.write_date <= writes' /\ i.write_date # writes + 1
    BY <1>1, <1>2
  <1>4. plan[q].inputs \cap inputs' \subseteq inputs
    BY <1>3 DEF InputsStep
  <1>5. CASE mutation'[q] = mutation[q] /\ landed'[q] = landed[q]
    <2>1. Isolated(q) => Isolated(q)'
      BY <1>5 DEF Isolated, TargetId, Op
    <2>2. ComparedOthers(q)' => ComparedOthers(q)
      BY DEF ComparedOthers, At, Op
    <2> QED
      BY <1>3, <1>4, <1>5, <2>1, <2>2 DEF IsolationInv
  <1>6. CASE /\ landed'[q].inputs = inputs
             /\ ~At(q, "back") /\ outcome[q] # "succeeded"
    <2>1. ~ComparedOthers(q)'
      BY <1>6 DEF ComparedOthers, At
    <2> QED
      BY <1>3, <1>4, <1>6, <2>1
  <1> QED
    BY <1>5, <1>6

\* Every step keeps the isolation invariant.
LEMMA StepIsolationInv ==
  TypeOK /\ StageInv /\ IsolationInv /\ [Next]_vars => IsolationInv'
  <1> SUFFICES ASSUME TypeOK, StageInv, IsolationInv, [Next]_vars PROVE IsolationInv'
    OBVIOUS
  <1>1. ASSUME NEW r \in Requests, Submit(r) PROVE IsolationInv'
    <2>1. UNCHANGED <<inputs, writes, mutation, landed, plan>>
      BY <1>1 DEF Submit, odoo
    <2>2. /\ step'[r].at \in {"slip", "done"}
          /\ \A q \in Requests \ {r} : step'[q] = step[q]
      BY <1>1, GotoFacts DEF Submit
    <2>3. \A q \in Requests : outcome'[q] = outcome[q] \/ outcome'[q] = "failed"
      BY <1>1 DEF Submit, TypeOK
    <2> QED
      BY <2>1, <2>2, <2>3, QuietIsolation DEF ComparedOthers, At
  <1>2. ASSUME NEW r \in Requests, ReadSlip(r) \/ ReadInputs(r) \/ ReadLines(r)
        PROVE  IsolationInv'
    <2>1. /\ step[r].at \in Reading
          /\ \A q \in Requests \ {r} : step'[q] = step[q] /\ plan'[q] = plan[q]
          /\ UNCHANGED <<inputs, writes, mutation, landed>>
          /\ plan'[r].inputs \in {plan[r].inputs, inputs}
          /\ \/ step'[r].at \in Reading \cup {"send"} /\ UNCHANGED outcome
             \/ Return(r, "failed")
      BY <1>2, ReadingStep DEF odoo
    <2>2. /\ step'[r].at # "back"
          /\ outcome'[r] # "succeeded"
          /\ \A q \in Requests \ {r} : outcome'[q] = outcome[q]
      <3>1. outcome[r] # "succeeded"
        BY <2>1 DEF StageInv, At, Reading
      <3> QED
        BY <2>1, <3>1, ReturnFacts DEF Reading
    <2>3. mutation[r].status = "none"
      BY <2>1 DEF StageInv, Unsent
    <2>4. \A i \in plan'[r].inputs : i.write_date <= writes
      BY <2>1 DEF IsolationInv, TypeOK
    <2>5. \A q \in Requests \ {r} : /\ Isolated(q) => Isolated(q)'
                                    /\ ComparedOthers(q)' => ComparedOthers(q)
      BY <2>1 DEF Isolated, ComparedOthers, At, Op, TargetId
    <2>6. ~ComparedOthers(r)'
      BY <2>2 DEF ComparedOthers, At
    <2> QED
      BY <2>1, <2>2, <2>3, <2>4, <2>5, <2>6 DEF IsolationInv
  <1>3. ASSUME NEW r \in Requests, Send(r) PROVE IsolationInv'
    <2>1. /\ UNCHANGED <<inputs, writes, landed, plan, outcome>>
          /\ \A q \in Requests \ {r} : step'[q] = step[q] /\ mutation'[q] = mutation[q]
          /\ step'[r].at = "wait" /\ mutation'[r].status = "sent"
      BY <1>3, GotoFacts DEF Send, odoo, TypeOK, MutationType
    <2>2. outcome[r] = "none"
      BY <1>3 DEF Send, StageInv, At
    <2>3. \A q \in Requests \ {r} : /\ Isolated(q) => Isolated(q)'
                                    /\ ComparedOthers(q)' => ComparedOthers(q)
      BY <2>1 DEF Isolated, ComparedOthers, At, Op, TargetId
    <2>4. ~ComparedOthers(r)'
      BY <2>1 DEF ComparedOthers, At
    <2> QED
      BY <2>1, <2>2, <2>3, <2>4 DEF IsolationInv
  <1>4. ASSUME NEW r \in Requests, Answer(r) PROVE IsolationInv'
    <2>1. UNCHANGED <<inputs, writes, mutation, landed, plan>>
      BY <1>4 DEF Answer, odoo
    <2>2. CASE Goto(r, "back", 1) /\ UNCHANGED outcome
      <3>1. \A q \in Requests : ComparedOthers(q)' => ComparedOthers(q)
        BY <2>2, GotoFacts DEF ComparedOthers, At, Op
      <3> QED
        BY <2>1, <2>2, <3>1, QuietIsolation
    <2>3. CASE \E result \in {"failed", "unknown"} : Return(r, result)
      BY <2>1, <2>3, ReturnFacts, QuietIsolation DEF ComparedOthers, At
    <2> QED
      BY <1>4, <2>2, <2>3 DEF Answer
  <1>5. ASSUME NEW r \in Requests, Verify(r) PROVE IsolationInv'
    <2> DEFINE K == IF Op(r) = "remove" THEN 3 ELSE 2
    <2> DEFINE read == ReadBack(r)[step[r].pass]
    <2>1. /\ UNCHANGED <<inputs, writes, mutation, landed, plan>>
          /\ At(r, "back") /\ step[r].pass \in 0 .. 5
      BY <1>5 DEF Verify, odoo, TypeOK
    <2>2. ASSUME Agrees(r, read), step[r].pass >= K PROVE Isolated(r)
      <3>1. CASE step[r].pass = K
        <4>1. read = "others"
          BY <3>1, OthersRead
        <4>2. Others(plan[r].inputs, TargetId(r)) \subseteq inputs
          BY <2>2, <4>1, OthersRead
        <4>3. plan[r].inputs \cap inputs \subseteq landed[r].inputs
          BY <2>1 DEF IsolationInv, StageInv
        <4> QED
          BY <4>2, <4>3 DEF Isolated, Others
      <3>2. CASE step[r].pass # K
        <4>1. ComparedOthers(r)
          BY <2>1, <2>2, <3>2 DEF ComparedOthers
        <4> QED
          BY <4>1 DEF IsolationInv
      <3> QED
        BY <3>1, <3>2
    <2>3. CASE Return(r, "unknown")
      BY <2>1, <2>3, ReturnFacts, QuietIsolation DEF ComparedOthers, At
    <2>4. CASE Agrees(r, read) /\ Goto(r, "back", step[r].pass + 1) /\ UNCHANGED outcome
      <3>1. /\ \A q \in Requests \ {r} : step'[q] = step[q]
            /\ step'[r].pass = step[r].pass + 1
        BY <2>4, GotoFacts
      <3>2. ComparedOthers(r)' => step[r].pass >= K
        BY <2>1, <3>1 DEF ComparedOthers, Op
      <3>3. \A q \in Requests : ComparedOthers(q)' => ComparedOthers(q) \/ Isolated(q)
        BY <2>2, <2>4, <3>1, <3>2 DEF ComparedOthers, At, Op
      <3> QED
        BY <2>1, <2>4, <3>3, QuietIsolation
    <2>5. CASE /\ Agrees(r, read) /\ ~(step[r].pass < Len(ReadBack(r)))
               /\ Return(r, "succeeded")
      <3>1. step[r].pass >= K
        <4>1. ASSUME NEW n \in {3, 5}, ~(step[r].pass < n), n > K PROVE step[r].pass >= K
          BY <2>1, <4>1
        <4>2. Len(ReadBack(r)) \in {3, 5} /\ Len(ReadBack(r)) > K
          BY ReadBackLength, OthersRead
        <4> QED
          BY <2>5, <4>1, <4>2, Zenon
      <3>2. Isolated(r)
        BY <2>2, <2>5, <3>1
      <3> QED
        BY <2>1, <2>5, <3>2, ReturnFacts, QuietIsolation DEF ComparedOthers, At
    <2> QED
      BY <1>5, <2>3, <2>4, <2>5 DEF Verify
  <1>6. ASSUME NEW r \in Requests, GiveUp(r) PROVE IsolationInv'
    <2>1. /\ UNCHANGED <<inputs, writes, mutation, landed, plan>>
          /\ Return(r, Unanswered(r)) /\ Unanswered(r) # "succeeded"
      BY <1>6 DEF GiveUp, Unanswered, odoo
    <2> QED
      BY <2>1, ReturnFacts, QuietIsolation DEF ComparedOthers, At
  <1>7. ASSUME NEW r \in Requests, Land(r) PROVE IsolationInv'
    <2>1. InputsStep
      BY <1>7, LandInputs
    <2>2. writes' = writes + 1 /\ UNCHANGED <<plan, step, outcome>> /\ mutation[r].status = "sent"
      BY <1>7 DEF Land
    <2>3. /\ landed'[r].inputs = inputs
          /\ \A q \in Requests \ {r} : mutation'[q] = mutation[q] /\ landed'[q] = landed[q]
      BY <1>7 DEF Land, TypeOK
    <2>4. ~At(r, "back") /\ outcome[r] # "succeeded"
      BY <2>2 DEF StageInv
    <2> QED
      BY <2>1, <2>2, <2>3, <2>4, OdooIsolation
  <1>8. ASSUME NEW r \in Requests, Refuse(r) PROVE IsolationInv'
    <2>1. /\ UNCHANGED <<inputs, writes, landed, plan, step, outcome>>
          /\ \A q \in Requests \ {r} : mutation'[q] = mutation[q]
          /\ mutation'[r].status # "applied" /\ mutation'[r].id = mutation[r].id
      <3>1. mutation \in [Requests -> MutationType]
        BY DEF TypeOK
      <3>2. \E status \in {"denied", "error"} : mutation' = [mutation EXCEPT ![r].status = status]
        BY <1>8 DEF Refuse
      <3> QED
        BY <1>8, <3>1, <3>2 DEF Refuse, odoo, MutationType
    <2>2. \A q \in Requests : /\ Isolated(q) => Isolated(q)'
                              /\ ComparedOthers(q)' => ComparedOthers(q)
      BY <2>1 DEF Isolated, ComparedOthers, At, Op, TargetId
    <2> QED
      BY <2>1, <2>2 DEF IsolationInv
  <1>9. ASSUME NEW p \in Processes, Crash(p) PROVE IsolationInv'
    <2>1. UNCHANGED <<inputs, writes, mutation, landed, plan>>
      BY <1>9 DEF Crash, odoo
    <2>2. \A r \in Requests : \/ step'[r] = step[r] /\ outcome'[r] = outcome[r]
                              \/ step'[r].at = "done" /\ outcome'[r] = "unknown"
      BY <1>9 DEF Crash
    <2> QED
      BY <2>1, <2>2, QuietIsolation DEF ComparedOthers, At
  <1>10. CASE Edit \/ Transition \/ Recompute
    <2>1. InputsStep
      BY <1>10, EditInputs, DropInputs DEF Transition, Recompute
    <2>2. writes' = writes + 1 /\ UNCHANGED <<plan, step, outcome, mutation, landed>>
      BY <1>10 DEF Edit, Transition, Recompute
    <2> QED
      BY <2>1, <2>2, OdooIsolation
  <1>11. CASE UNCHANGED vars
    BY <1>11, QuietIsolation DEF vars, ComparedOthers, At
  <1> QED
    BY <1>1, <1>2, <1>3, <1>4, <1>5, <1>6, <1>7, <1>8, <1>9, <1>10, <1>11 DEF Next, Advance

(* A write reports success only if every other input it was planned from was  *)
(* still there, unchanged, when Odoo applied its mutation: whoever edits the  *)
(* payslip, and whichever mutations land late.                                *)
THEOREM SuccessWasIsolated == Spec => []SuccessIsolated
  <1>1. IsolationInv => SuccessIsolated
    BY DEF IsolationInv, SuccessIsolated, Isolated
  <1>2. Spec => []IsolationInv
    BY TypeCorrect, StageInvariant, InitIsolationInv, StepIsolationInv, PTL DEF Spec
  <1> QED
    BY <1>1, <1>2, PTL

----------------------------------------------------------------------------
(* The payslip lock. *)

\* Nobody runs at the start.
LEMMA InitLockInv == Init => LockInv
  BY DEF Init, LockInv, Running, At

(* The write of a process ends: nobody else of that process was running.      *)
LEMMA ReturnLock ==
  ASSUME TypeOK, LockInv, NEW r \in Requests, Running(r), NEW result, Return(r, result)
  PROVE  LockInv'
  <1>1. /\ ~Running(r)'
        /\ \A q \in Requests \ {r} : Running(q)' <=> Running(q)
        /\ active' = active \ {Ask[r].process}
    BY ReturnFacts DEF Running, At
  <1>2. \A q \in Requests \ {r} : Running(q) => Ask[q].process # Ask[r].process
    BY DEF LockInv, SameProcess
  <1> QED
    BY <1>1, <1>2 DEF LockInv, SameProcess

(* Nobody begins or ends. *)
LEMMA QuietLock ==
  ASSUME LockInv, UNCHANGED active, \A q \in Requests : Running(q)' => Running(q)
  PROVE  LockInv'
  BY DEF LockInv, SameProcess

\* Every step keeps the lock with the one write that runs.
LEMMA StepLockInv == TypeOK /\ LockInv /\ [Next]_vars => LockInv'
  <1> SUFFICES ASSUME TypeOK, LockInv, [Next]_vars PROVE LockInv'
    OBVIOUS
  <1>1. ASSUME NEW r \in Requests, Submit(r) PROVE LockInv'
    <2>1. CASE /\ Acquired(r) /\ active' = active \cup {Ask[r].process} /\ Goto(r, "slip", 1)
      <3>1. \A q \in Requests \ {r} : Running(q)' <=> Running(q)
        BY <2>1, GotoFacts DEF Running, At
      <3>2. \A q \in Requests \ {r} : Running(q) => ~SameProcess(r, q)
        BY <2>1 DEF LockInv, Acquired, SameProcess
      <3> QED
        BY <2>1, <3>1, <3>2 DEF LockInv, SameProcess
    <2>2. CASE Goto(r, "done", 0) /\ UNCHANGED active
      <3>1. \A q \in Requests : Running(q)' => Running(q)
        BY <2>2, GotoFacts DEF Running, At
      <3> QED
        BY <2>2, <3>1, QuietLock
    <2> QED
      BY <1>1, <2>1, <2>2 DEF Submit
  <1>2. ASSUME NEW r \in Requests, ReadSlip(r) \/ ReadInputs(r) \/ ReadLines(r) PROVE LockInv'
    <2>1. /\ Running(r)
          /\ \A q \in Requests \ {r} : step'[q] = step[q]
          /\ UNCHANGED active \/ Return(r, "failed")
      BY <1>2, ReadingStep DEF Running, At, Reading
    <2>2. CASE UNCHANGED active
      <3>1. \A q \in Requests : Running(q)' => Running(q)
        BY <2>1 DEF Running, At
      <3> QED
        BY <2>2, <3>1, QuietLock
    <2> QED
      BY <2>1, <2>2, ReturnLock
  <1>3. ASSUME NEW r \in Requests, Send(r) PROVE LockInv'
    <2>1. \A q \in Requests : Running(q)' => Running(q)
      BY <1>3, GotoFacts DEF Send, Running, At
    <2> QED
      BY <1>3, <2>1, QuietLock DEF Send
  <1>4. ASSUME NEW r \in Requests, Answer(r) \/ Verify(r) \/ GiveUp(r) PROVE LockInv'
    <2>1. Running(r)
      BY <1>4 DEF Answer, Verify, GiveUp, Running, At
    <2>2. CASE \E result : Return(r, result)
      BY <2>1, <2>2, ReturnLock
    <2>3. CASE (\E pass : Goto(r, "back", pass)) /\ UNCHANGED active
      <3>1. \A q \in Requests : Running(q)' => Running(q)
        BY <2>1, <2>3, GotoFacts DEF Running, At
      <3> QED
        BY <2>3, <3>1, QuietLock
    <2> QED
      BY <1>4, <2>2, <2>3 DEF Answer, Verify, GiveUp
  <1>5. ASSUME NEW p \in Processes, Crash(p) PROVE LockInv'
    <2>1. active' = active \ {p}
      BY <1>5 DEF Crash
    <2>2. \A q \in Requests : Running(q)' => Running(q) /\ Ask[q].process # p
      BY <1>5 DEF Crash, Running, At
    <2> QED
      BY <2>1, <2>2 DEF LockInv, SameProcess
  <1>6. CASE \/ Edit \/ Transition \/ Recompute \/ UNCHANGED vars
             \/ \E r \in Requests : Land(r) \/ Refuse(r)
    <2>1. UNCHANGED <<active, step>>
      BY <1>6 DEF Edit, Transition, Recompute, vars, Land, Refuse
    <2> QED
      BY <2>1, QuietLock DEF Running, At
  <1> QED
    BY <1>1, <1>2, <1>3, <1>4, <1>5, <1>6 DEF Next, Advance

(* The lock registry: a process runs one write on the payslip at a time.      *)
THEOREM LockInvariant == Spec => []LockInv
  BY TypeCorrect, InitLockInv, StepLockInv, PTL DEF Spec

----------------------------------------------------------------------------
(* Writes of one process are serial. *)

\* No write has succeeded at the start.
LEMMA InitSerialInv == Init => SerialInv
  BY DEF Init, SerialInv

(* A step that changes no success, no plan of a request and no landing, and   *)
(* plans nothing new.                                                         *)
LEMMA QuietSerial ==
  ASSUME TypeOK, SerialInv, UNCHANGED <<writes, landed>>,
         \A q \in Requests : /\ mutation'[q].status = "applied" => mutation[q].status = "applied"
                             /\ outcome'[q] = "succeeded" => outcome[q] = "succeeded"
                             /\ Planned(q)' => Planned(q)
                             /\ plan'[q].at = plan[q].at
  PROVE  SerialInv'
  BY DEF SerialInv, SameProcess

\* Every step keeps the serial invariant.
LEMMA StepSerialInv ==
  TypeOK /\ StageInv /\ LockInv /\ SerialInv /\ [Next]_vars => SerialInv'
  <1> SUFFICES ASSUME TypeOK, StageInv, LockInv, SerialInv, [Next]_vars PROVE SerialInv'
    OBVIOUS
  <1>1. ASSUME NEW r \in Requests, Submit(r) PROVE SerialInv'
    <2>1. UNCHANGED <<writes, landed, mutation, plan>>
      BY <1>1 DEF Submit, odoo
    <2>2. \A q \in Requests : outcome'[q] = outcome[q] \/ outcome'[q] = "failed"
      BY <1>1 DEF Submit, TypeOK
    <2>3. \A q \in Requests : Planned(q)' => Planned(q)
      BY <1>1, GotoFacts DEF Submit, Planned, Running, At
    <2> QED
      BY <2>1, <2>2, <2>3, QuietSerial
  <1>2. ASSUME NEW r \in Requests, ReadSlip(r) \/ ReadInputs(r) \/ ReadLines(r) PROVE SerialInv'
    <2>1. /\ UNCHANGED <<writes, landed, mutation>>
          /\ step[r].at \in Reading
          /\ \A q \in Requests \ {r} : step'[q] = step[q] /\ plan'[q] = plan[q]
      BY <1>2, ReadingStep DEF odoo
    <2>2. CASE Return(r, "failed") /\ plan'[r] = plan[r]
      <3>1. \A q \in Requests : /\ outcome'[q] = outcome[q] \/ outcome'[q] = "failed"
                                /\ Planned(q)' => Planned(q)
        BY <2>2, ReturnFacts DEF Planned, Running, At
      <3> QED
        BY <2>1, <2>2, <3>1, QuietSerial
    <2>3. CASE /\ UNCHANGED outcome
               /\ ~(At(r, "slip") /\ step[r].pass = 1)
               /\ plan'[r].at = plan[r].at
      <3>1. Planned(r)
        BY <2>1, <2>3 DEF Planned, Running, At, Reading
      <3>2. \A q \in Requests : Planned(q)' => Planned(q)
        BY <2>1, <3>1 DEF Planned, Running, At
      <3> QED
        BY <2>1, <2>3, <3>2, QuietSerial
    <2>4. CASE /\ UNCHANGED outcome
               /\ At(r, "slip") /\ step[r].pass = 1
               /\ plan'[r].at = writes
      <3>1. outcome[r] = "none"
        BY <2>4 DEF StageInv, At
      <3>2. \A q \in Requests : outcome[q] = "succeeded" => landed[q].at <= writes
        BY DEF SerialInv, StageInv
      <3>3. \A q \in Requests \ {r} : Planned(q)' => Planned(q)
        BY <2>1 DEF Planned, Running, At
      <3> QED
        BY <2>1, <2>4, <3>1, <3>2, <3>3 DEF SerialInv, SameProcess
    <2> QED
      BY <1>2, <2>2, <2>3, <2>4, ReadingStep
  <1>3. ASSUME NEW r \in Requests, Send(r) PROVE SerialInv'
    <2>1. UNCHANGED <<writes, landed, plan, outcome>>
      BY <1>3 DEF Send, odoo
    <2>2. \A q \in Requests : mutation'[q].status = "applied" => mutation[q].status = "applied"
      BY <1>3 DEF Send, TypeOK, MutationType
    <2>3. \A q \in Requests : Planned(q)' => Planned(q)
      BY <1>3, GotoFacts DEF Send, Planned, Running, At
    <2> QED
      BY <2>1, <2>2, <2>3, QuietSerial
  <1>4. ASSUME NEW r \in Requests, Answer(r) \/ GiveUp(r) PROVE SerialInv'
    <2>1. UNCHANGED <<writes, landed, plan, mutation>> /\ Running(r)
      BY <1>4 DEF Answer, GiveUp, odoo, Running, At
    <2>2. CASE \E result \in {"failed", "unknown"} : Return(r, result)
      BY <2>1, <2>2, ReturnFacts, QuietSerial DEF Planned, Running, At
    <2>3. CASE At(r, "wait") /\ Goto(r, "back", 1) /\ UNCHANGED outcome
      <3>1. \A q \in Requests : Planned(q)' => Planned(q)
        BY <2>3, GotoFacts DEF Planned, Running, At
      <3> QED
        BY <2>1, <2>3, <3>1, QuietSerial
    <2> QED
      BY <1>4, <2>2, <2>3 DEF Answer, GiveUp, Unanswered
  <1>5. ASSUME NEW r \in Requests, Verify(r) PROVE SerialInv'
    <2>1. UNCHANGED <<writes, landed, plan, mutation>> /\ At(r, "back")
      BY <1>5 DEF Verify, odoo
    <2>2. CASE Return(r, "unknown")
      BY <2>1, <2>2, ReturnFacts, QuietSerial DEF Planned, Running, At
    <2>3. CASE Goto(r, "back", step[r].pass + 1) /\ UNCHANGED outcome
      <3>1. \A q \in Requests : Planned(q)' => Planned(q)
        BY <2>1, <2>3, GotoFacts DEF Planned, Running, At
      <3> QED
        BY <2>1, <2>3, <3>1, QuietSerial
    <2>4. CASE Return(r, "succeeded")
      <3>1. /\ \A q \in Requests \ {r} : outcome'[q] = outcome[q] /\ step'[q] = step[q]
            /\ ~Planned(r)'
        BY <2>4, ReturnFacts DEF Planned, Running, At
      <3>2. Planned(r) /\ Running(r)
        BY <2>1 DEF Planned, Running, At
      <3>3. \A q \in Requests \ {r} : SameProcess(r, q) => ~Running(q)
        BY <3>2 DEF LockInv, SameProcess
      <3>4. \A q \in Requests \ {r} : /\ Planned(q)' => Planned(q)
                                      /\ Planned(q) => Running(q)
        BY <3>1 DEF Planned, Running, At
      <3>5. \A q \in Requests \ {r} :
               SameProcess(r, q) /\ outcome[q] = "succeeded" => landed[q].at <= plan[r].at
        BY <3>2 DEF SerialInv, SameProcess
      <3>6. SerialInv'
        <4>1. \A q \in Requests : mutation'[q].status = "applied" => landed'[q].at <= writes'
          BY <2>1 DEF SerialInv
        <4>2. ASSUME NEW p \in Requests, NEW q \in Requests, p # q, SameProcess(p, q),
                     outcome'[p] = "succeeded"
              PROVE  /\ Planned(q)' => landed'[p].at <= plan'[q].at
                     /\ outcome'[q] = "succeeded" =>
                           landed'[p].at <= plan'[q].at \/ landed'[q].at <= plan'[p].at
          <5>1. CASE p = r
            BY <2>1, <3>1, <3>3, <3>4, <3>5, <4>2, <5>1
          <5>2. CASE q = r
            BY <2>1, <3>1, <3>5, <4>2, <5>2 DEF SameProcess
          <5>3. CASE p # r /\ q # r
            BY <2>1, <3>1, <3>4, <4>2, <5>3 DEF SerialInv
          <5> QED
            BY <5>1, <5>2, <5>3
        <4> QED
          BY <4>1, <4>2 DEF SerialInv, SameProcess
      <3> QED
        BY <3>6
    <2> QED
      BY <1>5, <2>2, <2>3, <2>4 DEF Verify
  <1>6. ASSUME NEW r \in Requests, Land(r) PROVE SerialInv'
    <2>1. /\ writes' = writes + 1 /\ writes \in Nat
          /\ UNCHANGED <<plan, step, outcome>>
          /\ mutation[r].status = "sent"
      BY <1>6 DEF Land, TypeOK
    <2>2. /\ landed'[r].at = writes + 1
          /\ \A q \in Requests \ {r} : mutation'[q] = mutation[q] /\ landed'[q] = landed[q]
      BY <1>6 DEF Land, TypeOK
    <2>3. outcome[r] # "succeeded"
      BY <2>1 DEF StageInv
    <2>4. \A q \in Requests : landed[q].at \in Nat
      BY DEF TypeOK
    <2>5. \A q \in Requests : mutation'[q].status = "applied" => landed'[q].at <= writes'
      BY <2>1, <2>2, <2>4 DEF SerialInv
    <2>6. \A q \in Requests : Planned(q)' => Planned(q)
      BY <2>1 DEF Planned, Running, At
    <2> QED
      BY <2>1, <2>2, <2>3, <2>5, <2>6 DEF SerialInv, SameProcess
  <1>7. ASSUME NEW r \in Requests, Refuse(r) PROVE SerialInv'
    <2>1. UNCHANGED <<writes, landed, plan, step, outcome>>
      BY <1>7 DEF Refuse, odoo
    <2>2. \A q \in Requests : mutation'[q].status = "applied" => mutation[q].status = "applied"
      <3>1. mutation \in [Requests -> MutationType]
        BY DEF TypeOK
      <3>2. \E status \in {"denied", "error"} : mutation' = [mutation EXCEPT ![r].status = status]
        BY <1>7 DEF Refuse
      <3> QED
        BY <3>1, <3>2 DEF MutationType
    <2> QED
      BY <2>1, <2>2, QuietSerial DEF Planned, Running, At
  <1>8. ASSUME NEW p \in Processes, Crash(p) PROVE SerialInv'
    <2>1. UNCHANGED <<writes, landed, plan, mutation>>
      BY <1>8 DEF Crash, odoo
    <2>2. \A r \in Requests : \/ step'[r] = step[r] /\ outcome'[r] = outcome[r]
                              \/ step'[r].at = "done" /\ outcome'[r] = "unknown"
      BY <1>8 DEF Crash
    <2> QED
      BY <2>1, <2>2, QuietSerial DEF Planned, Running, At
  <1>9. CASE Edit \/ Transition \/ Recompute
    <2>1. writes' = writes + 1 /\ UNCHANGED <<plan, step, outcome, mutation, landed>>
      BY <1>9 DEF Edit, Transition, Recompute
    <2>2. \A q \in Requests : landed[q].at \in Nat /\ writes \in Nat
      BY DEF TypeOK
    <2>3. \A q \in Requests : mutation'[q].status = "applied" => landed'[q].at <= writes'
      BY <2>1, <2>2 DEF SerialInv
    <2>4. \A q \in Requests : Planned(q)' => Planned(q)
      BY <2>1 DEF Planned, Running, At
    <2> QED
      BY <2>1, <2>3, <2>4 DEF SerialInv, SameProcess
  <1>10. CASE UNCHANGED vars
    BY <1>10, QuietSerial DEF vars, Planned, Running, At
  <1> QED
    BY <1>1, <1>2, <1>3, <1>4, <1>5, <1>6, <1>7, <1>8, <1>9, <1>10 DEF Next, Advance

(* Of two successful writes of one process, one was planned after the other   *)
(* had been applied.                                                          *)
THEOREM SerialInvariant == Spec => []SerialInv
  BY TypeCorrect, StageInvariant, LockInvariant, InitSerialInv, StepSerialInv, PTL DEF Spec

(* "serializes writes per payslip" holds where every write of the payslip is  *)
(* made by one process: the lock registry is memory of its process.           *)
THEOREM OneProcessIsSerial ==
  (\A r, q \in Requests : SameProcess(r, q)) => (Spec => []SerialSuccess)
  <1> SUFFICES ASSUME \A r, q \in Requests : SameProcess(r, q)
               PROVE  Spec => []SerialSuccess
    OBVIOUS
  <1>1. SerialInv => SerialSuccess
    BY DEF SerialInv, SerialSuccess
  <1> QED
    BY <1>1, SerialInvariant, PTL

=============================================================================
