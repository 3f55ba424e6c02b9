--------------------------- MODULE PayrollWrites ---------------------------
(***************************************************************************)
(* The controlled Payroll writes on one editable payslip: run_write and    *)
(* its payslip lock (mcp/payroll_writes.py), the plans of                  *)
(* workflows/payroll/writes.py and the writing methods of                  *)
(* adapters/odoo/payroll/reader.py.                                        *)
(*                                                                         *)
(* A write reads the payslip and its inputs several times, every time      *)
(* against what it planned from, sends one mutation and reads back what it *)
(* did.  Every read is a step of its own: Odoo users, other processes and  *)
(* mutations that were given up on may change the payslip between any two. *)
(*                                                                         *)
(* Employee, contract, structure and input type are read with the payslip  *)
(* and compared the same way; they are part of "slip" here.  Previews take *)
(* no lock and send nothing: they end where the plan is made.              *)
(***************************************************************************)
EXTENDS Naturals, Sequences, FiniteSets

CONSTANTS
    Processes,      \* application processes
    Requests,       \* executing calls, each with its own idempotency key
    Ask,            \* what each request asks for
    Types, Values,  \* input types; descriptions and amounts
    InitialInputs,  \* the payslip's inputs at the start
    Version,        \* Odoo version, 18 or 19
    MaxEdits        \* bound: changes made by Odoo users

Operations == {"create", "update", "remove", "recalculate"}
Fields == {"name", "amount"}

\* hr.payslip.input.  write_date is the number of the write that made the row.
Row == [id : Nat, type : Types, name : Values, amount : Values, write_date : Nat]

AskType == [operation : Operations, process : Processes, input : Nat,
            type : Types, sets : SUBSET Fields, value : Values]

ASSUME PayrollAssumption ==
    /\ Ask \in [Requests -> AskType]
    /\ InitialInputs \subseteq Row /\ IsFiniteSet(InitialInputs)
    /\ \A i, j \in InitialInputs : i.id = j.id \/ i.type = j.type => i = j
    /\ \A i \in InitialInputs : i.write_date = 0 /\ i.id \in 1 .. Cardinality(InitialInputs)
    /\ \A r \in Requests : Ask[r].operation \in {"create", "recalculate"} <=> Ask[r].input = 0
    /\ Version \in {18, 19}
    /\ MaxEdits \in Nat

VARIABLES
    slip,       \* hr.payslip: its state and write_date
    inputs,     \* its input rows
    lines,      \* write_date of its calculated lines
    writes,     \* writes Odoo has made so far
    edits,      \* those made by Odoo users
    active,     \* processes whose lock registry holds the payslip
    step,       \* where each request is
    plan,       \* the snapshot each request was planned from ("at": history)
    seen,       \* the record it read back
    mutation,   \* the call it sent to Odoo
    landed,     \* history: the inputs its mutation was applied to, and when
    outcome     \* what the caller is told

odoo == <<slip, inputs, lines, writes>>
vars == <<slip, inputs, lines, writes, edits, active, step, plan, seen,
          mutation, landed, outcome>>

Op(r) == Ask[r].operation
SlipRow == [state : {"draft", "verify", "done"}, write_date : Nat]
NoRow == [id |-> 0]

----------------------------------------------------------------------------
\* Reads and what they are compared with.

\* _require_editable.
Editable(s) == s.state \in IF Version = 18 THEN {"draft", "verify"} ELSE {"draft"}

\* _all_inputs: no input type occurs twice.
DistinctTypes(rows) == \A i, j \in rows : i.type = j.type => i = j

Find(rows, id) ==
    IF \E i \in rows : i.id = id THEN CHOOSE i \in rows : i.id = id ELSE NoRow

Others(rows, id) == {i \in rows : i.id # id}

\* What the read-back compares: every input but the target, write_date included.
\* Mutant of Untouched: the write dates are not compared.
UntouchedUndated(rows, id) == {[i EXCEPT !.write_date = 0] : i \in Others(rows, id)}
Untouched(rows, id) == Others(rows, id)

\* The checks of prepare_*: the exact input exists, the type is not yet used.
Plannable(r, rows) ==
    CASE Op(r) = "create"      -> \A i \in rows : i.type # Ask[r].type
      [] Op(r) = "recalculate" -> TRUE
      [] OTHER                 -> Find(rows, Ask[r].input) # NoRow

\* Snapshots before the mutation: prepare (two for an exact input), validate,
\* and the two of _validated_write_checkpoint.
PreparePasses(r) == IF Op(r) \in {"update", "remove"} THEN 2 ELSE 1
Passes(r) == PreparePasses(r) + 3
InExecute(r) == step[r].pass > PreparePasses(r) + 1

\* Mutant of ReadBack: the target alone is read back.
ReadBackTarget(r) ==
    CASE Op(r) \in {"create", "update"} -> <<"target", "parent">>
      [] Op(r) = "remove"               -> <<"gone", "parent">>
      [] Op(r) = "recalculate"          -> <<"parent">>

\* The reads after the mutation, in order: those of the adapter, then those of
\* execute_payroll_write_plan.
ReadBack(r) ==
    CASE Op(r) \in {"create", "update"} -> <<"target", "others", "parent", "slip", "result">>
      [] Op(r) = "remove"               -> <<"gone", "parent", "others", "slip", "absent">>
      [] Op(r) = "recalculate"          -> <<"parent", "others", "evidence">>

\* The row a create made is the one its answer names; a recalculation has no
\* target.
TargetId(r) == IF Op(r) = "create" THEN mutation[r].id ELSE Ask[r].input

Set(r) == IF Op(r) = "create" THEN Fields ELSE Ask[r].sets

\* One read of the read-back agrees with the plan.
Agrees(r, read) ==
    LET id  == TargetId(r)
        row == Find(inputs, id)
    IN
    CASE read = "target" ->
           row # NoRow /\ \A f \in Set(r) : row[f] = Ask[r].value
      [] read = "gone" -> row = NoRow
      [] read = "others" ->
           /\ DistinctTypes(inputs)
           /\ Untouched(inputs, id) = Untouched(plan[r].inputs, id)
           /\ Op(r) \in {"create", "update"} => row = seen[r]
           /\ Op(r) = "remove" => row = NoRow
      [] read = "parent" ->
           /\ Editable(slip)
           /\ Op(r) # "recalculate" => slip.state = plan[r].slip.state
      [] read = "slip" -> Editable(slip)
      [] read = "absent" -> DistinctTypes(inputs) /\ row = NoRow
      [] read = "result" ->
           /\ DistinctTypes(inputs)
           /\ row # NoRow /\ row = seen[r]
           /\ Op(r) = "update" =>
                 \A f \in Fields \ Set(r) :
                    row[f] = Find(plan[r].inputs, id)[f]
      [] read = "evidence" -> slip.state = seen[r].state

\* What a read leaves for the reads after it.
Remembered(r, read) ==
    CASE read = "target" -> Find(inputs, TargetId(r))
      [] read = "parent" /\ Op(r) = "recalculate" -> slip
      [] OTHER -> seen[r]

----------------------------------------------------------------------------
NoPlan == [slip |-> [state |-> "draft", write_date |-> 0], inputs |-> {}, lines |-> 0,
           at |-> 0]

Init ==
    /\ slip = [state |-> "draft", write_date |-> 0]
    /\ inputs = InitialInputs
    /\ lines = 0
    /\ writes = 0
    /\ edits = 0
    /\ active = {}
    /\ step = [r \in Requests |-> [at |-> "new", pass |-> 0]]
    /\ plan = [r \in Requests |-> NoPlan]
    /\ seen = [r \in Requests |-> NoRow]
    /\ mutation = [r \in Requests |-> [status |-> "none", id |-> 0]]
    /\ landed = [r \in Requests |-> [inputs |-> {}, at |-> 0]]
    /\ outcome = [r \in Requests |-> "none"]

At(r, where) == step[r].at = where
Running(r) == ~At(r, "new") /\ ~At(r, "done")
Goto(r, where, pass) == step' = [step EXCEPT ![r] = [at |-> where, pass |-> pass]]

\* The with-block of hold() ends however the write ends.
\* Mutant of Released: an ending other than success keeps the lock.
ReleasedOnSuccess(r, result) ==
    IF result = "succeeded" THEN active \ {Ask[r].process} ELSE active
Released(r, result) == active \ {Ask[r].process}

Return(r, result) ==
    /\ outcome' = [outcome EXCEPT ![r] = result]
    /\ active' = Released(r, result)
    /\ Goto(r, "done", 0)

----------------------------------------------------------------------------
\* The request, up to the mutation.

\* _PayslipLockRegistry.hold.  A lock that is held is a preflight error.
\* Mutant of Acquired: the lock is always granted.
AcquiredAlways(r) == TRUE
Acquired(r) == Ask[r].process \notin active

Submit(r) ==
    /\ At(r, "new")
    /\ \/ /\ Acquired(r)
          /\ active' = active \cup {Ask[r].process}
          /\ Goto(r, "slip", 1)
          /\ UNCHANGED outcome
       \/ /\ ~Acquired(r)
          /\ outcome' = [outcome EXCEPT ![r] = "failed"]
          /\ Goto(r, "done", 0)
          /\ UNCHANGED active
    /\ UNCHANGED <<odoo, edits, plan, seen, mutation, landed>>

\* The last read of a snapshot is over.
PassDone(r) ==
    IF step[r].pass = Passes(r) THEN Goto(r, "send", 0)
                                ELSE Goto(r, "slip", step[r].pass + 1)

\* _exact_payslip or _action_payslip: kept by the first snapshot, compared by
\* the others.
ReadSlip(r) ==
    /\ At(r, "slip")
    /\ IF Editable(slip) /\ (step[r].pass = 1 \/ slip = plan[r].slip)
         THEN /\ Goto(r, "inputs", step[r].pass)
              /\ plan' = IF step[r].pass # 1 THEN plan
                         ELSE [plan EXCEPT ![r].slip = slip, ![r].at = writes]
              /\ UNCHANGED <<active, outcome>>
         ELSE Return(r, "failed") /\ UNCHANGED plan
    /\ UNCHANGED <<odoo, edits, seen, mutation, landed>>

ReadInputs(r) ==
    /\ At(r, "inputs")
    /\ IF /\ DistinctTypes(inputs)
          /\ IF step[r].pass = 1 THEN Plannable(r, inputs) ELSE inputs = plan[r].inputs
         THEN /\ plan' = IF step[r].pass # 1 THEN plan ELSE [plan EXCEPT ![r].inputs = inputs]
              /\ IF Op(r) = "recalculate" THEN Goto(r, "lines", step[r].pass)
                                          ELSE PassDone(r)
              /\ UNCHANGED <<active, outcome>>
         ELSE Return(r, "failed") /\ UNCHANGED plan
    /\ UNCHANGED <<odoo, edits, seen, mutation, landed>>

\* Calculated lines and worked days, for a recalculation only.
ReadLines(r) ==
    /\ At(r, "lines")
    /\ IF step[r].pass = 1 \/ lines = plan[r].lines
         THEN /\ plan' = IF step[r].pass # 1 THEN plan ELSE [plan EXCEPT ![r].lines = lines]
              /\ PassDone(r)
              /\ UNCHANGED <<active, outcome>>
         ELSE Return(r, "failed") /\ UNCHANGED plan
    /\ UNCHANGED <<odoo, edits, seen, mutation, landed>>

\* transport.execute_method.
Send(r) ==
    /\ At(r, "send")
    /\ mutation' = [mutation EXCEPT ![r].status = "sent"]
    /\ Goto(r, "wait", 0)
    /\ UNCHANGED <<odoo, edits, active, plan, seen, landed, outcome>>

----------------------------------------------------------------------------
\* Odoo (external).

NewRow(r) == [id |-> writes + 1 + Cardinality(InitialInputs), type |-> Ask[r].type,
              name |-> Ask[r].value, amount |-> Ask[r].value, write_date |-> writes + 1]

Written(r, row) ==
    [f \in DOMAIN row |-> IF f \in Ask[r].sets THEN Ask[r].value
                          ELSE IF f = "write_date" THEN writes + 1 ELSE row[f]]

\* compute_sheet leaves the payslip in this state.
ComputedState == IF Version = 18 THEN "verify" ELSE "draft"

\* Odoo applies the mutation, whether or not anyone still waits for it.
Land(r) ==
    LET row == Find(inputs, Ask[r].input) IN
    /\ mutation[r].status = "sent"
    /\ Op(r) \in {"update", "remove"} => row # NoRow
    /\ Op(r) = "recalculate" => slip.state # "done"
    /\ mutation' = [mutation EXCEPT ![r] = [status |-> "applied", id |-> NewRow(r).id]]
    /\ landed' = [landed EXCEPT ![r] = [inputs |-> inputs, at |-> writes + 1]]
    /\ writes' = writes + 1
    /\ CASE Op(r) = "create" -> inputs' = inputs \cup {NewRow(r)} /\ UNCHANGED <<slip, lines>>
         [] Op(r) = "update" -> /\ inputs' = Others(inputs, row.id) \cup {Written(r, row)}
                                /\ UNCHANGED <<slip, lines>>
         [] Op(r) = "remove" -> inputs' = Others(inputs, row.id) /\ UNCHANGED <<slip, lines>>
         [] OTHER -> /\ lines' = writes + 1
                     /\ slip' = [state |-> ComputedState, write_date |-> writes + 1]
                     /\ UNCHANGED inputs
    /\ UNCHANGED <<edits, active, step, plan, seen, outcome>>

\* Odoo refuses: access is denied (or compute_sheet answers False), or the call
\* fails with any other error.
Refuse(r) ==
    /\ mutation[r].status = "sent"
    /\ \E status \in {"denied", "error"} :
          mutation' = [mutation EXCEPT ![r].status = status]
    /\ UNCHANGED <<odoo, edits, active, step, plan, seen, landed, outcome>>

\* An Odoo user changes, adds or removes an input.
Edit ==
    /\ edits < MaxEdits
    /\ \/ \E i \in inputs, f \in Fields, v \in Values :
             inputs' = (inputs \ {i}) \cup {[i EXCEPT ![f] = v, !.write_date = writes + 1]}
       \/ \E t \in Types, v \in Values :
             inputs' = inputs \cup {[id |-> writes + 1 + Cardinality(InitialInputs), type |-> t,
                                     name |-> v, amount |-> v, write_date |-> writes + 1]}
       \/ \E i \in inputs : inputs' = inputs \ {i}
    /\ edits' = edits + 1
    /\ writes' = writes + 1
    /\ UNCHANGED <<slip, lines, active, step, plan, seen, mutation, landed, outcome>>

\* An Odoo user confirms the payslip or sets it back to draft.
Transition ==
    /\ edits < MaxEdits
    /\ slip' = [state |-> IF slip.state = "done" THEN "draft" ELSE "done",
                write_date |-> writes + 1]
    /\ edits' = edits + 1
    /\ writes' = writes + 1
    /\ UNCHANGED <<inputs, lines, active, step, plan, seen, mutation, landed, outcome>>

\* An Odoo user computes the payslip anew, as a recalculation would.
Recompute ==
    /\ edits < MaxEdits
    /\ slip.state # "done"
    /\ lines' = writes + 1
    /\ slip' = [state |-> ComputedState, write_date |-> writes + 1]
    /\ edits' = edits + 1
    /\ writes' = writes + 1
    /\ UNCHANGED <<inputs, active, step, plan, seen, mutation, landed, outcome>>

----------------------------------------------------------------------------
\* The request, from the answer on.

\* PayrollWriteRejected for a denial; any other error leaves it unknown.
Answer(r) ==
    /\ At(r, "wait")
    /\ \/ /\ mutation[r].status = "applied"
          /\ Goto(r, "back", 1)
          /\ UNCHANGED <<active, outcome>>
       \/ mutation[r].status = "denied" /\ Return(r, "failed")
       \/ mutation[r].status = "error" /\ Return(r, "unknown")
    /\ UNCHANGED <<odoo, edits, plan, seen, mutation, landed>>

Verify(r) ==
    LET read == ReadBack(r)[step[r].pass] IN
    /\ At(r, "back")
    /\ seen' = [seen EXCEPT ![r] = Remembered(r, read)]
    /\ IF ~Agrees(r, read) THEN Return(r, "unknown")
       ELSE IF step[r].pass < Len(ReadBack(r))
              THEN Goto(r, "back", step[r].pass + 1) /\ UNCHANGED <<active, outcome>>
              ELSE Return(r, "succeeded")
    /\ UNCHANGED <<odoo, edits, plan, mutation, landed>>

\* What a caller is told when a read or the answer does not come (timeout,
\* transport error, denied read) or the call is cancelled: unknown once execute
\* has begun, failed before.
\* Mutant of Unanswered: unknown only once Odoo has answered.
UnansweredEarly(r) == IF At(r, "back") THEN "unknown" ELSE "failed"
Unanswered(r) ==
    IF step[r].at \in {"slip", "inputs", "lines"} /\ ~InExecute(r)
      THEN "failed" ELSE "unknown"

GiveUp(r) ==
    /\ Running(r)
    /\ Return(r, Unanswered(r))
    /\ UNCHANGED <<odoo, edits, plan, seen, mutation, landed>>

\* The process dies: its calls are never answered and the lock dies with it.
Crash(p) ==
    LET lost == {r \in Requests : Ask[r].process = p /\ Running(r)} IN
    /\ lost # {}
    /\ active' = active \ {p}
    /\ step' = [r \in Requests |-> IF r \in lost THEN [at |-> "done", pass |-> 0] ELSE step[r]]
    /\ outcome' = [r \in Requests |-> IF r \in lost THEN "unknown" ELSE outcome[r]]
    /\ UNCHANGED <<odoo, edits, plan, seen, mutation, landed>>

Advance(r) ==
    \/ ReadSlip(r) \/ ReadInputs(r) \/ ReadLines(r) \/ Send(r)
    \/ Answer(r) \/ Verify(r) \/ GiveUp(r)

Next ==
    \/ \E r \in Requests : Submit(r) \/ Advance(r) \/ Land(r) \/ Refuse(r)
    \/ \E p \in Processes : Crash(p)
    \/ Edit \/ Transition \/ Recompute

Spec == Init /\ [][Next]_vars

\* Every await of a running call ends: the transport has a timeout.
FairSpec == Spec /\ \A r \in Requests : WF_vars(Advance(r))

----------------------------------------------------------------------------
\* Properties.

\* Where a request compares what it reads with its plan, and where it is before
\* its mutation is sent.
Reading == {"slip", "inputs", "lines"}
Unsent == Reading \cup {"new", "send"}

MutationType == [status : {"none", "sent", "applied", "denied", "error"}, id : Nat]
PlanType == [slip : SlipRow, inputs : SUBSET Row, lines : Nat, at : Nat]

\* Every variable keeps its type, input ids are unique and below the next one
\* Odoo gives out, and nothing is dated later than the last write.
TypeOK ==
    /\ slip \in SlipRow
    /\ inputs \subseteq Row
    /\ writes \in Nat /\ edits \in Nat /\ lines \in Nat
    /\ active \subseteq Processes
    /\ step \in [Requests -> [at : {"new", "slip", "inputs", "lines", "send", "wait",
                                   "back", "done"}, pass : 0 .. 5]]
    /\ \A r \in Requests : step[r].at \in Reading => step[r].pass \in 1 .. Passes(r)
    /\ outcome \in [Requests -> {"none", "failed", "unknown", "succeeded"}]
    /\ mutation \in [Requests -> MutationType]
    /\ plan \in [Requests -> PlanType]
    /\ landed \in [Requests -> [inputs : SUBSET Row, at : Nat]]
    /\ seen \in [Requests -> Row \cup SlipRow \cup {NoRow}]
    /\ \A i, j \in inputs : i.id = j.id => i = j
    /\ \A i \in inputs : /\ i.write_date <= writes
                         /\ i.id <= writes + Cardinality(InitialInputs)

\* A write reports success only if every other input the plan was made from
\* was still there, unchanged, when Odoo applied the mutation: changes by Odoo
\* users and by late mutations between the last check and the mutation are
\* noticed by the read-back, also when they were undone before it.
SuccessIsolated ==
    \A r \in Requests :
        outcome[r] = "succeeded" =>
           {i \in plan[r].inputs : i.id # TargetId(r)} \subseteq landed[r].inputs

\* "serializes writes per payslip" (README.md): of two writes that succeed, one
\* was planned after the other had been applied.
SerialSuccess ==
    \A r, q \in Requests :
        /\ r # q /\ outcome[r] = "succeeded" /\ outcome[q] = "succeeded"
        => landed[r].at <= plan[q].at \/ landed[q].at <= plan[r].at

\* A call told that its write failed has left nothing in Odoo and never will:
\* a mutation still on its way is reported as unknown.
FailedNeverLands ==
    \A r \in Requests :
        outcome[r] = "failed" => mutation[r].status \notin {"sent", "applied"}

\* The strengthening of FailedNeverLands that is inductive: where a request is
\* bounds what became of its mutation, and a request that was answered is done.
StageInv ==
    \A r \in Requests :
        /\ step[r].at \in Unsent => mutation[r].status = "none"
        /\ At(r, "back") => mutation[r].status = "applied"
        /\ outcome[r] # "none" => At(r, "done")
        /\ outcome[r] = "succeeded" => mutation[r].status = "applied"
        /\ outcome[r] = "failed" => mutation[r].status \notin {"sent", "applied"}

\* The read-back has compared the inputs it did not write.
ComparedOthers(r) ==
    At(r, "back") /\ step[r].pass > IF Op(r) = "remove" THEN 3 ELSE 2

Isolated(r) == {i \in plan[r].inputs : i.id # TargetId(r)} \subseteq landed[r].inputs

\* The strengthening of SuccessIsolated that is inductive: what was planned from
\* is not dated in the future, so a row that was gone when the mutation was
\* applied never comes back as it was.
IsolationInv ==
    \A r \in Requests :
        /\ \A i \in plan[r].inputs : i.write_date <= writes
        /\ mutation[r].status = "applied" => plan[r].inputs \cap inputs \subseteq landed[r].inputs
        /\ ComparedOthers(r) \/ outcome[r] = "succeeded" => Isolated(r)

SameProcess(r, q) == Ask[r].process = Ask[q].process

\* The payslip lock: a process runs one write on the payslip at a time.
LockInv ==
    /\ \A r \in Requests : Running(r) => Ask[r].process \in active
    /\ \A r, q \in Requests : SameProcess(r, q) /\ Running(r) /\ Running(q) => r = q

\* The first read of the payslip is over.
Planned(r) == Running(r) /\ (At(r, "slip") => step[r].pass # 1)

\* The strengthening of SerialSuccess that is inductive, within one process: a
\* write planned while another one is on record as a success is planned after it.
SerialInv ==
    /\ \A r \in Requests : mutation[r].status = "applied" => landed[r].at <= writes
    /\ \A r, q \in Requests :
          /\ r # q /\ SameProcess(r, q) /\ outcome[r] = "succeeded"
          => /\ Planned(q) => landed[r].at <= plan[q].at
             /\ outcome[q] = "succeeded" =>
                   landed[r].at <= plan[q].at \/ landed[q].at <= plan[r].at

\* The payslip lock of a process is always given back: a write that fails, is
\* cancelled or times out never leaves its payslip locked.
LockReleased == \A p \in Processes : p \in active ~> p \notin active

=============================================================================
