-------------------------- MODULE MCPayrollWrites --------------------------
(***************************************************************************)
(* Small instances of PayrollWrites for TLC: two inputs, and requests that *)
(* create a third, change the first, remove the second and recalculate.    *)
(***************************************************************************)
EXTENDS PayrollWrites

VARIABLE scene   \* which of the scenes below; it does not change

CONSTANTS p1, p2, create, update, update2, remove, recalculate

MCInput(id, type) == [id |-> id, type |-> type, name |-> "old", amount |-> "old",
                      write_date |-> 0]
MCInitialInputs == {MCInput(1, "bonus"), MCInput(2, "travel")}

MCAsk ==
    [r \in Requests |->
        [operation |-> CASE r = create -> "create" [] r = remove -> "remove"
                         [] r = recalculate -> "recalculate" [] OTHER -> "update",
         process |-> IF r = update2 /\ p2 \in Processes THEN p2 ELSE p1,
         input |-> CASE r = remove -> 2 [] r \in {update, update2} -> 1 [] OTHER -> 0,
         type |-> "meal",
         sets |-> IF r = update2 THEN {"name", "amount"} ELSE {"amount"},
         value |-> "new"]]

\* In one process: writes that add and take away inputs, a write and a
\* recalculation among users who edit, either of them alone among users who edit
\* and undo it, and three writes that contend for the lock.
InOneProcess ==
    {[requests |-> {create, remove}, version |-> 18, edits |-> 1],
     [requests |-> {update, recalculate}, version |-> 19, edits |-> 1],
     [requests |-> {update}, version |-> 18, edits |-> 2],
     [requests |-> {recalculate}, version |-> 19, edits |-> 2],
     [requests |-> {update, update2, recalculate}, version |-> 19, edits |-> 0]}

InTwoProcesses == {[requests |-> {update, update2}, version |-> 18, edits |-> 0]}

Scenes == IF p2 \in Processes THEN InTwoProcesses ELSE InOneProcess

Odoo18 == INSTANCE PayrollWrites WITH Version <- 18
Odoo19 == INSTANCE PayrollWrites WITH Version <- 19

AllNext ==
    /\ \/ scene.version = 18 /\ Odoo18!Next
       \/ scene.version = 19 /\ Odoo19!Next
    /\ \A r \in Requests \ scene.requests : step'[r].at = "new"
    /\ edits' <= scene.edits
    /\ UNCHANGED scene

AdvanceIn(r) == /\ \/ scene.version = 18 /\ Odoo18!Advance(r)
                   \/ scene.version = 19 /\ Odoo19!Advance(r)
                /\ UNCHANGED scene

AllInit == scene \in Scenes /\ Init

AllSpec == /\ AllInit
           /\ [][AllNext]_<<vars, scene>>
           /\ \A r \in Requests : WF_<<vars, scene>>(AdvanceIn(r))
=============================================================================
