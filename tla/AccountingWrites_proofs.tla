----------------------- MODULE AccountingWrites_proofs -----------------------
(***************************************************************************)
(* Proofs about AccountingWrites: for any number of calls, of Odoo users'  *)
(* edits, of documents and currencies, and any rounding increments.        *)
(***************************************************************************)
EXTENDS AccountingWrites, FiniteSetTheorems, WellFoundedInduction, TLAPS

----------------------------------------------------------------------------
\* Numbers.

LEMMA NatOrder ==
  \E R : IsWellFoundedOn(R, Nat) /\ \A x, y \in Nat : <<y, x>> \in R <=> y < x
  <1>1. IsWellFoundedOn(OpToRel(<, Nat), Nat)
    BY NatLessThanWellFounded
  <1>2. \A x, y \in Nat : <<y, x>> \in OpToRel(<, Nat) <=> y < x
    BY DEF OpToRel
  <1> QED
    BY <1>1, <1>2, Zenon

LEMMA LeastNat ==
  ASSUME NEW T \in SUBSET Nat, T # {}
  PROVE  \E x \in T : \A y \in T : x <= y
  <1>1. PICK R : IsWellFoundedOn(R, Nat) /\ \A x, y \in Nat : <<y, x>> \in R <=> y < x
    BY NatOrder
  <1>2. \E x \in T : \A y \in T : ~ (<<y, x>> \in R)
    BY <1>1, WFMin
  <1>3. PICK x \in T : \A y \in T : ~ (<<y, x>> \in R)
    BY <1>2
  <1>4. ASSUME NEW y \in T PROVE x <= y
    <2>1. x \in Nat /\ y \in Nat
      OBVIOUS
    <2>2. ~(y < x)
      BY <1>1, <1>3, <2>1, Zenon
    <2> QED
      BY <2>1, <2>2
  <1> QED
    BY <1>4

LEMMA DivBounds ==
  ASSUME NEW n \in Int, NEW d \in Nat \ {0}
  PROVE  n \div d \in Int /\ (n \div d) * d <= n /\ n < (n \div d) * d + d
  OBVIOUS

LEMMA CancelFactor ==
  ASSUME NEW p \in Int, NEW q \in Int, NEW d \in Nat \ {0}, p * d = q * d
  PROVE  p = q
  OBVIOUS

LEMMA EqualQuotients ==
  ASSUME NEW m \in Int, NEW n \in Int, NEW d \in Nat \ {0}, m \div d = n \div d
  PROVE  m - n < d
  <1> DEFINE x == (m \div d) * d
  <1>1. m \div d \in Int /\ x <= m /\ m < x + d
    BY DivBounds
  <1>2. x <= n
    BY DivBounds
  <1>3. x \in Int
    BY <1>1
  <1> HIDE DEF x
  <1> QED
    BY <1>1, <1>2, <1>3

\* Amounts that round alike are less than one unit of precision apart.
LEMMA RoundedNear ==
  ASSUME NEW a \in Int, NEW b \in Int, NEW cur \in Currencies, Rounded(a, cur) = Rounded(b, cur)
  PROVE  Near(a, b, cur)
  <1> DEFINE increment == Increment[cur]
             d == 2 * increment
             m == 2 * a + increment
             n == 2 * b + increment
             p == m \div d
             q == n \div d
  <1>1. increment \in Nat \ {0} /\ d \in Nat \ {0} /\ m \in Int /\ n \in Int
    BY AccountingAssumption
  <1>2. p * increment = q * increment
    BY DEF Rounded
  <1>0. Near(a, b, cur) <=> a - b < increment /\ b - a < increment
    BY DEF Near
  <1> HIDE DEF d, m, n, increment
  <1>3. p \in Int /\ q \in Int
    BY <1>1, DivBounds
  <1> HIDE DEF p, q
  <1>4. p = q
    BY <1>1, <1>2, <1>3, CancelFactor
  <1>5. m - n < d /\ n - m < d
    BY <1>1, <1>4, EqualQuotients DEF p, q
  <1> QED
    BY <1>0, <1>1, <1>5 DEF d, m, n

----------------------------------------------------------------------------
\* Moves.

LEMMA RowFacts ==
  ASSUME NEW m \in LiveMove \cup {Absent, Deleted}
  PROVE  /\ Exists(m) <=> m \in LiveMove
         /\ m.state \in {"draft", "posted"} => m \in LiveMove
         /\ m.kind \in Kinds => m \in LiveMove
         /\ m.lines \in LinesType /\ m.residual \in Int
  <1>1. CASE m \in LiveMove
    <2>1. m.kind # "none" /\ m.lines \in LinesType /\ m.residual \in Int
      BY <1>1 DEF LiveMove, Kinds
    <2>2. Absent.kind = "none" /\ Deleted.kind = "none"
      BY DEF Absent, Deleted
    <2> QED
      BY <1>1, <2>1, <2>2 DEF Exists
  <1>2. CASE m \in {Absent, Deleted}
    <2>1. m.kind = "none" /\ m.state \notin {"draft", "posted"} /\ m.residual \in Int
      BY <1>2 DEF Absent, Deleted
    <2>2. m.lines \in LinesType
      <3> DEFINE none == [debit |-> 0, credit |-> 0, total |-> 0, currency |-> Home,
                          sound |-> FALSE]
      <3>1. none \in LinesType
        BY AccountingAssumption DEF LinesType
      <3>2. Absent.lines = none
        BY DEF Absent
      <3>3. Deleted.lines = Absent.lines
        BY DEF Absent, Deleted
      <3> QED
        BY <1>2, <3>1, <3>2, <3>3
    <2>3. m \notin LiveMove /\ m.kind \notin Kinds
      BY <2>1 DEF LiveMove, Kinds
    <2> QED
      BY <1>2, <2>1, <2>2, <2>3 DEF Exists
  <1> QED
    BY <1>1, <1>2

LEMMA NewMoveType ==
  ASSUME NEW kind \in Kinds, NEW source \in MoveIds \cup {0}, NEW doc,
         doc \in DocType \cup LiveMove
  PROVE  /\ NewMove(kind, doc, source) \in LiveMove
         /\ NewMove(kind, doc, source).residual >= 0
         /\ NewMove(kind, doc, source).source = source
  BY DEF NewMove, DocType, LiveMove, Kinds, LinesType

\* The next id was not in use.
LEMMA FreshIdFacts ==
  ASSUME HasRoom
  PROVE  FreshId \in MoveIds /\ moves[FreshId] = Absent
  <1> DEFINE T == {m \in MoveIds : moves[m] = Absent}
  <1>1. T \in SUBSET Nat /\ T # {}
    BY AccountingAssumption DEF HasRoom
  <1>2. PICK x \in T : \A y \in T : x <= y
    BY <1>1, LeastNat
  <1>3. ASSUME NEW n \in MoveIds, n < x PROVE moves[n] # Absent
    BY <1>2, <1>3, AccountingAssumption
  <1>4. \E m \in MoveIds : /\ moves[m] = Absent
                           /\ \A n \in MoveIds : n < m => moves[n] # Absent
    BY <1>2, <1>3
  <1> QED
    BY <1>4 DEF FreshId

----------------------------------------------------------------------------
\* The tools and their steps.

LEMMA ToolFacts ==
  ASSUME NEW t \in CreateTools \cup MoveTools
  PROVE  /\ Tool[t].prepare \in PrepareSteps[t] /\ Tool[t].execute \in ExecuteSteps[t]
         /\ PrepareSteps[t] \cup ExecuteSteps[t] \cup ReadBackSteps[t] \subseteq StepNames
         /\ (PrepareSteps[t] \cup ExecuteSteps[t]) \cap ReadBackSteps[t] = {}
         /\ PrepareSteps[t] \cap ExecuteSteps[t] = {}
         /\ "ended" \notin PrepareSteps[t] \cup ExecuteSteps[t] \cup ReadBackSteps[t]
         /\ "idle" \notin PrepareSteps[t] \cup ExecuteSteps[t] \cup ReadBackSteps[t]
         /\ Tool[t].prepare \in {"invoice_refs", "entry_refs", "invoice", "entry"}
         /\ Tool[t].execute \in {"create_invoice", "create_entry", "post", "recheck_entry",
                                 "recheck_original", "recheck_payment"}
  BY DEF CreateTools, MoveTools, PostTools, Tool, CreateInvoiceTool, CreateEntryTool,
         ValidateInvoiceTool, PostEntryTool, CreditNoteTool, PaymentTool,
         PrepareSteps, ExecuteSteps, ReadBackSteps, StepNames

LEMMA CallTool ==
  ASSUME NEW r \in CallType
  PROVE  /\ r.req \in RequestType /\ r.req \in Requests
         /\ r.req.tool \in CreateTools \cup MoveTools
         /\ r.req.tool \in MoveTools => r.req.move \in MoveIds
         /\ r.req.doc \in DocType /\ r.req.amount \in Nat /\ r.req.refs \subseteq Refs
  <1>1. r.req \in Requests
    BY DEF CallType
  <1>2. r.req \in RequestType
    BY <1>1, AccountingAssumption
  <1> QED
    BY <1>1, <1>2, AccountingAssumption DEF RequestType

\* Where a call can be while it prepares, executes and reads back.
LEMMA ControlFacts ==
  ASSUME NEW r \in CallType, ControlOK(r)
  PROVE  /\ r.phase \in {"prepare", "validate"} /\ r.step # "ended" =>
               /\ r.step \in PrepareSteps[r.req.tool]
               /\ r.landed = "no" /\ r.result = "none"
         /\ r.step \notin {"idle", "ended"} => r.phase # "idle"
         /\ r.step \notin {"idle", "ended"} \cup WriteSteps => r.result = "none"
         /\ r.step \in ReadBackSteps[r.req.tool] => r.result = "none"
         /\ r.phase = "execute" /\ r.step \in ExecuteSteps[r.req.tool] =>
               r.result = "none" \/ (r.result = "unknown" /\ r.step \in WriteSteps)
         /\ r.phase = "execute" /\ r.step \in ExecuteSteps[r.req.tool] => r.landed = "no"
         /\ r.phase = "validate" => r.snap \in SnapType(r.req.tool)
         /\ r.phase = "execute" => r.snap \in SnapType(r.req.tool)
  <1>1. r.req.tool \in CreateTools \cup MoveTools
    BY CallTool
  <1>2. ReadBackSteps[r.req.tool] \cap WriteSteps = {}
    BY <1>1 DEF ReadBackSteps, WriteSteps, CreateTools, MoveTools, PostTools
  <1> QED
    BY <1>1, <1>2, ToolFacts DEF ControlOK

LEMMA EndedOK ==
  ASSUME NEW r \in CallType, ControlOK(r), r.step \notin {"idle", "ended"},
         NEW result \in {"needs_input", "failed", "unknown", "applied"}
  PROVE  Ended(r, result) \in CallType /\ ControlOK(Ended(r, result))
  <1> DEFINE s == Ended(r, result)
  <1>1. s \in CallType
    <2>1. "ended" \in StepNames /\ result \in Results
      BY DEF StepNames, Results
    <2> QED
      BY <2>1 DEF CallType, Ended
  <1>2. /\ s.req = r.req /\ s.phase = r.phase /\ s.snap = r.snap /\ s.landed = r.landed
        /\ s.own = r.own /\ s.reported = r.reported /\ s.routes = r.routes
        /\ s.step = "ended" /\ s.result = result
    BY DEF CallType, Ended
  <1>3. r.phase # "idle"
    BY ControlFacts
  <1> HIDE DEF s
  <1>4. "ended" \notin ReadBackSteps[r.req.tool]
    BY CallTool, ToolFacts
  <1>5. ControlOK(s)
    BY <1>1, <1>2, <1>3, <1>4 DEF ControlOK
  <1> QED
    BY <1>1, <1>5 DEF s

LEMMA NextPhaseOK ==
  ASSUME NEW r \in CallType, ControlOK(r), r.phase \in {"prepare", "validate"}, r.step # "ended",
         NEW value \in SnapType(r.req.tool)
  PROVE  NextPhase(r, value) \in CallType /\ ControlOK(NextPhase(r, value))
  <1> DEFINE s == NextPhase(r, value)
             tool == r.req.tool
  <1>1. /\ tool \in CreateTools \cup MoveTools
        /\ Tool[tool].prepare \in StepNames /\ Tool[tool].execute \in StepNames
    BY CallTool, ToolFacts
  <1>2. value \in SnapValues /\ "validate" \in Phases /\ "execute" \in Phases
    BY <1>1 DEF SnapType, SnapValues, Phases
  <1>3. s \in CallType
    BY <1>1, <1>2 DEF CallType, NextPhase
  <1>4. /\ s.req = r.req /\ s.landed = r.landed /\ s.routes = r.routes /\ s.result = r.result
        /\ r.phase = "prepare" =>
              s.phase = "validate" /\ s.step = Tool[tool].prepare /\ s.snap = value
        /\ r.phase = "validate" =>
              s.phase = "execute" /\ s.step = Tool[tool].execute /\ s.snap = r.snap
    BY DEF CallType, NextPhase
  <1>5. r.landed = "no" /\ r.result = "none" /\ (r.phase = "validate" => r.snap \in SnapType(tool))
    BY ControlFacts
  <1>6. IsFiniteSet(r.routes)
    BY DEF ControlOK
  <1> HIDE DEF s
  <1>7. ControlOK(s)
    BY <1>1, <1>4, <1>5, <1>6, ToolFacts DEF ControlOK
  <1> QED
    BY <1>3, <1>7 DEF s

\* prepare_op and validate_op end in one of three ways.
LEMMA ConcludedCases ==
  ASSUME NEW r, NEW value, NEW findings, r.phase \in {"prepare", "validate"}
  PROVE  \/ Concluded(r, value, findings) = Ended(r, "needs_input")
         \/ Concluded(r, value, findings) = Ended(r, "failed")
         \/ /\ Concluded(r, value, findings) = NextPhase(r, value)
            /\ r.phase = "prepare" => findings = {}
            /\ r.phase = "validate" => value = r.snap
  BY DEF Concluded

LEMMA ConcludedOK ==
  ASSUME NEW r \in CallType, ControlOK(r), r.phase \in {"prepare", "validate"}, r.step # "ended",
         NEW value, NEW findings,
         value \in SnapType(r.req.tool) \/ findings # {}
  PROVE  Concluded(r, value, findings) \in CallType /\ ControlOK(Concluded(r, value, findings))
  <1>1. r.step \notin {"idle", "ended"}
    BY CallTool, ToolFacts, ControlFacts
  <1>2. CASE \E result \in {"needs_input", "failed"} :
                Concluded(r, value, findings) = Ended(r, result)
    BY <1>1, <1>2, EndedOK
  <1>3. CASE /\ Concluded(r, value, findings) = NextPhase(r, value)
             /\ r.phase = "prepare" => findings = {}
             /\ r.phase = "validate" => value = r.snap
    <2>1. value \in SnapType(r.req.tool)
      BY <1>3, ControlFacts
    <2> QED
      BY <1>3, <2>1, NextPhaseOK
  <1> QED
    BY <1>2, <1>3, ConcludedCases

----------------------------------------------------------------------------
\* One call's part of the invariant.

Sound(r) == r \in CallType /\ ControlOK(r) /\ CallOK(r)

IInv == TypeOK /\ CallsInv

LEMMA SoundCalls ==
  ASSUME IInv, NEW c \in Calls
  PROVE  Sound(call[c])
  BY DEF IInv, TypeOK, CallsInv, Sound

LEMMA EndedSound ==
  ASSUME NEW r, Sound(r), r.step \notin {"idle", "ended"},
         NEW result \in {"needs_input", "failed", "unknown", "applied"},
         r.req.tool = "credit_note" /\ result = "applied" => r.step = "confirm"
  PROVE  Sound(Ended(r, result))
  <1> DEFINE s == Ended(r, result)
  <1>1. s \in CallType /\ ControlOK(s)
    BY EndedOK DEF Sound
  <1>2. /\ s.req = r.req /\ s.phase = r.phase /\ s.snap = r.snap /\ s.landed = r.landed
        /\ s.own = r.own /\ s.reported = r.reported /\ s.named = r.named /\ s.missed = r.missed
        /\ s.existing = r.existing /\ s.fresh = r.fresh /\ s.checked = r.checked
        /\ s.acted = r.acted /\ s.step = "ended" /\ s.result = result
    BY DEF CallType, Ended, Sound
  <1>3. FreshOK(r) /\ PreparedOK(r) /\ ActedOK(r) /\ CreditOK(r) /\ PaymentOK(r)
    BY DEF Sound, CallOK
  <1> HIDE DEF s
  <1>4. FreshOK(s)
    BY <1>2, <1>3 DEF FreshOK
  <1>5. PreparedOK(s) /\ ActedOK(s)
    BY <1>2, <1>3 DEF PreparedOK, ActedOK
  <1>6. CreditOK(s) /\ PaymentOK(s)
    BY <1>2, <1>3 DEF CreditOK, PaymentOK
  <1> QED
    BY <1>1, <1>4, <1>5, <1>6 DEF Sound, CallOK, s

\* A read of prepare_op or validate_op.
LEMMA PrepareStepSound ==
  ASSUME NEW r, Sound(r), r.phase \in {"prepare", "validate"}, r.step # "ended",
         NEW s \in CallType,
         s.req = r.req, s.phase = r.phase, s.snap = r.snap, s.landed = r.landed,
         s.result = r.result, s.step \in PrepareSteps[r.req.tool],
         s.step \in {"invoice_lines", "entry_lines"} => s.head \in HeadType,
         s.step \in {"preview", "routes", "select"} => s.effect \in EffectType,
         IsFiniteSet(s.routes), FreshOK(s),
         r.req.tool \in CreateTools => s.checked \subseteq r.req.refs,
         r.req.tool \in CreateTools /\ s.step \in {"invoice_draft", "entry_draft"} =>
            s.checked = r.req.refs
  PROVE  Sound(s)
  <1> DEFINE tool == r.req.tool
  <1>1. r \in CallType /\ ControlOK(r) /\ PreparedOK(r)
    BY DEF Sound, CallOK
  <1>2. r.landed = "no" /\ r.result = "none" /\ (r.phase = "validate" => r.snap \in SnapType(tool))
    BY <1>1, ControlFacts
  <1>3. /\ tool \in CreateTools \cup MoveTools
        /\ s.step \notin ReadBackSteps[tool] \cup {"ended", "idle"}
    BY <1>1, CallTool, ToolFacts
  <1>4. s.step \notin {"reverse", "list", "confirm", "wizard", "pay"}
    BY <1>3 DEF PrepareSteps, CreateTools, MoveTools, PostTools
  <1>5. ControlOK(s)
    BY <1>2, <1>3 DEF ControlOK
  <1>6. PreparedOK(s)
    BY <1>1 DEF PreparedOK
  <1>7. ActedOK(s) /\ CreditOK(s) /\ PaymentOK(s)
    BY <1>2, <1>4 DEF ActedOK, CreditOK, PaymentOK
  <1> QED
    BY <1>5, <1>6, <1>7 DEF Sound, CallOK

\* The end of prepare_op and of validate_op.
LEMMA ConcludedSound ==
  ASSUME NEW r, Sound(r), r.phase \in {"prepare", "validate"}, r.step # "ended",
         NEW value, NEW findings,
         value \in SnapType(r.req.tool) \/ findings # {},
         r.req.tool \in CreateTools => r.checked = r.req.refs,
         r.fresh /\ r.req.tool \in MoveTools /\ value \in SnapType(r.req.tool) =>
            /\ Exists(moves[r.req.move])
            /\ r.req.tool # "payment" => value = EffectOf(moves[r.req.move])
            /\ r.req.tool = "payment" => value.effect = EffectOf(moves[r.req.move]),
         findings = {} /\ r.req.tool = "create_entry" => BalanceFindings(r.req.doc.lines) = {},
         findings = {} /\ r.req.tool = "validate_invoice" =>
            ValidationFindings(value.head, value.lines) = {},
         findings = {} /\ r.req.tool = "post_entry" => PostFindings(value.lines) = {}
  PROVE  Sound(Concluded(r, value, findings))
  <1> DEFINE tool == r.req.tool
             s == Concluded(r, value, findings)
  <1>1. /\ r \in CallType /\ ControlOK(r)
        /\ FreshOK(r) /\ PreparedOK(r) /\ ActedOK(r) /\ CreditOK(r) /\ PaymentOK(r)
    BY DEF Sound, CallOK
  <1>2. r.landed = "no" /\ r.result = "none" /\ (r.phase = "validate" => r.snap \in SnapType(tool))
        /\ r.step \in PrepareSteps[tool]
    BY <1>1, ControlFacts
  <1>3. tool \in CreateTools \cup MoveTools /\ r.step \notin {"idle", "ended"}
    BY <1>1, <1>2, CallTool, ToolFacts
  <1>4. CASE \E result \in {"needs_input", "failed"} : s = Ended(r, result)
    BY <1>3, <1>4, EndedSound
  <1>5. CASE /\ s = NextPhase(r, value)
             /\ r.phase = "prepare" => findings = {}
             /\ r.phase = "validate" => value = r.snap
    <2>1. value \in SnapType(tool)
      BY <1>2, <1>5
    <2>2. s \in CallType /\ ControlOK(s)
      BY <1>1, <1>5, <2>1, NextPhaseOK
    <2>3. /\ s.req = r.req /\ s.landed = r.landed /\ s.result = r.result /\ s.fresh = r.fresh
          /\ r.phase = "prepare" => /\ s.phase = "validate" /\ s.step = Tool[tool].prepare
                                    /\ s.snap = value /\ s.checked = {}
          /\ r.phase = "validate" => /\ s.phase = "execute" /\ s.step = Tool[tool].execute
                                     /\ s.snap = r.snap /\ s.checked = r.checked
      BY <1>1, <1>5 DEF CallType, NextPhase
    <2>4. s.step \in {"invoice_refs", "entry_refs", "invoice", "entry", "create_invoice",
                      "create_entry", "post", "recheck_entry", "recheck_original",
                      "recheck_payment"}
      BY <1>3, <2>3, ToolFacts
    <2> HIDE DEF s
    <2>5. tool \in CreateTools => tool \notin MoveTools
      BY DEF CreateTools, MoveTools, PostTools
    <2>6. FreshOK(s)
      BY <1>1, <1>2, <1>3, <1>5, <2>1, <2>3, <2>4, <2>5 DEF FreshOK
    <2>7. PreparedOK(s)
      BY <1>1, <1>2, <1>5, <2>3, <2>4 DEF PreparedOK
    <2>8. ActedOK(s) /\ CreditOK(s) /\ PaymentOK(s)
      BY <1>2, <2>3, <2>4 DEF ActedOK, CreditOK, PaymentOK
    <2> QED
      BY <2>2, <2>6, <2>7, <2>8 DEF Sound, CallOK, s
  <1> QED
    BY <1>4, <1>5, ConcludedCases

\* A look of execute_op before its write.
LEMMA ExecuteStepSound ==
  ASSUME NEW r, Sound(r), r.phase = "execute", r.step \in ExecuteSteps[r.req.tool] \ WriteSteps,
         NEW s \in CallType,
         s.req = r.req, s.phase = r.phase, s.snap = r.snap, s.landed = r.landed,
         s.result = r.result, s.routes = r.routes, s.checked = r.checked, s.fresh = r.fresh,
         s.step \in ExecuteSteps[r.req.tool],
         s.step = "pay" => codes[r.snap.route.journal] = r.snap.route.code,
         CreditOK(s), PaymentOK(s)
  PROVE  Sound(s)
  <1> DEFINE tool == r.req.tool
  <1>1. r \in CallType /\ ControlOK(r) /\ FreshOK(r) /\ PreparedOK(r) /\ ActedOK(r)
    BY DEF Sound, CallOK
  <1>2. tool \in CreateTools \cup MoveTools
    BY <1>1, CallTool
  <1>3. r.landed = "no" /\ r.snap \in SnapType(tool) /\ r.result = "none"
    BY <1>1, <1>2, ControlFacts, ToolFacts
  <1>4. s.step \notin ReadBackSteps[tool] \cup PrepareSteps[tool] \cup {"ended", "idle"}
    BY <1>2, ToolFacts
  <1>5. s.step \notin {"invoice_lines", "entry_lines", "preview", "routes", "select",
                       "invoice_draft", "entry_draft"}
    BY <1>2 DEF ExecuteSteps, CreateTools, MoveTools, PostTools
  <1>6. ControlOK(s)
    BY <1>1, <1>3, <1>4, <1>5 DEF ControlOK
  <1>7. FreshOK(s)
    BY <1>1, <1>5 DEF FreshOK
  <1>8. PreparedOK(s) /\ ActedOK(s)
    BY <1>1, <1>3, <1>5 DEF PreparedOK, ActedOK
  <1> QED
    BY <1>6, <1>7, <1>8 DEF Sound, CallOK

----------------------------------------------------------------------------
\* The steps that only read.

LEMMA StepKeeps ==
  ASSUME IInv, NEW c \in Calls, NEW s, Sound(s), Step(c, s), UNCHANGED odoo
  PROVE  IInv'
  <1>1. call \in [Calls -> CallType] /\ s \in CallType
    BY DEF IInv, TypeOK, Sound
  <1>2. call' = [call EXCEPT ![c] = s]
    BY DEF Step
  <1>3. /\ moves' = moves /\ active' = active /\ codes' = codes /\ edits' = edits
    BY DEF odoo
  <1>4. call' \in [Calls -> CallType]
    BY <1>1, <1>2
  <1>5. ASSUME NEW d \in Calls PROVE call'[d] = IF d = c THEN s ELSE call[d]
    BY <1>1, <1>2
  <1>6. \A d \in Calls : Sound(call'[d])
    BY <1>5, SoundCalls
  <1>7. TypeOK'
    BY <1>3, <1>4, <1>6 DEF IInv, TypeOK, Sound
  <1>8. ASSUME NEW d \in Calls PROVE CallOK(call[d])'
    BY <1>3, <1>6 DEF Sound, CallOK, FreshOK, PreparedOK, ActedOK, CreditOK, PaymentOK
  <1> QED
    BY <1>7, <1>8 DEF IInv, CallsInv

LEMMA BeginKeeps ==
  ASSUME IInv, NEW c \in Calls, Begin(c)
  PROVE  IInv'
  <1> DEFINE r == call[c]
             tool == r.req.tool
             s == [r EXCEPT !.phase = "prepare", !.step = Tool[tool].prepare]
  <1>1. /\ r \in CallType /\ ControlOK(r) /\ PreparedOK(r) /\ ActedOK(r)
        /\ FreshOK(r)
    BY SoundCalls DEF Sound, CallOK
  <1>2. r.phase = "idle" /\ r.step = "idle" /\ Step(c, s) /\ UNCHANGED odoo
    BY DEF Begin, At
  <1>3. tool \in CreateTools \cup MoveTools
    BY <1>1, CallTool
  <1>4. Tool[tool].prepare \in PrepareSteps[tool] /\ Tool[tool].prepare \in StepNames
    BY <1>3, ToolFacts
  <1>5. "prepare" \in Phases
    BY DEF Phases
  <1>6. s \in CallType
    BY <1>1, <1>4, <1>5 DEF CallType
  <1>7. /\ s.req = r.req /\ s.phase = "prepare" /\ s.step = Tool[tool].prepare
        /\ s.landed = r.landed /\ s.result = r.result /\ s.routes = r.routes
        /\ s.checked = r.checked /\ s.fresh = r.fresh
    BY <1>1 DEF CallType
  <1>8. r.landed = "no" /\ r.result = "none" /\ IsFiniteSet(r.routes)
    BY <1>1, <1>2 DEF ControlOK
  <1> HIDE DEF s
  <1>9. s.step \in {"invoice_refs", "entry_refs", "invoice", "entry"}
    BY <1>3, <1>7, ToolFacts
  <1>10. ControlOK(s)
    BY <1>3, <1>4, <1>7, <1>8, <1>9, ToolFacts DEF ControlOK
  <1>11. FreshOK(s)
    BY <1>1, <1>7, <1>9 DEF FreshOK
  <1>12. PreparedOK(s)
    BY <1>1, <1>7, <1>9 DEF PreparedOK
  <1>13. ActedOK(s) /\ CreditOK(s) /\ PaymentOK(s)
    BY <1>7, <1>8, <1>9 DEF ActedOK, CreditOK, PaymentOK
  <1>14. Sound(s)
    BY <1>6, <1>10, <1>11, <1>12, <1>13 DEF Sound, CallOK
  <1> QED
    BY <1>2, <1>14, StepKeeps

LEMMA CheckReferenceKeeps ==
  ASSUME IInv, NEW c \in Calls, NEW step, NEW next, CheckReference(c, step, next),
         <<step, next>> \in {<<"invoice_refs", "invoice_draft">>, <<"entry_refs", "entry_draft">>}
  PROVE  IInv'
  <1> DEFINE r == call[c]
             tool == r.req.tool
             left == r.req.refs \ r.checked
  <1>1. Sound(r) /\ r \in CallType /\ ControlOK(r) /\ PreparedOK(r) /\ FreshOK(r)
    BY SoundCalls DEF Sound, CallOK
  <1>2. PICK ref \in left :
          Step(c, IF ref \in active
                  THEN [r EXCEPT !.checked = @ \cup {ref},
                                 !.fresh = (@ \/ r.checked = {}),
                                 !.step = IF left = {ref} THEN next ELSE step]
                  ELSE Ended(r, "failed"))
    BY DEF CheckReference
  <1>3. r.phase \in {"prepare", "validate"} /\ r.step = step /\ UNCHANGED odoo
    BY DEF CheckReference, At
  <1>4. step \in {"invoice_refs", "entry_refs"} /\ next \in {"invoice_draft", "entry_draft"}
    OBVIOUS
  <1>5. CASE ref \in active
    <2> DEFINE s == [r EXCEPT !.checked = @ \cup {ref}, !.fresh = (@ \/ r.checked = {}),
                              !.step = IF left = {ref} THEN next ELSE step]
    <2>1. tool \in CreateTools \cup MoveTools /\ r.step \in PrepareSteps[tool] /\ r.req.refs \subseteq Refs
      BY <1>1, <1>3, <1>4, ControlFacts, CallTool
    <2>2. tool \in CreateTools /\ step \in PrepareSteps[tool] /\ next \in PrepareSteps[tool]
      BY <1>3, <2>1 DEF PrepareSteps, CreateTools, MoveTools, PostTools
    <2>3. step \in StepNames /\ next \in StepNames
      BY <2>1, <2>2, ToolFacts
    <2>4. r.checked \in SUBSET Refs /\ r.fresh \in BOOLEAN
      BY <1>1 DEF CallType
    <2>5. r.checked \cup {ref} \in SUBSET Refs /\ (r.fresh \/ r.checked = {}) \in BOOLEAN
      BY <2>1, <2>4
    <2>6. s \in CallType
      BY <1>1, <2>3, <2>5 DEF CallType
    <2>7. /\ s.req = r.req /\ s.phase = r.phase /\ s.snap = r.snap /\ s.landed = r.landed
          /\ s.result = r.result /\ s.routes = r.routes /\ s.checked = r.checked \cup {ref}
          /\ s.fresh = (r.fresh \/ r.checked = {})
          /\ s.step = IF left = {ref} THEN next ELSE step
      BY <1>1, <2>4 DEF CallType
    <2>8. IsFiniteSet(r.routes) /\ r.checked \subseteq r.req.refs
      BY <1>1, <2>2 DEF ControlOK, PreparedOK
    <2>9. tool \notin MoveTools
      BY <2>2 DEF CreateTools, MoveTools, PostTools
    <2> HIDE DEF s
    <2>10. FreshOK(s)
      BY <1>1, <1>5, <2>2, <2>7, <2>9 DEF FreshOK
    <2>11. s.checked \subseteq r.req.refs
           /\ (s.step \in {"invoice_draft", "entry_draft"} => s.checked = r.req.refs)
      BY <1>2, <1>4, <2>7, <2>8
    <2>12. s.step \in PrepareSteps[tool] /\ s.step \in {"invoice_refs", "entry_refs",
                                                        "invoice_draft", "entry_draft"}
      BY <1>4, <2>2, <2>7
    <2>13. Sound(s)
      BY <1>1, <1>3, <1>4, <2>6, <2>7, <2>8, <2>10, <2>11, <2>12, PrepareStepSound
    <2>14. Step(c, s)
      BY <1>2, <1>5 DEF s
    <2> QED
      BY <1>3, <2>13, <2>14, StepKeeps
  <1>6. CASE ref \notin active
    <2>1. Sound(Ended(r, "failed"))
      BY <1>1, <1>3, <1>4, EndedSound
    <2> QED
      BY <1>2, <1>3, <1>6, <2>1, StepKeeps
  <1> QED
    BY <1>5, <1>6

LEMMA SnapTypes ==
  /\ \A t \in CreateTools : SnapType(t) = DocType
  /\ SnapType("payment") = RegistrationType
  /\ \A t \in PostTools \cup {"credit_note"} : SnapType(t) = EffectType
  /\ CreateTools \cap MoveTools = {}
  BY DEF SnapType, CreateTools, PostTools, MoveTools

LEMMA BuildDraftKeeps ==
  ASSUME IInv, NEW c \in Calls, BuildInvoiceDraft(c) \/ BuildEntryDraft(c)
  PROVE  IInv'
  <1> DEFINE r == call[c]
             tool == r.req.tool
  <1>1. Sound(r) /\ r \in CallType /\ ControlOK(r) /\ PreparedOK(r)
    BY SoundCalls DEF Sound, CallOK
  <1>2. /\ r.phase \in {"prepare", "validate"} /\ r.step \in {"invoice_draft", "entry_draft"}
        /\ UNCHANGED odoo
    BY DEF BuildInvoiceDraft, BuildEntryDraft, At
  <1>3. tool \in CreateTools \cup MoveTools /\ r.step \in PrepareSteps[tool] /\ r.req.doc \in DocType
    BY <1>1, <1>2, ControlFacts, CallTool
  <1>4. tool \in CreateTools /\ (r.step = "invoice_draft" => tool = "create_invoice")
    BY <1>2, <1>3 DEF PrepareSteps, CreateTools, MoveTools, PostTools
  <1>5. r.checked = r.req.refs
    BY <1>1, <1>2, <1>4 DEF PreparedOK
  <1>6. r.req.doc \in SnapType(tool) /\ tool \notin MoveTools /\ tool \notin {"validate_invoice", "post_entry"}
    BY <1>3, <1>4, SnapTypes DEF MoveTools, PostTools
  <1>7. CASE BuildInvoiceDraft(c) \/ BalanceFindings(r.req.doc.lines) = {}
    <2>1. tool = "create_entry" => BalanceFindings(r.req.doc.lines) = {}
      BY <1>4, <1>7 DEF BuildInvoiceDraft, At
    <2>2. Sound(Concluded(r, r.req.doc, {}))
      BY <1>1, <1>2, <1>5, <1>6, <2>1, ConcludedSound
    <2>3. Step(c, Concluded(r, r.req.doc, {}))
      BY <1>7 DEF BuildInvoiceDraft, BuildEntryDraft
    <2> QED
      BY <1>2, <2>2, <2>3, StepKeeps
  <1>8. CASE BuildEntryDraft(c) /\ BalanceFindings(r.req.doc.lines) # {}
    <2>1. Sound(Ended(r, "failed"))
      BY <1>1, <1>2, EndedSound
    <2>2. Step(c, Ended(r, "failed"))
      BY <1>8 DEF BuildEntryDraft
    <2> QED
      BY <1>2, <2>1, <2>2, StepKeeps
  <1> QED
    BY <1>7, <1>8

LEMMA HeadOfType ==
  ASSUME NEW m \in LiveMove
  PROVE  HeadOf(m) \in HeadType
  BY DEF LiveMove, HeadOf, HeadType, Kinds

LEMMA ReadHeadKeeps ==
  ASSUME IInv, NEW c \in Calls, NEW step, NEW next, ReadHead(c, step, next),
         <<step, next>> \in {<<"invoice", "invoice_lines">>, <<"entry", "entry_lines">>}
  PROVE  IInv'
  <1> DEFINE r == call[c]
             tool == r.req.tool
             m == moves[r.req.move]
  <1>1. Sound(r) /\ r \in CallType /\ ControlOK(r) /\ PreparedOK(r)
    BY SoundCalls DEF Sound, CallOK
  <1>2. /\ r.phase \in {"prepare", "validate"} /\ r.step = step /\ UNCHANGED odoo
        /\ Step(c, IF Exists(m)
                   THEN [r EXCEPT !.head = HeadOf(m), !.step = next,
                                  !.fresh = (r.phase = "validate")]
                   ELSE Ended(r, "failed"))
    BY DEF ReadHead, At
  <1>3. step \in {"invoice", "entry"} /\ next \in {"invoice_lines", "entry_lines"}
    OBVIOUS
  <1>4. /\ tool \in CreateTools \cup MoveTools /\ r.step \in PrepareSteps[tool]
        /\ tool \in MoveTools => r.req.move \in MoveIds
    BY <1>1, <1>2, <1>3, ControlFacts, CallTool
  <1>5. tool \in MoveTools /\ next \in PrepareSteps[tool]
    BY <1>2, <1>4 DEF PrepareSteps, CreateTools, MoveTools, PostTools
  <1>6. CASE Exists(m)
    <2> DEFINE s == [r EXCEPT !.head = HeadOf(m), !.step = next, !.fresh = (r.phase = "validate")]
    <2>1. m \in LiveMove \cup {Absent, Deleted}
      BY <1>4, <1>5 DEF IInv, TypeOK
    <2>2. HeadOf(m) \in HeadType
      BY <1>6, <2>1, RowFacts, HeadOfType
    <2>3. next \in StepNames /\ HeadOf(m) \in HeadValues
      BY <1>4, <1>5, <2>2, ToolFacts DEF HeadValues
    <2>4. s \in CallType
      BY <1>1, <2>3 DEF CallType
    <2>5. /\ s.req = r.req /\ s.phase = r.phase /\ s.snap = r.snap /\ s.landed = r.landed
          /\ s.result = r.result /\ s.routes = r.routes /\ s.checked = r.checked
          /\ s.step = next /\ s.head = HeadOf(m)
      BY <1>1 DEF CallType
    <2>6. IsFiniteSet(r.routes) /\ tool \notin CreateTools
      BY <1>1, <1>5, SnapTypes DEF ControlOK
    <2> HIDE DEF s
    <2>7. FreshOK(s)
      <3>1. s.phase # "execute" /\ s.step \notin {"preview", "routes", "select"}
        BY <1>2, <1>3, <2>5
      <3> QED
        BY <1>6, <2>5, <2>6, <3>1 DEF FreshOK
    <2>8. Sound(s)
      BY <1>1, <1>2, <1>3, <1>5, <2>2, <2>4, <2>5, <2>6, <2>7, PrepareStepSound
    <2>9. Step(c, s)
      BY <1>2, <1>6 DEF s
    <2> QED
      BY <1>2, <2>8, <2>9, StepKeeps
  <1>7. CASE ~Exists(m)
    <2>1. Sound(Ended(r, "failed"))
      BY <1>1, <1>2, <1>3, EndedSound
    <2> QED
      BY <1>2, <1>7, <2>1, StepKeeps
  <1> QED
    BY <1>6, <1>7

\* The header and the lines a call has read, and its look at them.
LEMMA LinesRead ==
  ASSUME IInv, NEW c \in Calls, call[c].phase \in {"prepare", "validate"},
         call[c].step \in {"invoice_lines", "entry_lines"},
         NEW effect, effect = [head |-> call[c].head, lines |-> moves[call[c].req.move].lines]
  PROVE  /\ call[c].req.tool \in MoveTools /\ effect \in EffectType
         /\ call[c].fresh => /\ Exists(moves[call[c].req.move])
                             /\ effect = EffectOf(moves[call[c].req.move])
         /\ call[c].step = "entry_lines" => call[c].req.tool = "post_entry"
         /\ call[c].step = "invoice_lines" => call[c].req.tool \in {"validate_invoice", "credit_note", "payment"}
  <1> DEFINE r == call[c]
             tool == r.req.tool
             m == moves[r.req.move]
  <1>1. Sound(r) /\ r \in CallType /\ ControlOK(r) /\ FreshOK(r)
    BY SoundCalls DEF Sound, CallOK
  <1>2. /\ tool \in CreateTools \cup MoveTools /\ r.step \in PrepareSteps[tool] /\ r.landed = "no"
        /\ tool \in MoveTools => r.req.move \in MoveIds
    BY <1>1, ControlFacts, CallTool
  <1>3. /\ tool \in MoveTools
        /\ r.step = "entry_lines" => tool = "post_entry"
        /\ r.step = "invoice_lines" => tool \in {"validate_invoice", "credit_note", "payment"}
    BY <1>2 DEF PrepareSteps, CreateTools, MoveTools, PostTools
  <1>4. r.head \in HeadType
    BY <1>1 DEF ControlOK
  <1>5. m \in LiveMove \cup {Absent, Deleted}
    BY <1>2, <1>3 DEF IInv, TypeOK
  <1>6. m.lines \in LinesType
    BY <1>5, RowFacts
  <1>7. effect \in EffectType
    BY <1>4, <1>6 DEF EffectType
  <1>8. ASSUME r.fresh PROVE Exists(m) /\ effect = EffectOf(m)
    <2>1. Exists(m) /\ r.head = HeadOf(m)
      BY <1>1, <1>2, <1>3, <1>8 DEF FreshOK
    <2> QED
      BY <2>1 DEF EffectOf
  <1> QED
    BY <1>3, <1>7, <1>8

LEMMA ReadEntryLinesKeeps ==
  ASSUME IInv, NEW c \in Calls, ReadEntryLines(c)
  PROVE  IInv'
  <1> DEFINE r == call[c]
             entry == [head |-> r.head, lines |-> moves[r.req.move].lines]
  <1>1. Sound(r)
    BY SoundCalls
  <1>2. /\ r.phase \in {"prepare", "validate"} /\ r.step = "entry_lines" /\ UNCHANGED odoo
        /\ Step(c, IF IsDraftEntry(r.head)
                   THEN Concluded(r, entry, PostFindings(entry.lines)) ELSE Ended(r, "failed"))
    BY DEF ReadEntryLines, At
  <1> HIDE DEF entry
  <1>3. /\ r.req.tool = "post_entry" /\ entry \in EffectType
        /\ r.fresh => Exists(moves[r.req.move]) /\ entry = EffectOf(moves[r.req.move])
    BY <1>2, LinesRead DEF entry
  <1>4. entry \in SnapType(r.req.tool) /\ r.req.tool \notin CreateTools
    BY <1>3, SnapTypes DEF CreateTools, PostTools
  <1>5. Sound(Concluded(r, entry, PostFindings(entry.lines)))
    BY <1>1, <1>2, <1>3, <1>4, ConcludedSound
  <1>6. Sound(Ended(r, "failed"))
    BY <1>1, <1>2, EndedSound
  <1> QED
    BY <1>2, <1>5, <1>6, StepKeeps

LEMMA ReadInvoiceLinesKeeps ==
  ASSUME IInv, NEW c \in Calls, ReadInvoiceLines(c)
  PROVE  IInv'
  <1> DEFINE r == call[c]
             tool == r.req.tool
             m == moves[r.req.move]
             effect == [head |-> r.head, lines |-> m.lines]
  <1>1. Sound(r) /\ r \in CallType /\ ControlOK(r) /\ PreparedOK(r)
    BY SoundCalls DEF Sound, CallOK
  <1>2. /\ r.phase \in {"prepare", "validate"} /\ r.step = "invoice_lines" /\ UNCHANGED odoo
        /\ Step(c, CASE tool = "validate_invoice" -> PreparedValidation(r, effect)
                     [] tool = "credit_note" -> PreparedCreditNote(r, effect)
                     [] tool = "payment" -> PreparedPayment(r, effect))
    BY DEF ReadInvoiceLines, At
  <1> HIDE DEF effect
  <1>3. /\ tool \in {"validate_invoice", "credit_note", "payment"} /\ effect \in EffectType
        /\ r.fresh => Exists(m) /\ effect = EffectOf(m)
    BY <1>2, LinesRead DEF effect
  <1>4. Sound(Ended(r, "failed"))
    BY <1>1, <1>2, EndedSound
  <1>5. CASE tool \in {"validate_invoice", "credit_note"}
    <2>1. effect \in SnapType(tool) /\ tool \notin CreateTools
      BY <1>3, <1>5, SnapTypes DEF CreateTools, PostTools
    <2>2. CASE tool = "validate_invoice"
      <3>1. Sound(Concluded(r, effect, ValidationFindings(effect.head, effect.lines)))
        BY <1>1, <1>2, <1>3, <2>1, <2>2, ConcludedSound
      <3>2. Step(c, PreparedValidation(r, effect))
        BY <1>2, <2>2
      <3> QED
        BY <1>2, <1>4, <3>1, <3>2, StepKeeps DEF PreparedValidation
    <2>3. CASE tool = "credit_note"
      <3>1. Sound(Concluded(r, effect, {}))
        BY <1>1, <1>2, <1>3, <2>1, <2>3, ConcludedSound
      <3>2. Step(c, PreparedCreditNote(r, effect))
        BY <1>2, <2>3
      <3> QED
        BY <1>2, <1>4, <3>1, <3>2, StepKeeps DEF PreparedCreditNote
    <2> QED
      BY <1>5, <2>2, <2>3
  <1>6. CASE tool = "payment"
    <2> DEFINE s == [r EXCEPT !.effect = effect, !.step = "preview"]
    <2>1. effect \in EffectValues /\ "preview" \in StepNames
      BY <1>3 DEF EffectValues, StepNames
    <2>2. s \in CallType
      BY <1>1, <2>1 DEF CallType
    <2>3. /\ s.req = r.req /\ s.phase = r.phase /\ s.snap = r.snap /\ s.landed = r.landed
          /\ s.result = r.result /\ s.routes = r.routes /\ s.checked = r.checked
          /\ s.fresh = r.fresh /\ s.step = "preview" /\ s.effect = effect
      BY <1>1 DEF CallType
    <2>4. IsFiniteSet(r.routes) /\ tool \notin CreateTools /\ "preview" \in PrepareSteps[tool]
      BY <1>1, <1>6 DEF ControlOK, CreateTools, PrepareSteps
    <2> HIDE DEF s
    <2>5. FreshOK(s)
      BY <1>2, <1>3, <2>3, <2>4 DEF FreshOK
    <2>6. Sound(s)
      BY <1>1, <1>2, <1>3, <2>2, <2>3, <2>4, <2>5, PrepareStepSound
    <2>7. Step(c, PreparedPayment(r, effect))
      BY <1>2, <1>6
    <2> QED
      BY <1>2, <1>4, <2>6, <2>7, StepKeeps DEF PreparedPayment, s
  <1> QED
    BY <1>3, <1>5, <1>6

\* What a payment holds while it previews.
LEMMA PreviewFacts ==
  ASSUME IInv, NEW c \in Calls, call[c].phase \in {"prepare", "validate"},
         call[c].step \in {"preview", "routes", "select"}
  PROVE  /\ call[c].req.tool = "payment" /\ call[c].req.move \in MoveIds
         /\ call[c].effect \in EffectType /\ IsFiniteSet(call[c].routes)
         /\ call[c].routes \subseteq RouteType
         /\ call[c].fresh => /\ Exists(moves[call[c].req.move])
                             /\ call[c].effect = EffectOf(moves[call[c].req.move])
  <1> DEFINE r == call[c]
             tool == r.req.tool
  <1>1. Sound(r) /\ r \in CallType /\ ControlOK(r) /\ FreshOK(r)
    BY SoundCalls DEF Sound, CallOK
  <1>2. /\ tool \in CreateTools \cup MoveTools /\ r.step \in PrepareSteps[tool] /\ r.landed = "no"
        /\ tool \in MoveTools => r.req.move \in MoveIds
    BY <1>1, ControlFacts, CallTool
  <1>3. tool = "payment" /\ tool \in MoveTools
    BY <1>2 DEF PrepareSteps, CreateTools, MoveTools, PostTools
  <1>4. r.effect \in EffectType /\ IsFiniteSet(r.routes)
    BY <1>1 DEF ControlOK
  <1>5. r.routes \subseteq RouteType
    BY <1>1 DEF CallType
  <1>6. r.fresh => Exists(moves[r.req.move]) /\ r.effect = EffectOf(moves[r.req.move])
    BY <1>1, <1>2, <1>3 DEF FreshOK
  <1> QED
    BY <1>2, <1>3, <1>4, <1>5, <1>6

\* A step from one of the previews to the next.
LEMMA PreviewStepSound ==
  ASSUME IInv, NEW c \in Calls, call[c].phase \in {"prepare", "validate"},
         call[c].step \in {"preview", "routes", "select"},
         NEW s \in CallType,
         s.req = call[c].req, s.phase = call[c].phase, s.snap = call[c].snap,
         s.landed = call[c].landed, s.result = call[c].result, s.effect = call[c].effect,
         s.fresh = call[c].fresh, s.step \in {"routes", "select"}, IsFiniteSet(s.routes)
  PROVE  Sound(s)
  <1> DEFINE r == call[c]
  <1>1. Sound(r)
    BY SoundCalls
  <1>2. /\ r.req.tool = "payment" /\ r.effect \in EffectType
        /\ r.fresh => Exists(moves[r.req.move]) /\ r.effect = EffectOf(moves[r.req.move])
    BY PreviewFacts
  <1>3. r.req.tool \notin CreateTools /\ s.step \in PrepareSteps[r.req.tool]
    BY <1>2 DEF CreateTools, PrepareSteps
  <1>4. FreshOK(s)
    BY <1>2, <1>3 DEF FreshOK
  <1> QED
    BY <1>1, <1>2, <1>3, <1>4, PrepareStepSound

LEMMA PreviewDefaultKeeps ==
  ASSUME IInv, NEW c \in Calls, PreviewDefault(c)
  PROVE  IInv'
  <1> DEFINE r == call[c]
             m == moves[r.req.move]
             s == [r EXCEPT !.step = "routes", !.journals = AvailableJournals, !.routes = {}]
  <1>1. Sound(r) /\ r \in CallType
    BY SoundCalls DEF Sound
  <1>2. /\ r.phase \in {"prepare", "validate"} /\ r.step = "preview" /\ UNCHANGED odoo
        /\ \/ Step(c, s)
           \/ Step(c, Ended(r, "failed"))
    BY DEF PreviewDefault, At
  <1>3. AvailableJournals \in SUBSET Journals /\ "routes" \in StepNames
    BY DEF AvailableJournals, StepNames
  <1>4. s \in CallType
    BY <1>1, <1>3 DEF CallType
  <1>5. /\ s.req = r.req /\ s.phase = r.phase /\ s.snap = r.snap /\ s.landed = r.landed
        /\ s.result = r.result /\ s.routes = {} /\ s.effect = r.effect
        /\ s.fresh = r.fresh /\ s.step = "routes"
    BY <1>1 DEF CallType
  <1>6. IsFiniteSet({})
    BY FS_EmptySet
  <1> HIDE DEF s
  <1>7. Sound(s)
    BY <1>2, <1>4, <1>5, <1>6, PreviewStepSound
  <1>8. Sound(Ended(r, "failed"))
    BY <1>1, <1>2, EndedSound
  <1> QED
    BY <1>2, <1>7, <1>8, StepKeeps

LEMMA PreviewRouteKeeps ==
  ASSUME IInv, NEW c \in Calls, PreviewRoute(c)
  PROVE  IInv'
  <1> DEFINE r == call[c]
             left == r.journals \ {route.journal : route \in r.routes}
  <1>1. Sound(r) /\ r \in CallType
    BY SoundCalls DEF Sound
  <1>2. /\ r.phase \in {"prepare", "validate"} /\ r.step = "routes" /\ UNCHANGED odoo
    BY DEF PreviewRoute, At
  <1>3. PICK j \in left :
          Step(c, IF AvailableJournals = r.journals
                  THEN [r EXCEPT !.routes = @ \cup {[journal |-> j, code |-> codes[j]]},
                                 !.step = IF left = {j} THEN "select" ELSE "routes"]
                  ELSE Ended(r, "failed"))
    BY DEF PreviewRoute
  <1> DEFINE route == [journal |-> j, code |-> codes[j]]
             s == [r EXCEPT !.routes = @ \cup {route},
                            !.step = IF left = {j} THEN "select" ELSE "routes"]
  <1>4. j \in Journals
    BY <1>1, <1>3 DEF CallType
  <1>5. route \in RouteType
    BY <1>4 DEF RouteType, IInv, TypeOK
  <1> HIDE DEF route
  <1>6. IsFiniteSet(r.routes) /\ r.routes \subseteq RouteType
    BY <1>2, PreviewFacts
  <1>7. IsFiniteSet(r.routes \cup {route})
    BY <1>6, FS_AddElement
  <1>8. r.routes \cup {route} \in SUBSET RouteType /\ "routes" \in StepNames /\ "select" \in StepNames
    BY <1>5, <1>6 DEF StepNames
  <1>9. s \in CallType
    BY <1>1, <1>8 DEF CallType
  <1>10. /\ s.req = r.req /\ s.phase = r.phase /\ s.snap = r.snap /\ s.landed = r.landed
         /\ s.result = r.result /\ s.routes = r.routes \cup {route} /\ s.effect = r.effect
         /\ s.fresh = r.fresh /\ s.step \in {"routes", "select"}
    BY <1>1 DEF CallType
  <1>11. Step(c, s) \/ Step(c, Ended(r, "failed"))
    BY <1>3 DEF route
  <1> HIDE DEF s
  <1>12. Sound(s)
    BY <1>2, <1>7, <1>9, <1>10, PreviewStepSound
  <1>13. Sound(Ended(r, "failed"))
    BY <1>1, <1>2, EndedSound
  <1> QED
    BY <1>2, <1>11, <1>12, <1>13, StepKeeps

LEMMA SelectRouteKeeps ==
  ASSUME IInv, NEW c \in Calls, SelectRoute(c)
  PROVE  IInv'
  <1> DEFINE r == call[c]
             open == Selected(r.req, r.routes)
             amount == AmountOf(r.req, r.effect.head)
             chosen == CHOOSE route \in open : TRUE
             value == [effect |-> r.effect, amount |-> amount, route |-> chosen]
  <1>1. Sound(r) /\ r \in CallType
    BY SoundCalls DEF Sound
  <1>2. /\ r.phase \in {"prepare", "validate"} /\ r.step \in {"routes", "select"} /\ UNCHANGED odoo
        /\ Step(c, IF Cardinality(open) = 1 THEN Concluded(r, value, {})
                   ELSE Concluded(r, Nothing, {"PAYMENT_ROUTE_SELECTION_REQUIRED"}))
    BY DEF SelectRoute, At
  <1>3. /\ r.req.tool = "payment" /\ r.effect \in EffectType /\ IsFiniteSet(r.routes)
        /\ r.routes \subseteq RouteType
        /\ r.fresh => Exists(moves[r.req.move]) /\ r.effect = EffectOf(moves[r.req.move])
    BY <1>2, PreviewFacts
  <1>4. r.req.tool \notin CreateTools /\ SnapType(r.req.tool) = RegistrationType
    BY <1>3, SnapTypes DEF CreateTools
  <1>5. CASE Cardinality(open) = 1
    <2>1. open \in SUBSET r.routes
      BY DEF Selected
    <2>2. IsFiniteSet(open)
      BY <1>3, <2>1, FS_Subset
    <2>3. PICK x : open = {x}
      BY <1>5, <2>2, FS_Singleton
    <2> HIDE DEF open
    <2>4. chosen \in open
      BY <2>3
    <2>5. chosen \in RouteType
      BY <1>3, <2>1, <2>4
    <2>6. amount \in Int
      BY <1>1, <1>3, CallTool DEF AmountOf, EffectType, HeadType
    <2> HIDE DEF chosen, amount
    <2>7. value \in RegistrationType /\ value.effect = r.effect
      BY <1>3, <2>5, <2>6 DEF RegistrationType
    <2> HIDE DEF value
    <2>8. Sound(Concluded(r, value, {}))
      BY <1>1, <1>2, <1>3, <1>4, <2>7, ConcludedSound
    <2> QED
      BY <1>2, <1>5, <2>8, StepKeeps
  <1>6. CASE Cardinality(open) # 1
    <2>1. Nothing \notin RegistrationType
      BY DEF Nothing, RegistrationType
    <2> DEFINE findings == {"PAYMENT_ROUTE_SELECTION_REQUIRED"}
    <2>2. findings # {}
      OBVIOUS
    <2>3. Step(c, Concluded(r, Nothing, findings))
      BY <1>2, <1>6
    <2> HIDE DEF findings
    <2>4. Sound(Concluded(r, Nothing, findings))
      BY <1>1, <1>2, <1>3, <1>4, <2>1, <2>2, ConcludedSound
    <2> QED
      BY <1>2, <2>3, <2>4, StepKeeps
  <1> QED
    BY <1>5, <1>6

----------------------------------------------------------------------------
\* The looks of execute_op before the write.

LEMMA RecheckKeeps ==
  ASSUME IInv, NEW c \in Calls, NEW step, NEW eligible, NEW next, Recheck(c, step, eligible, next),
         step # next,
         <<call[c].req.tool, step, next>> \in
            {<<"post_entry", "recheck_entry", "post">>,
             <<"credit_note", "recheck_original", "existing">>,
             <<"payment", "recheck_payment", "wizard">>},
         call[c].req.tool = "payment" /\ eligible =>
            /\ Exists(moves[call[c].req.move])
            /\ call[c].snap.amount <= moves[call[c].req.move].residual
  PROVE  IInv'
  <1> DEFINE r == call[c]
             tool == r.req.tool
             s == [r EXCEPT !.step = next]
  <1>1. Sound(r) /\ r \in CallType /\ ControlOK(r)
    BY SoundCalls DEF Sound
  <1>2. /\ r.phase = "execute" /\ r.step = step /\ UNCHANGED odoo
        /\ \/ eligible /\ Step(c, s)
           \/ Step(c, Ended(r, "unknown"))
    BY DEF Recheck, At
  <1>3. /\ tool \in CreateTools \cup MoveTools /\ r.step \in ExecuteSteps[tool]
        /\ next \in ExecuteSteps[tool]
        /\ next \notin {"pay", "reverse", "list", "confirm"}
        /\ next = "wizard" => tool = "payment"
        /\ r.step \notin {"idle", "ended"} \cup WriteSteps
    BY <1>2 DEF ExecuteSteps, WriteSteps, CreateTools, MoveTools, PostTools
  <1>4. next \in StepNames /\ r.result = "none"
    BY <1>1, <1>3, ToolFacts, ControlFacts
  <1>5. s \in CallType
    BY <1>1, <1>4 DEF CallType
  <1>6. /\ s.req = r.req /\ s.phase = r.phase /\ s.snap = r.snap /\ s.landed = r.landed
        /\ s.result = r.result /\ s.routes = r.routes /\ s.checked = r.checked
        /\ s.fresh = r.fresh /\ s.step = next
    BY <1>1 DEF CallType
  <1> HIDE DEF s
  <1>7. CreditOK(s)
    BY <1>3, <1>4, <1>6 DEF CreditOK
  <1>8. Sound(Ended(r, "unknown"))
    BY <1>1, <1>3, EndedSound
  <1>9. CASE eligible /\ Step(c, s)
    <2>1. PaymentOK(s)
      BY <1>3, <1>6, <1>9 DEF PaymentOK
    <2>2. Sound(s)
      BY <1>1, <1>2, <1>3, <1>5, <1>6, <1>7, <2>1, ExecuteStepSound
    <2> QED
      BY <1>2, <1>9, <2>2, StepKeeps
  <1> QED
    BY <1>2, <1>8, <1>9, StepKeeps

\* The tool of a call at a step of execute_op.
LEMMA ExecuteTool ==
  ASSUME IInv, NEW c \in Calls, call[c].phase = "execute"
  PROVE  /\ Sound(call[c]) /\ call[c] \in CallType /\ ControlOK(call[c])
         /\ call[c].req.tool \in CreateTools \cup MoveTools
         /\ call[c].step = "create_invoice" => call[c].req.tool = "create_invoice"
         /\ call[c].step = "create_entry" => call[c].req.tool = "create_entry"
         /\ call[c].step = "recheck_entry" => call[c].req.tool = "post_entry"
         /\ call[c].step = "post" => call[c].req.tool \in PostTools
         /\ call[c].step \in {"recheck_original", "existing", "reverse", "list"} =>
               call[c].req.tool = "credit_note"
         /\ call[c].step \in {"recheck_payment", "wizard", "pay"} => call[c].req.tool = "payment"
  <1> DEFINE r == call[c]
             tool == r.req.tool
  <1>1. Sound(r) /\ r \in CallType /\ ControlOK(r)
    BY SoundCalls DEF Sound
  <1>2. tool \in CreateTools \cup MoveTools
    BY <1>1, CallTool
  <1>3. r.step \in ExecuteSteps[tool] \cup ReadBackSteps[tool] \cup {"ended"}
    BY <1>1 DEF ControlOK
  <1>4. tool \in {"create_invoice", "create_entry", "validate_invoice", "post_entry",
                  "credit_note", "payment"}
    BY <1>2 DEF CreateTools, MoveTools, PostTools
  <1>5. /\ r.step = "create_invoice" => tool = "create_invoice"
        /\ r.step = "create_entry" => tool = "create_entry"
        /\ r.step = "recheck_entry" => tool = "post_entry"
        /\ r.step = "post" => tool \in PostTools
        /\ r.step \in {"recheck_original", "existing", "reverse", "list"} => tool = "credit_note"
        /\ r.step \in {"recheck_payment", "wizard", "pay"} => tool = "payment"
    BY <1>3, <1>4 DEF ExecuteSteps, ReadBackSteps, PostTools
  <1> QED
    BY <1>1, <1>2, <1>5

LEMMA RechecksKeep ==
  ASSUME IInv, NEW c \in Calls, RecheckEntry(c) \/ RecheckOriginal(c) \/ RecheckPayment(c)
  PROVE  IInv'
  <1> DEFINE r == call[c]
             m == moves[r.req.move]
  <1>1. CASE RecheckEntry(c)
    <2>1. Recheck(c, "recheck_entry", IsDraftEntry(m), "post")
      BY <1>1 DEF RecheckEntry
    <2>2. r.phase = "execute" /\ r.step = "recheck_entry"
      BY <2>1 DEF Recheck, At
    <2>3. r.req.tool = "post_entry"
      BY <2>2, ExecuteTool
    <2> QED
      BY <2>1, <2>3, RecheckKeeps
  <1>2. CASE RecheckOriginal(c)
    <2>1. Recheck(c, "recheck_original", IsPostedInvoice(m), "existing")
      BY <1>2 DEF RecheckOriginal
    <2>2. r.phase = "execute" /\ r.step = "recheck_original"
      BY <2>1 DEF Recheck, At
    <2>3. r.req.tool = "credit_note"
      BY <2>2, ExecuteTool
    <2> QED
      BY <2>1, <2>3, RecheckKeeps
  <1>3. CASE RecheckPayment(c)
    <2> DEFINE eligible == m.state = "posted" /\ WithinResidual(r.snap.amount, m)
    <2>1. Recheck(c, "recheck_payment", eligible, "wizard")
      BY <1>3 DEF RecheckPayment
    <2>2. r.phase = "execute" /\ r.step = "recheck_payment"
      BY <2>1 DEF Recheck, At
    <2>3. r.req.tool = "payment" /\ r \in CallType
      BY <2>2, ExecuteTool
    <2>4. r.req.move \in MoveIds
      BY <2>3, CallTool DEF MoveTools
    <2>5. m \in LiveMove \cup {Absent, Deleted}
      BY <2>4 DEF IInv, TypeOK
    <2>6. eligible => Exists(m) /\ r.snap.amount <= m.residual
      BY <2>5, RowFacts DEF WithinResidual
    <2> HIDE DEF eligible
    <2> QED
      BY <2>1, <2>3, <2>6, RecheckKeeps
  <1> QED
    BY <1>1, <1>2, <1>3

LEMMA ExistingReversalsKeeps ==
  ASSUME IInv, NEW c \in Calls, ExistingReversals(c)
  PROVE  IInv'
  <1> DEFINE r == call[c]
             s == [r EXCEPT !.existing = Reversals(r.req.move), !.step = "reverse"]
  <1>1. r.phase = "execute" /\ r.step = "existing" /\ Step(c, s) /\ UNCHANGED odoo
    BY DEF ExistingReversals, At
  <1>2. Sound(r) /\ r \in CallType /\ ControlOK(r) /\ r.req.tool = "credit_note"
    BY <1>1, ExecuteTool
  <1>3. /\ Reversals(r.req.move) \in SUBSET MoveIds /\ "reverse" \in StepNames
        /\ \A n \in Reversals(r.req.move) : moves[n] # Absent
    BY DEF Reversals, Exists, StepNames
  <1>4. s \in CallType
    BY <1>2, <1>3 DEF CallType
  <1>5. /\ s.req = r.req /\ s.phase = r.phase /\ s.snap = r.snap /\ s.landed = r.landed
        /\ s.result = r.result /\ s.routes = r.routes /\ s.checked = r.checked
        /\ s.fresh = r.fresh /\ s.step = "reverse" /\ s.existing = Reversals(r.req.move)
    BY <1>2 DEF CallType
  <1>6. /\ r.step \in ExecuteSteps[r.req.tool] \ WriteSteps
        /\ "reverse" \in ExecuteSteps[r.req.tool]
    BY <1>1, <1>2 DEF ExecuteSteps, WriteSteps
  <1>7. r.result = "none"
    BY <1>1, <1>2, <1>6, ControlFacts
  <1> HIDE DEF s
  <1>8. CreditOK(s) /\ PaymentOK(s)
    BY <1>2, <1>3, <1>5, <1>7 DEF CreditOK, PaymentOK
  <1>9. Sound(s)
    BY <1>1, <1>2, <1>4, <1>5, <1>6, <1>8, ExecuteStepSound
  <1> QED
    BY <1>1, <1>9, StepKeeps

LEMMA PaymentWizardKeeps ==
  ASSUME IInv, NEW c \in Calls, PaymentWizard(c)
  PROVE  IInv'
  <1> DEFINE r == call[c]
             route == r.snap.route
             s == [r EXCEPT !.step = "pay"]
  <1>1. /\ r.phase = "execute" /\ r.step = "wizard" /\ UNCHANGED odoo
        /\ \/ codes[route.journal] = route.code /\ Step(c, s)
           \/ Step(c, Ended(r, "unknown"))
    BY DEF PaymentWizard, At
  <1>2. /\ Sound(r) /\ r \in CallType /\ ControlOK(r) /\ r.req.tool = "payment"
        /\ PaymentOK(r)
    BY <1>1, ExecuteTool DEF Sound, CallOK
  <1>3. s \in CallType
    BY <1>2 DEF CallType, StepNames
  <1>4. /\ s.req = r.req /\ s.phase = r.phase /\ s.snap = r.snap /\ s.landed = r.landed
        /\ s.result = r.result /\ s.routes = r.routes /\ s.checked = r.checked
        /\ s.fresh = r.fresh /\ s.step = "pay"
    BY <1>2 DEF CallType
  <1>5. r.step \in ExecuteSteps[r.req.tool] \ WriteSteps /\ "pay" \in ExecuteSteps[r.req.tool]
    BY <1>1, <1>2 DEF ExecuteSteps, WriteSteps
  <1> HIDE DEF s
  <1>6. CreditOK(s) /\ PaymentOK(s)
    BY <1>1, <1>2, <1>4 DEF CreditOK, PaymentOK
  <1>7. Sound(Ended(r, "unknown"))
    BY <1>1, <1>2, EndedSound
  <1>8. CASE codes[route.journal] = route.code /\ Step(c, s)
    <2>1. Sound(s)
      BY <1>1, <1>2, <1>3, <1>4, <1>5, <1>6, <1>8, ExecuteStepSound
    <2> QED
      BY <1>1, <1>8, <2>1, StepKeeps
  <1> QED
    BY <1>1, <1>7, <1>8, StepKeeps

----------------------------------------------------------------------------
\* The read-back.

\* Whatever create_credit_note takes for the move of its wizard was not there
\* before; it is the wizard's own as long as that is still a draft.
LEMMA CandidateFacts ==
  ASSUME IInv, NEW c \in Calls, call[c].phase = "execute", call[c].step = "list",
         Cardinality(Candidates(call[c])) = 1,
         NEW n, n = CHOOSE k \in Candidates(call[c]) : TRUE
  PROVE  /\ n \in MoveIds
         /\ n = call[c].own \/ (/\ ~call[c].named /\ moves[call[c].own].state # "draft"
                                /\ n \notin call[c].existing)
  <1> DEFINE r == call[c]
             new == {k \in Reversals(r.req.move) : moves[k].state = "draft"} \ r.existing
  <1>1. /\ r \in CallType /\ ControlOK(r) /\ r.req.tool = "credit_note" /\ CreditOK(r)
    BY ExecuteTool DEF Sound, CallOK
  <1>2. r.own \in MoveIds
    BY <1>1 DEF ControlOK, ReadBackSteps
  <1>3. Candidates(r) = IF r.named THEN new \cap {r.own} ELSE new
    BY DEF Candidates
  <1>4. new \in SUBSET MoveIds
    BY DEF Reversals
  <1>5. Candidates(r) \in SUBSET MoveIds
    BY <1>3, <1>4
  <1>6. IsFiniteSet(Candidates(r))
    BY <1>5, AccountingAssumption, FS_Subset
  <1>7. PICK x : Candidates(r) = {x}
    BY <1>6, FS_Singleton
  <1>8. n = x /\ n \in Candidates(r)
    BY <1>7
  <1>9. CASE r.named
    BY <1>3, <1>5, <1>8, <1>9
  <1>10. CASE ~r.named /\ moves[r.own].state = "draft"
    <2>1. moves[r.own] \in LiveMove \cup {Absent, Deleted}
      BY <1>2 DEF IInv, TypeOK
    <2>2. Exists(moves[r.own])
      BY <1>10, <2>1, RowFacts
    <2>3. moves[r.own].source = r.req.move /\ r.own \notin r.existing
      BY <1>1, <2>2 DEF CreditOK
    <2>4. r.own \in new
      BY <1>2, <1>10, <2>2, <2>3 DEF Reversals
    <2> QED
      BY <1>2, <1>3, <1>7, <1>8, <1>10, <2>4
  <1>11. CASE ~r.named /\ moves[r.own].state # "draft"
    BY <1>3, <1>5, <1>8, <1>11
  <1> QED
    BY <1>9, <1>10, <1>11, <1>1 DEF CallType

LEMMA ListReversalsKeeps ==
  ASSUME IInv, NEW c \in Calls, ListReversals(c)
  PROVE  IInv'
  <1> DEFINE r == call[c]
             n == CHOOSE k \in Candidates(r) : TRUE
             missed == moves[r.own].state # "draft"
             s == [r EXCEPT !.reported = n, !.step = "confirm", !.missed = missed]
  <1>1. /\ r.phase = "execute" /\ r.step = "list" /\ UNCHANGED odoo
        /\ Step(c, IF Cardinality(Candidates(r)) = 1 THEN s ELSE Ended(r, "unknown"))
    BY DEF ListReversals, At
  <1>2. /\ Sound(r) /\ r \in CallType /\ ControlOK(r) /\ r.req.tool = "credit_note"
        /\ ActedOK(r)
    BY <1>1, ExecuteTool DEF Sound, CallOK
  <1>3. CASE Cardinality(Candidates(r)) = 1
    <2> HIDE DEF n
    <2>1. /\ n \in MoveIds
          /\ n = r.own \/ (~r.named /\ missed /\ n \notin r.existing)
      BY <1>1, <1>3, CandidateFacts DEF n
    <2>2. n \in IdValues /\ "confirm" \in StepNames /\ missed \in BOOLEAN
      BY <2>1 DEF IdValues, StepNames
    <2> HIDE DEF missed
    <2>3. s \in CallType
      BY <1>2, <2>2 DEF CallType
    <2>4. /\ s.req = r.req /\ s.phase = r.phase /\ s.snap = r.snap /\ s.landed = r.landed
          /\ s.result = r.result /\ s.routes = r.routes /\ s.own = r.own /\ s.named = r.named
          /\ s.existing = r.existing /\ s.acted = r.acted
          /\ s.step = "confirm" /\ s.reported = n /\ s.missed = missed
      BY <1>2 DEF CallType
    <2>5. /\ r.landed # "no" /\ r.own \in MoveIds /\ r.snap \in SnapType("credit_note")
          /\ r.result = "none" /\ IsFiniteSet(r.routes)
      BY <1>1, <1>2, ControlFacts DEF ControlOK, ReadBackSteps
    <2>6. Step(c, s)
      BY <1>1, <1>3
    <2> HIDE DEF s
    <2>7. ControlOK(s)
      BY <1>1, <1>2, <2>1, <2>4, <2>5 DEF ControlOK, ReadBackSteps
    <2>8. FreshOK(s) /\ ActedOK(s) /\ PaymentOK(s)
      BY <1>2, <2>4, <2>5 DEF FreshOK, ActedOK, PaymentOK
    <2>9. PreparedOK(s)
      BY <1>2, <2>4 DEF PreparedOK, CreateTools
    <2>10. CreditOK(s)
      BY <2>1, <2>4 DEF CreditOK
    <2>11. Sound(s)
      BY <2>3, <2>7, <2>8, <2>9, <2>10 DEF Sound, CallOK
    <2> QED
      BY <1>1, <2>6, <2>11, StepKeeps
  <1>4. CASE Cardinality(Candidates(r)) # 1
    <2>1. Sound(Ended(r, "unknown"))
      BY <1>1, <1>2, EndedSound
    <2> QED
      BY <1>1, <1>4, <2>1, StepKeeps
  <1> QED
    BY <1>3, <1>4

LEMMA ConfirmKeeps ==
  ASSUME IInv, NEW c \in Calls, Confirm(c)
  PROVE  IInv'
  <1> DEFINE r == call[c]
  <1>1. PICK result \in {"applied", "unknown"} : Step(c, Ended(r, result))
    BY DEF Confirm
  <1>2. r.step \in {"confirm", "confirm_draft", "confirm_posted"} /\ UNCHANGED odoo
    BY DEF Confirm
  <1>3. Sound(r) /\ r \in CallType /\ ControlOK(r)
    BY SoundCalls DEF Sound
  <1>4. r.req.tool \in CreateTools \cup MoveTools
    BY <1>3, CallTool
  <1>5. r.req.tool = "credit_note" => r.step = "confirm"
    BY <1>2, <1>3 DEF ControlOK, PrepareSteps, ExecuteSteps, ReadBackSteps
  <1>6. Sound(Ended(r, result))
    BY <1>2, <1>3, <1>5, EndedSound
  <1> QED
    BY <1>1, <1>2, <1>6, StepKeeps

LEMMA FailKeeps ==
  ASSUME IInv, NEW c \in Calls, Fail(c)
  PROVE  IInv'
  <1> DEFINE r == call[c]
  <1>1. PICK result \in {"failed", "unknown"} : Step(c, Ended(r, result))
    BY DEF Fail, FailureResults
  <1>2. r.step \notin {"idle", "ended"} /\ UNCHANGED odoo
    BY DEF Fail
  <1>3. Sound(Ended(r, result))
    BY <1>2, SoundCalls, EndedSound
  <1> QED
    BY <1>1, <1>2, <1>3, StepKeeps

LEMMA GiveUpKeeps ==
  ASSUME IInv, NEW c \in Calls, GiveUp(c)
  PROVE  IInv'
  <1> DEFINE r == call[c]
             s == [r EXCEPT !.result = "unknown"]
  <1>1. r.step \in WriteSteps /\ r.result = "none" /\ Step(c, s) /\ UNCHANGED odoo
    BY DEF GiveUp
  <1>2. /\ r \in CallType /\ ControlOK(r)
        /\ FreshOK(r) /\ PreparedOK(r) /\ ActedOK(r) /\ CreditOK(r) /\ PaymentOK(r)
    BY SoundCalls DEF Sound, CallOK
  <1>3. r.req.tool \in CreateTools \cup MoveTools
    BY <1>2, CallTool
  <1>4. r.phase = "execute" /\ r.step \notin {"idle", "ended"}
    BY <1>1, <1>2, <1>3 DEF ControlOK, WriteSteps, PrepareSteps, CreateTools, MoveTools, PostTools
  <1>5. s \in CallType
    BY <1>2 DEF CallType, Results
  <1>6. /\ s.req = r.req /\ s.phase = r.phase /\ s.step = r.step /\ s.result = "unknown"
        /\ s.head = r.head /\ s.effect = r.effect /\ s.snap = r.snap /\ s.checked = r.checked
        /\ s.routes = r.routes /\ s.existing = r.existing /\ s.own = r.own /\ s.named = r.named
        /\ s.reported = r.reported /\ s.missed = r.missed /\ s.landed = r.landed
        /\ s.acted = r.acted /\ s.fresh = r.fresh
    BY <1>2 DEF CallType
  <1> HIDE DEF s
  <1>7. ControlOK(s)
    BY <1>1, <1>2, <1>4, <1>6 DEF ControlOK
  <1>8. FreshOK(s) /\ PreparedOK(s) /\ ActedOK(s)
    BY <1>2, <1>6 DEF FreshOK, PreparedOK, ActedOK
  <1>9. CreditOK(s) /\ PaymentOK(s)
    BY <1>2, <1>6 DEF CreditOK, PaymentOK
  <1> QED
    BY <1>1, <1>5, <1>7, <1>8, <1>9, StepKeeps DEF Sound, CallOK

----------------------------------------------------------------------------
\* The writes.

\* A row of account.move may become the new one.
MayBecome(old, new) ==
    /\ new \in LiveMove \cup {Deleted}
    /\ old # Deleted
    /\ Exists(old) /\ Exists(new) => new.source = old.source

\* What a write to move k leaves of another call's part: its look is gone,
\* or it did not look at k.
LEMMA OtherKeeps ==
  ASSUME IInv, NEW d \in Calls, NEW k \in MoveIds, NEW row, MayBecome(moves[k], row),
         moves' = [moves EXCEPT ![k] = row], active' = active, codes' = codes,
         \/ call'[d] = [call[d] EXCEPT !.fresh = FALSE]
         \/ /\ call'[d] = call[d]
            /\ call[d].req.tool \in MoveTools /\ call[d].req.move = k => moves[k] = Absent
  PROVE  call'[d] \in CallType /\ ControlOK(call'[d]) /\ CallOK(call[d])'
  <1> DEFINE r == call[d]
             s == call'[d]
  <1>1. /\ r \in CallType /\ ControlOK(r)
        /\ FreshOK(r) /\ PreparedOK(r) /\ ActedOK(r) /\ CreditOK(r) /\ PaymentOK(r)
    BY SoundCalls DEF Sound, CallOK
  <1>2. s \in CallType
    BY ZenonT(40), <1>1 DEF CallType
  <1>3. /\ s.req = r.req /\ s.phase = r.phase /\ s.step = r.step /\ s.result = r.result
        /\ s.head = r.head /\ s.effect = r.effect /\ s.snap = r.snap /\ s.checked = r.checked
        /\ s.routes = r.routes /\ s.existing = r.existing /\ s.own = r.own /\ s.named = r.named
        /\ s.reported = r.reported /\ s.missed = r.missed /\ s.landed = r.landed
        /\ s.acted = r.acted
    BY <1>1 DEF CallType
  <1>4. s.fresh => /\ r.fresh
                   /\ r.req.tool \in MoveTools /\ r.req.move = k => moves[k] = Absent
    BY <1>1 DEF CallType
  <1>5. /\ moves \in [MoveIds -> LiveMove \cup {Absent, Deleted}]
        /\ r.req.tool \in MoveTools => r.req.move \in MoveIds
        /\ CreateTools \cap MoveTools = {}
    BY <1>1, CallTool, SnapTypes DEF IInv, TypeOK
  <1>6. \A n \in MoveIds : moves'[n] = IF n = k THEN row ELSE moves[n]
    BY <1>5
  <1> HIDE DEF s
  <1>7. ControlOK(s)
    BY <1>1, <1>3 DEF ControlOK
  <1>8. ~Exists(Absent) /\ row # Absent
    <2>1. Absent \notin LiveMove /\ Absent # Deleted
      BY DEF Absent, Deleted, LiveMove, Kinds
    <2> QED
      BY <2>1 DEF Exists, MayBecome
  <1>9. r.req.tool \in MoveTools /\ s.fresh =>
           (Exists(moves[r.req.move]) => moves'[r.req.move] = moves[r.req.move])
    BY <1>4, <1>5, <1>6, <1>8
  <1>10. FreshOK(call[d])'
    <2>1. CASE ~s.fresh
      BY <2>1 DEF FreshOK, s
    <2>2. CASE s.fresh /\ r.req.tool \notin MoveTools
      BY <1>1, <1>3, <1>4, <2>2 DEF FreshOK, s
    <2>3. CASE s.fresh /\ r.req.tool \in MoveTools
      <3> DEFINE old == moves[r.req.move]
                 new == moves'[s.req.move]
      <3>1. /\ r.fresh /\ r.req.tool \notin CreateTools
            /\ Exists(old) => new = old
        BY <1>3, <1>4, <1>5, <1>9, <2>3
      <3>2. FreshOK(r)
        BY <1>1
      <3> HIDE DEF old, new
      <3>3. r.landed = "no" =>
              /\ r.step \in {"invoice_lines", "entry_lines"} => Exists(new) /\ r.head = HeadOf(new)
              /\ r.step \in {"preview", "routes", "select"} =>
                    Exists(new) /\ r.effect = EffectOf(new)
              /\ r.phase = "execute" =>
                    /\ Exists(new)
                    /\ r.req.tool # "payment" => r.snap = EffectOf(new)
                    /\ r.req.tool = "payment" => r.snap.effect = EffectOf(new)
                    /\ r.step = "pay" =>
                          codes'[r.snap.route.journal] = r.snap.route.code
        BY <2>3, <3>1, <3>2 DEF FreshOK, old
      <3>4. /\ s.req.tool \notin CreateTools
            /\ s.landed = "no" =>
                 /\ s.step \in {"invoice_lines", "entry_lines"} =>
                       Exists(new) /\ s.head = HeadOf(new)
                 /\ s.step \in {"preview", "routes", "select"} =>
                       Exists(new) /\ s.effect = EffectOf(new)
                 /\ s.phase = "execute" =>
                       /\ Exists(new)
                       /\ s.req.tool # "payment" => s.snap = EffectOf(new)
                       /\ s.req.tool = "payment" => s.snap.effect = EffectOf(new)
                       /\ s.step = "pay" =>
                             codes'[s.snap.route.journal] = s.snap.route.code
        BY <1>3, <3>1, <3>3
      <3> QED
        BY <3>4, Zenon DEF FreshOK, s, new, Exists, EffectOf, HeadOf
    <2> QED
      BY <2>1, <2>2, <2>3
  <1>11. PreparedOK(call[d])' /\ ActedOK(call[d])'
    BY <1>1, <1>3 DEF PreparedOK, ActedOK, s
  <1>12. PaymentOK(call[d])'
    BY <1>1, <1>3, <1>4, <1>9 DEF PaymentOK, Exists, MoveTools, s
  <1>13. CreditOK(call[d])'
    <2>1. /\ r.existing \subseteq MoveIds
          /\ r.req.tool = "credit_note" /\ r.step = "list" => r.own \in MoveIds
      BY <1>1 DEF CallType, ControlOK, ReadBackSteps
    <2>2. \A n \in MoveIds : moves[n] # Absent => moves'[n] # Absent
      BY <1>6, <1>8
    <2>3. \A n \in MoveIds : moves[n] # Absent /\ Exists(moves'[n]) =>
             Exists(moves[n]) /\ moves'[n].source = moves[n].source
      BY <1>6 DEF Exists, MayBecome
    <2> QED
      BY <1>1, <1>3, <2>1, <2>2, <2>3 DEF CreditOK, Exists, s
  <1> QED
    BY <1>2, <1>7, <1>10, <1>11, <1>12, <1>13 DEF CallOK, s

LEMMA EffectOfType ==
  ASSUME NEW m \in LiveMove
  PROVE  EffectOf(m) \in EffectType
  <1>1. HeadOf(m) \in HeadType /\ m.lines \in LinesType
    BY HeadOfType DEF LiveMove
  <1> QED
    BY <1>1 DEF EffectOf, EffectType

\* What the write finds, and what it finds with a fresh look.
LEMMA FoundFacts ==
  ASSUME IInv, NEW c \in Calls, call[c].phase = "execute",
         call[c].step \in ExecuteSteps[call[c].req.tool],
         call[c].req.tool \in MoveTools => moves[call[c].req.move] \in LiveMove,
         call[c].req.tool = "payment" => call[c].step = "pay"
  PROVE  /\ Found(call[c]) \in ActedValues
         /\ call[c].fresh =>
               IF call[c].req.tool \in CreateTools THEN Found(call[c]).found
               ELSE Found(call[c]) = call[c].snap
  <1> DEFINE r == call[c]
             tool == r.req.tool
             m == moves[r.req.move]
  <1>1. /\ r \in CallType /\ ControlOK(r) /\ FreshOK(r) /\ PreparedOK(r)
        /\ tool \in CreateTools \cup MoveTools
    BY ExecuteTool DEF Sound, CallOK
  <1>2. r.landed = "no" /\ r.snap \in SnapType(tool)
    BY <1>1, ControlFacts
  <1>3. CASE tool \in CreateTools
    <2> DEFINE found == r.req.refs \subseteq active
    <2>0. tool \notin PostTools \cup {"credit_note"} /\ tool # "payment"
      BY <1>3 DEF CreateTools, PostTools
    <2>1. Found(r) = [found |-> found]
      BY <1>3, <2>0, Zenon DEF Found
    <2>2. r.fresh => found
      BY <1>1, <1>2, <1>3 DEF FreshOK, PreparedOK
    <2>3. found \in BOOLEAN
      OBVIOUS
    <2> HIDE DEF found
    <2>4. Found(r) \in ActedValues /\ Found(r).found = found
      BY <2>1, <2>3 DEF ActedValues
    <2> QED
      BY <1>3, <2>2, <2>4, Zenon
  <1>4. CASE tool \in PostTools \cup {"credit_note"}
    <2>1. tool \notin CreateTools /\ tool \in MoveTools /\ tool # "payment"
      BY <1>4 DEF CreateTools, PostTools, MoveTools
    <2>2. Found(r) = EffectOf(m)
      BY <1>4, <2>1 DEF Found, EffectOf
    <2>3. Found(r) \in ActedValues
      BY <2>1, <2>2, EffectOfType DEF ActedValues
    <2>4. r.fresh => r.snap = EffectOf(m)
      BY <1>1, <1>2, <2>1 DEF FreshOK
    <2> QED
      BY <2>1, <2>2, <2>3, <2>4
  <1>5. CASE tool = "payment"
    <2> DEFINE route == [journal |-> r.snap.route.journal, code |-> codes[r.snap.route.journal]]
    <2>1. tool \notin CreateTools \cup PostTools \cup {"credit_note"} /\ tool \in MoveTools
      BY <1>5 DEF CreateTools, PostTools, MoveTools
    <2>2. Found(r) = [effect |-> EffectOf(m), amount |-> r.snap.amount, route |-> route]
      BY <1>5, <2>1 DEF Found, EffectOf
    <2>3. r.snap \in RegistrationType
      BY <1>2, <1>5, SnapTypes
    <2>4. r.snap.route \in RouteType /\ r.snap.amount \in Int
      BY <2>3 DEF RegistrationType
    <2>5. route \in RouteType
      BY <2>4 DEF RouteType, IInv, TypeOK
    <2>6. EffectOf(m) \in EffectType
      BY <2>1, EffectOfType
    <2>7. r.fresh => r.snap.effect = EffectOf(m) /\ route = r.snap.route
      BY <1>1, <1>2, <1>5, <2>1, <2>4 DEF FreshOK, RouteType
    <2> HIDE DEF route
    <2>8. Found(r) \in RegistrationType
      BY <2>2, <2>4, <2>5, <2>6 DEF RegistrationType
    <2>9. r.fresh => Found(r) = r.snap
      BY <2>2, <2>3, <2>7 DEF RegistrationType
    <2> QED
      BY <2>1, <2>8, <2>9 DEF ActedValues
  <1> QED
    BY <1>1, <1>3, <1>4, <1>5 DEF MoveTools

\* The writer itself after the write.
AfterWrite(r, step, own, reported, named) ==
    [r EXCEPT !.step = step, !.own = own, !.acted = Found(r),
              !.landed = IF r.fresh THEN "fresh" ELSE "stale",
              !.reported = reported, !.named = named]

LEMMA WriterKeeps ==
  ASSUME IInv, NEW c \in Calls, call[c].phase = "execute",
         call[c].step \in ExecuteSteps[call[c].req.tool],
         call[c].req.tool \in MoveTools => moves[call[c].req.move] \in LiveMove,
         call[c].req.tool = "payment" => call[c].step = "pay",
         NEW own \in MoveIds, NEW reported \in MoveIds \cup {0}, NEW named \in BOOLEAN,
         NEW step,
         \/ step \in ReadBackSteps[call[c].req.tool] /\ call[c].result = "none"
         \/ step = "ended" /\ call[c].result = "unknown",
         step \notin {"list", "ended"} => reported \in MoveIds,
         step = "confirm" => call[c].req.tool # "credit_note",
         call'[c] = AfterWrite(call[c], step, own, reported, named),
         call[c].req.tool = "credit_note" =>
            /\ \A n \in call[c].existing : moves'[n] # Absent
            /\ own \notin call[c].existing
            /\ moves'[own] # Absent /\ moves'[own].source = call[c].req.move
  PROVE  call'[c] \in CallType /\ ControlOK(call'[c]) /\ CallOK(call[c])'
  <1> DEFINE r == call[c]
             tool == r.req.tool
             s == call'[c]
             landed == IF r.fresh THEN "fresh" ELSE "stale"
  <1>1. /\ r \in CallType /\ ControlOK(r) /\ PreparedOK(r)
        /\ tool \in CreateTools \cup MoveTools
    BY ExecuteTool DEF Sound, CallOK
  <1>2. /\ Found(r) \in ActedValues
        /\ r.fresh => IF tool \in CreateTools THEN Found(r).found ELSE Found(r) = r.snap
    BY FoundFacts
  <1>3. /\ step \in StepNames /\ own \in IdValues /\ reported \in IdValues
        /\ landed \in LandedValues
    BY <1>1, ToolFacts DEF IdValues, LandedValues, StepNames
  <1>0. landed # "no" /\ (landed = "fresh" => r.fresh)
    OBVIOUS
  <1> DEFINE found == Found(r)
             next == [r EXCEPT !.step = step, !.own = own, !.acted = found, !.landed = landed,
                               !.reported = reported, !.named = named]
  <1> HIDE DEF landed, found
  <1>4. s \in CallType
    <2>1. found \in ActedValues
      BY <1>2 DEF found
    <2>2. next \in CallType
      BY <1>1, <1>3, <2>1 DEF CallType
    <2> QED
      BY <2>2 DEF AfterWrite, landed, found
  <1>5. /\ s.req = r.req /\ s.phase = r.phase /\ s.result = r.result /\ s.snap = r.snap
        /\ s.checked = r.checked /\ s.routes = r.routes /\ s.existing = r.existing
        /\ s.step = step /\ s.own = own /\ s.acted = Found(r) /\ s.landed = landed
        /\ s.reported = reported
    BY <1>1 DEF AfterWrite, CallType, landed
  <1>6. /\ step \notin {"invoice_lines", "entry_lines", "preview", "routes", "select",
                        "idle", "wizard", "pay", "reverse", "invoice_draft", "entry_draft"}
        /\ "ended" \notin ReadBackSteps[tool] /\ r.result \in {"none", "unknown"}
        /\ step = "ended" <=> r.result = "unknown"
    BY <1>1 DEF ReadBackSteps, CreateTools, MoveTools, PostTools
  <1>7. /\ r.snap \in SnapType(tool) /\ IsFiniteSet(r.routes)
    BY <1>1, ControlFacts DEF ControlOK
  <1> HIDE DEF s
  <1>9. ControlOK(s)
    BY <1>0, <1>5, <1>6, <1>7 DEF ControlOK
  <1>10. FreshOK(call[c])' /\ PaymentOK(call[c])'
    BY <1>0, <1>5, <1>6 DEF FreshOK, PaymentOK, s
  <1>11. PreparedOK(call[c])'
    BY <1>1, <1>5, <1>6 DEF PreparedOK, s
  <1>12. ActedOK(call[c])'
    BY <1>0, <1>2, <1>5 DEF ActedOK, s
  <1>13. CreditOK(call[c])'
    BY <1>5, <1>6, <1>7 DEF CreditOK, s
  <1> QED
    BY <1>4, <1>9, <1>10, <1>11, <1>12, <1>13 DEF CallOK, s

\* A write to move k, by a call or by a user, altogether.
LEMMA WriteKeeps ==
  ASSUME IInv, NEW k \in MoveIds, NEW row, MayBecome(moves[k], row),
         moves' = [moves EXCEPT ![k] = row], active' = active, codes' = codes,
         edits' \in 0..MaxEdits, call' \in [Calls -> CallType],
         \A d \in Calls : ControlOK(call'[d]) /\ CallOK(call[d])'
  PROVE  IInv'
  <1>1. moves' \in [MoveIds -> LiveMove \cup {Absent, Deleted}]
    BY DEF IInv, TypeOK, MayBecome
  <1>2. TypeOK'
    BY <1>1 DEF IInv, TypeOK
  <1> QED
    BY <1>2 DEF IInv, CallsInv

LEMMA AbsentFacts ==
  /\ Absent # Deleted /\ ~Exists(Absent) /\ ~Exists(Deleted)
  /\ Absent \notin LiveMove /\ Deleted \notin LiveMove
  <1>1. Absent.kind = "none" /\ Deleted.kind = "none" /\ Absent.state # Deleted.state
    BY DEF Absent, Deleted
  <1>2. Absent \notin LiveMove /\ Deleted \notin LiveMove
    BY <1>1 DEF LiveMove, Kinds
  <1> QED
    BY <1>1, <1>2 DEF Exists

\* Landed, flattened.
LEMMA LandedReported ==
  ASSUME NEW c \in Calls, call[c] \in CallType, NEW own, NEW step, NEW reported
  PROVE  [Landed(c, own, step) EXCEPT !.reported = reported] = AfterWrite(call[c], ReadBack(call[c], step), own, reported, call[c].named)
  <1> DEFINE r == call[c]
             next == ReadBack(r, step)
             found == Found(r)
             landed == IF r.fresh THEN "fresh" ELSE "stale"
             l == [r EXCEPT !.step = next, !.own = own, !.acted = found, !.landed = landed]
  <1>1. Landed(c, own, step) = l
    BY DEF Landed
  <1> HIDE DEF found, landed, next
  <1>2. [l EXCEPT !.reported = reported] =
          [r EXCEPT !.step = next, !.own = own, !.acted = found, !.landed = landed,
                    !.reported = reported, !.named = r.named]
    BY DEF CallType
  <1> HIDE DEF l
  <1>3. [Landed(c, own, step) EXCEPT !.reported = reported] = [l EXCEPT !.reported = reported]
    BY <1>1, Zenon
  <1> QED
    BY <1>2, <1>3, Zenon DEF AfterWrite, found, landed, next

LEMMA LandedNamed ==
  ASSUME NEW c \in Calls, call[c] \in CallType, NEW own, NEW step, NEW named
  PROVE  [Landed(c, own, step) EXCEPT !.named = named] = AfterWrite(call[c], ReadBack(call[c], step), own, call[c].reported, named)
  <1> DEFINE r == call[c]
             next == ReadBack(r, step)
             found == Found(r)
             landed == IF r.fresh THEN "fresh" ELSE "stale"
             l == [r EXCEPT !.step = next, !.own = own, !.acted = found, !.landed = landed]
  <1>1. Landed(c, own, step) = l
    BY DEF Landed
  <1> HIDE DEF found, landed, next
  <1>2. [l EXCEPT !.named = named] =
          [r EXCEPT !.step = next, !.own = own, !.acted = found, !.landed = landed,
                    !.reported = r.reported, !.named = named]
    BY DEF CallType
  <1> HIDE DEF l
  <1>3. [Landed(c, own, step) EXCEPT !.named = named] = [l EXCEPT !.named = named]
    BY <1>1, Zenon
  <1> QED
    BY <1>2, <1>3, Zenon DEF AfterWrite, found, landed, next

\* A write is read back, or its call has been given up.
LEMMA ReadBackFacts ==
  ASSUME NEW r \in CallType, ControlOK(r), r.phase = "execute",
         r.step \in ExecuteSteps[r.req.tool], NEW step
  PROVE  \/ ReadBack(r, step) = step /\ r.result = "none"
         \/ ReadBack(r, step) = "ended" /\ r.result = "unknown"
  BY ControlFacts DEF ReadBack

LEMMA CreateKeeps ==
  ASSUME IInv, NEW c \in Calls, NEW step, NEW kind, Create(c, step, kind),
         <<step, kind>> \in {<<"create_invoice", "invoice">>, <<"create_entry", "entry">>}
  PROVE  IInv'
  <1> DEFINE r == call[c]
             tool == r.req.tool
             row == NewMove(kind, r.req.doc, 0)
             s == [Landed(c, FreshId, "confirm_draft") EXCEPT !.reported = FreshId]
  <1>1. /\ r.phase = "execute" /\ r.step = step /\ HasRoom
        /\ moves' = [moves EXCEPT ![FreshId] = row]
        /\ call' = [call EXCEPT ![c] = s]
        /\ active' = active /\ codes' = codes /\ edits' = edits
    BY DEF Create, At, Step
  <1>2. /\ r \in CallType /\ ControlOK(r) /\ tool \in CreateTools /\ tool = step
        /\ call \in [Calls -> CallType]
    BY <1>1, ExecuteTool DEF CreateTools, IInv, TypeOK
  <1>3. FreshId \in MoveIds /\ moves[FreshId] = Absent
    BY <1>1, FreshIdFacts
  <1>4. row \in LiveMove
    BY <1>2, CallTool, NewMoveType DEF Kinds
  <1>5. MayBecome(moves[FreshId], row)
    BY <1>3, <1>4, AbsentFacts DEF MayBecome
  <1>6. call'[c] = s /\ \A d \in Calls : d # c => call'[d] = call[d]
    BY <1>1, <1>2
  <1>7. /\ r.step \in ExecuteSteps[tool] /\ "confirm_draft" \in ReadBackSteps[tool]
        /\ tool \notin MoveTools /\ tool \notin {"payment", "credit_note"}
    BY <1>1, <1>2 DEF ExecuteSteps, ReadBackSteps, CreateTools, MoveTools, PostTools
  <1>8. r.named \in BOOLEAN
    BY <1>2 DEF CallType
  <1>9. call'[c] = AfterWrite(r, ReadBack(r, "confirm_draft"), FreshId, FreshId, r.named)
    <2>1. s = AfterWrite(r, ReadBack(r, "confirm_draft"), FreshId, FreshId, r.named)
      BY <1>2, LandedReported, Zenon
    <2> QED
      BY <1>6, <2>1, Zenon
  <1>10. call'[c] \in CallType /\ ControlOK(call'[c]) /\ CallOK(call[c])'
    <2> DEFINE next == ReadBack(r, "confirm_draft")
    <2>1. \/ next = "confirm_draft" /\ r.result = "none"
          \/ next = "ended" /\ r.result = "unknown"
      BY <1>1, <1>2, <1>7, ReadBackFacts
    <2> HIDE DEF next
    <2>2. call'[c] = AfterWrite(r, next, FreshId, FreshId, r.named)
      BY <1>9 DEF next
    <2> QED
      BY <1>1, <1>3, <1>7, <1>8, <2>1, <2>2, WriterKeeps
  <1> HIDE DEF row, s
  <1>11. ASSUME NEW d \in Calls, d # c
         PROVE  call'[d] \in CallType /\ ControlOK(call'[d]) /\ CallOK(call[d])'
    <2>1. call'[d] = call[d]
      BY <1>6, <1>11
    <2> QED
      BY <1>1, <1>3, <1>5, <2>1, OtherKeeps
  <1>12. call' \in [Calls -> CallType]
    BY <1>1, <1>2, <1>6, <1>10
  <1>13. edits' \in 0..MaxEdits
    BY <1>1 DEF IInv, TypeOK
  <1>14. \A d \in Calls : ControlOK(call'[d]) /\ CallOK(call[d])'
    BY <1>10, <1>11
  <1> QED
    BY <1>1, <1>3, <1>5, <1>12, <1>13, <1>14, WriteKeeps

\* Disturbed, call by call.
LEMMA DisturbedFacts ==
  ASSUME NEW f \in [Calls -> CallType], NEW m, NEW by
  PROVE  /\ Disturbed(f, m, by) \in [Calls -> CallType]
         /\ \A d \in Calls :
               Disturbed(f, m, by)[d] =
                 IF d # by /\ f[d].req.tool \in MoveTools /\ f[d].req.move = m
                 THEN [f[d] EXCEPT !.fresh = FALSE] ELSE f[d]
  <1> DEFINE T(e) == IF e # by /\ f[e].req.tool \notin CreateTools /\ f[e].req.move = m
                     THEN [f[e] EXCEPT !.fresh = FALSE] ELSE f[e]
  <1>1. Disturbed(f, m, by) = [e \in Calls |-> T(e)]
    BY DEF Disturbed
  <1>2. ASSUME NEW e \in Calls PROVE T(e) \in CallType
    <2>1. f[e] \in CallType
      OBVIOUS
    <2>2. [f[e] EXCEPT !.fresh = FALSE] \in CallType
      BY <2>1 DEF CallType
    <2> QED
      BY <2>1, <2>2
  <1>3. Disturbed(f, m, by) \in [Calls -> CallType]
    BY <1>1, <1>2
  <1>4. ASSUME NEW d \in Calls
        PROVE  Disturbed(f, m, by)[d] =
                 IF d # by /\ f[d].req.tool \in MoveTools /\ f[d].req.move = m
                 THEN [f[d] EXCEPT !.fresh = FALSE] ELSE f[d]
    <2>1. Disturbed(f, m, by)[d] = T(d)
      BY <1>1
    <2>2. f[d].req.tool \in MoveTools <=> f[d].req.tool \notin CreateTools
      BY CallTool, SnapTypes
    <2> QED
      BY <2>1, <2>2
  <1> QED
    BY <1>3, <1>4

\* A call changes its move: action_post and action_create_payments.
ChangedCalls(c, m, step) ==
    Disturbed([call EXCEPT ![c] = [Landed(c, m, step) EXCEPT !.reported = m]], m, c)

LEMMA ChangedCallsFacts ==
  ASSUME call \in [Calls -> CallType], NEW c \in Calls, NEW m \in MoveIds, NEW step \in StepNames,
         Found(call[c]) \in ActedValues
  PROVE  /\ ChangedCalls(c, m, step) \in [Calls -> CallType]
         /\ ChangedCalls(c, m, step)[c] =
               AfterWrite(call[c], ReadBack(call[c], step), m, m, call[c].named)
         /\ \A d \in Calls \ {c} :
               IF call[d].req.tool \in MoveTools /\ call[d].req.move = m
               THEN ChangedCalls(c, m, step)[d] = [call[d] EXCEPT !.fresh = FALSE]
               ELSE ChangedCalls(c, m, step)[d] = call[d]
  <1> DEFINE r == call[c]
             next == ReadBack(r, step)
             s == [Landed(c, m, step) EXCEPT !.reported = m]
             f == [call EXCEPT ![c] = s]
  <1>0. next \in StepNames
    BY DEF ReadBack, StepNames
  <1>1. call[c] \in CallType
    OBVIOUS
  <1>2. s = AfterWrite(r, next, m, m, r.named)
    BY <1>1, LandedReported, Zenon
  <1> HIDE DEF next
  <1>3. AfterWrite(r, next, m, m, r.named) \in CallType
    <2> DEFINE landed == IF r.fresh THEN "fresh" ELSE "stale"
               found == Found(r)
    <2>1. landed \in LandedValues /\ found \in ActedValues /\ m \in IdValues /\ r.named \in BOOLEAN
      BY <1>1 DEF LandedValues, IdValues, CallType
    <2> HIDE DEF landed, found
    <2>2. [r EXCEPT !.step = next, !.own = m, !.acted = found, !.landed = landed,
                    !.reported = m, !.named = r.named] \in CallType
      BY <1>0, <1>1, <2>1 DEF CallType
    <2> QED
      BY <2>2, Zenon DEF AfterWrite, found, landed
  <1>4. s \in CallType
    BY <1>2, <1>3, Zenon
  <1> HIDE DEF s
  <1>5. f \in [Calls -> CallType] /\ f[c] = s /\ \A d \in Calls : d # c => f[d] = call[d]
    BY <1>4
  <1>6. ChangedCalls(c, m, step) = Disturbed(f, m, c)
    BY Zenon DEF s, ChangedCalls
  <1> HIDE DEF f
  <1>7. Disturbed(f, m, c) \in [Calls -> CallType] /\ Disturbed(f, m, c)[c] = f[c]
    <2>1. Disturbed(f, m, c) \in [Calls -> CallType]
      BY <1>5, DisturbedFacts
    <2>2. Disturbed(f, m, c)[c] = f[c]
      BY DEF Disturbed
    <2> QED
      BY <2>1, <2>2
  <1>8. ASSUME NEW d \in Calls, d # c
        PROVE  IF call[d].req.tool \in MoveTools /\ call[d].req.move = m
               THEN Disturbed(f, m, c)[d] = [call[d] EXCEPT !.fresh = FALSE]
               ELSE Disturbed(f, m, c)[d] = call[d]
    <2>1. f[d] = call[d]
      BY <1>5, <1>8
    <2>2. IF f[d].req.tool \in MoveTools /\ f[d].req.move = m
          THEN Disturbed(f, m, c)[d] = [f[d] EXCEPT !.fresh = FALSE]
          ELSE Disturbed(f, m, c)[d] = f[d]
      BY <1>5, <1>8, DisturbedFacts
    <2> QED
      BY <2>1, <2>2
  <1> QED
    BY <1>2, <1>5, <1>6, <1>7, <1>8 DEF next

LEMMA ChangeKeeps ==
  ASSUME IInv, NEW c \in Calls, call[c].phase = "execute", NEW step,
         \/ call[c].step = "post" /\ step = "confirm_posted"
         \/ call[c].step = "pay" /\ step = "confirm",
         NEW row \in LiveMove, moves[call[c].req.move] \in LiveMove,
         row.source = moves[call[c].req.move].source,
         moves' = [moves EXCEPT ![call[c].req.move] = row],
         active' = active, codes' = codes, edits' = edits,
         call' = ChangedCalls(c, call[c].req.move, step)
  PROVE  IInv'
  <1> DEFINE r == call[c]
             tool == r.req.tool
             m == r.req.move
  <1>1. /\ r \in CallType /\ ControlOK(r) /\ call \in [Calls -> CallType]
        /\ r.step = "post" => tool \in PostTools
        /\ r.step = "pay" => tool = "payment"
    BY ExecuteTool DEF IInv, TypeOK
  <1>2. /\ tool \in MoveTools /\ tool # "credit_note" /\ r.step \in ExecuteSteps[tool]
        /\ step \in ReadBackSteps[tool] /\ (tool = "payment" => r.step = "pay")
        /\ step # "list" /\ step \in StepNames
    BY <1>1 DEF PostTools, MoveTools, ExecuteSteps, ReadBackSteps, StepNames
  <1>3. m \in MoveIds /\ r.named \in BOOLEAN
    BY <1>1, <1>2, CallTool DEF CallType
  <1>4. Found(r) \in ActedValues
    BY <1>2, FoundFacts
  <1>5. /\ call' \in [Calls -> CallType]
        /\ call'[c] = AfterWrite(r, ReadBack(r, step), m, m, r.named)
        /\ \A d \in Calls \ {c} :
               IF call[d].req.tool \in MoveTools /\ call[d].req.move = m
               THEN call'[d] = [call[d] EXCEPT !.fresh = FALSE]
               ELSE call'[d] = call[d]
    BY <1>1, <1>2, <1>3, <1>4, ChangedCallsFacts
  <1>6. ControlOK(call'[c]) /\ CallOK(call[c])'
    <2> DEFINE next == ReadBack(r, step)
    <2>1. \/ next = step /\ r.result = "none"
          \/ next = "ended" /\ r.result = "unknown"
      BY <1>1, <1>2, ReadBackFacts
    <2> HIDE DEF next
    <2>2. call'[c] = AfterWrite(r, next, m, m, r.named)
      BY <1>5 DEF next
    <2> QED
      BY <1>2, <1>3, <2>1, <2>2, WriterKeeps
  <1>7. MayBecome(moves[m], row)
    BY AbsentFacts DEF MayBecome
  <1>8. moves' = [moves EXCEPT ![m] = row]
    OBVIOUS
  <1> HIDE DEF m
  <1>9. ASSUME NEW d \in Calls, d # c
        PROVE  ControlOK(call'[d]) /\ CallOK(call[d])'
    <2>1. CASE call[d].req.tool \in MoveTools /\ call[d].req.move = m
      <3>1. call'[d] = [call[d] EXCEPT !.fresh = FALSE]
        BY <1>5, <1>9, <2>1
      <3> QED
        BY <1>3, <1>7, <1>8, <3>1, OtherKeeps
    <2>2. CASE ~(call[d].req.tool \in MoveTools /\ call[d].req.move = m)
      <3>1. call'[d] = call[d]
        BY <1>5, <1>9, <2>2
      <3> QED
        BY <1>3, <1>7, <1>8, <2>2, <3>1, OtherKeeps
    <2> QED
      BY <2>1, <2>2
  <1>10. \A d \in Calls : ControlOK(call'[d]) /\ CallOK(call[d])'
    BY <1>6, <1>9
  <1>11. edits' \in 0..MaxEdits
    BY DEF IInv, TypeOK
  <1> QED
    BY <1>3, <1>5, <1>7, <1>8, <1>10, <1>11, WriteKeeps

LEMMA PostKeeps ==
  ASSUME IInv, NEW c \in Calls, Post(c)
  PROVE  IInv'
  <1> DEFINE r == call[c]
             m == r.req.move
             row == [moves[m] EXCEPT !.state = "posted"]
  <1>1. r.phase = "execute" /\ r.step = "post" /\ active' = active /\ codes' = codes /\ edits' = edits
    BY DEF Post, At
  <1>2. Sound(r) /\ r \in CallType /\ r.req.tool \in PostTools
    BY <1>1, ExecuteTool
  <1>3. m \in MoveIds
    BY <1>2, CallTool DEF MoveTools
  <1>4. moves \in [MoveIds -> LiveMove \cup {Absent, Deleted}]
    BY DEF IInv, TypeOK
  <1>5. CASE moves[m].state = "draft"
    <2>1. moves[m] \in LiveMove
      BY <1>3, <1>4, <1>5, RowFacts
    <2>2. row \in LiveMove /\ row.source = moves[m].source
      BY <2>1 DEF LiveMove
    <2>3. moves' = [moves EXCEPT ![m] = row]
      BY <1>3, <1>4, <1>5 DEF Post
    <2>4. call' = ChangedCalls(c, m, "confirm_posted")
      BY <1>5, Zenon DEF ChangedCalls, Post
    <2> HIDE DEF row
    <2> QED
      BY <1>1, <2>1, <2>2, <2>3, <2>4, ChangeKeeps
  <1>6. CASE moves[m].state # "draft"
    <2>1. Step(c, Ended(r, "unknown")) /\ UNCHANGED odoo
      BY <1>1, <1>6 DEF Post, odoo
    <2>2. Sound(Ended(r, "unknown"))
      BY <1>1, <1>2, EndedSound DEF PostTools
    <2> QED
      BY <2>1, <2>2, StepKeeps
  <1> QED
    BY <1>5, <1>6

LEMMA CreatePaymentsKeeps ==
  ASSUME IInv, NEW c \in Calls, CreatePayments(c)
  PROVE  IInv'
  <1> DEFINE r == call[c]
             m == r.req.move
             row == [moves[m] EXCEPT !.residual = @ - r.snap.amount]
  <1>1. r.phase = "execute" /\ r.step = "pay" /\ active' = active /\ codes' = codes /\ edits' = edits
    BY DEF CreatePayments, At
  <1>2. Sound(r) /\ r \in CallType /\ ControlOK(r) /\ r.req.tool = "payment"
    BY <1>1, ExecuteTool
  <1>3. m \in MoveIds
    BY <1>2, CallTool DEF MoveTools
  <1>4. moves \in [MoveIds -> LiveMove \cup {Absent, Deleted}]
    BY DEF IInv, TypeOK
  <1>5. CASE moves[m].state = "posted"
    <2>1. moves[m] \in LiveMove
      BY <1>3, <1>4, <1>5, RowFacts
    <2>2. r.snap \in RegistrationType
      BY <1>1, <1>2, ControlFacts, SnapTypes
    <2>3. r.snap.amount \in Int /\ moves[m].residual \in Int
      BY <2>1, <2>2 DEF RegistrationType, LiveMove
    <2>4. row \in LiveMove /\ row.source = moves[m].source
      BY <2>1, <2>3 DEF LiveMove
    <2>5. moves' = [moves EXCEPT ![m] = row]
      BY <1>3, <1>4, <1>5 DEF CreatePayments
    <2>6. call' = ChangedCalls(c, m, "confirm")
      BY <1>5, Zenon DEF ChangedCalls, CreatePayments
    <2> HIDE DEF row
    <2> QED
      BY <1>1, <2>1, <2>4, <2>5, <2>6, ChangeKeeps
  <1>6. CASE moves[m].state # "posted"
    <2>1. Step(c, Ended(r, "unknown")) /\ UNCHANGED odoo
      BY <1>1, <1>6 DEF CreatePayments, odoo
    <2>2. Sound(Ended(r, "unknown"))
      BY <1>1, <1>2, EndedSound
    <2> QED
      BY <2>1, <2>2, StepKeeps
  <1> QED
    BY <1>5, <1>6

LEMMA ReverseMovesKeeps ==
  ASSUME IInv, NEW c \in Calls, ReverseMoves(c)
  PROVE  IInv'
  <1> DEFINE r == call[c]
             m == r.req.move
             row == NewMove("refund", moves[m], m)
  <1>1. r.phase = "execute" /\ r.step = "reverse" /\ active' = active /\ codes' = codes /\ edits' = edits
    BY DEF ReverseMoves, At
  <1>2. /\ Sound(r) /\ r \in CallType /\ ControlOK(r) /\ r.req.tool = "credit_note" /\ CreditOK(r)
        /\ call \in [Calls -> CallType]
    BY <1>1, ExecuteTool DEF Sound, CallOK, IInv, TypeOK
  <1>3. m \in MoveIds
    BY <1>2, CallTool DEF MoveTools
  <1>4. moves \in [MoveIds -> LiveMove \cup {Absent, Deleted}]
    BY DEF IInv, TypeOK
  <1>5. CASE moves[m].state = "posted"
    <2>1. PICK named \in BOOLEAN : Step(c, [Landed(c, FreshId, "list") EXCEPT !.named = named])
      BY <1>5 DEF ReverseMoves
    <2>2. HasRoom /\ moves' = [moves EXCEPT ![FreshId] = row]
      BY <1>5 DEF ReverseMoves
    <2>3. FreshId \in MoveIds /\ moves[FreshId] = Absent
      BY <2>2, FreshIdFacts
    <2>4. moves[m] \in LiveMove
      BY <1>3, <1>4, <1>5, RowFacts
    <2>5. row \in LiveMove /\ row.source = m
      BY <1>3, <2>4, NewMoveType DEF Kinds
    <2>6. MayBecome(moves[FreshId], row)
      BY <2>3, <2>5, AbsentFacts DEF MayBecome
    <2> HIDE DEF row
    <2> DEFINE s == [Landed(c, FreshId, "list") EXCEPT !.named = named]
    <2>7. s = AfterWrite(r, ReadBack(r, "list"), FreshId, r.reported, named)
      <3>1. call[c] \in CallType
        BY <1>2
      <3> QED
        BY <3>1, LandedNamed
    <2>8. call' = [call EXCEPT ![c] = s]
      BY <2>1, Zenon DEF Step
    <2> HIDE DEF s
    <2>9. call'[c] = s /\ \A d \in Calls : d # c => call'[d] = call[d]
      BY <1>2, <2>8
    <2> DEFINE next == ReadBack(r, "list")
    <2>10. call'[c] = AfterWrite(r, next, FreshId, r.reported, named)
      BY <2>7, <2>9
    <2>11. /\ \A n \in r.existing : moves[n] # Absent
           /\ r.existing \subseteq MoveIds
           /\ r.reported \in MoveIds \cup {0}
      BY <1>1, <1>2 DEF CreditOK, CallType, IdValues
    <2>12. /\ \A n \in r.existing : moves'[n] # Absent
           /\ FreshId \notin r.existing
           /\ moves'[FreshId] # Absent /\ moves'[FreshId].source = m
      BY <1>4, <2>2, <2>3, <2>5, <2>11, AbsentFacts
    <2>13. /\ r.step \in ExecuteSteps[r.req.tool] /\ "list" \in ReadBackSteps[r.req.tool]
           /\ r.req.tool # "payment"
           /\ \/ next = "list" /\ r.result = "none"
              \/ next = "ended" /\ r.result = "unknown"
      BY <1>1, <1>2, ReadBackFacts DEF ExecuteSteps, ReadBackSteps
    <2> HIDE DEF next
    <2>14. call'[c] \in CallType /\ ControlOK(call'[c]) /\ CallOK(call[c])'
      BY <1>1, <2>3, <2>4, <2>10, <2>11, <2>12, <2>13, WriterKeeps
    <2>15. ASSUME NEW d \in Calls, d # c
           PROVE  call'[d] \in CallType /\ ControlOK(call'[d]) /\ CallOK(call[d])'
      <3>1. call'[d] = call[d]
        BY <2>9, <2>15
      <3> QED
        BY <1>1, <2>2, <2>3, <2>6, <3>1, OtherKeeps
    <2>16. call' \in [Calls -> CallType]
      BY <1>2, <2>8, <2>9, <2>14
    <2>17. edits' \in 0..MaxEdits
      BY <1>1 DEF IInv, TypeOK
    <2>18. \A d \in Calls : ControlOK(call'[d]) /\ CallOK(call[d])'
      BY <2>14, <2>15
    <2> QED
      BY <1>1, <2>2, <2>3, <2>6, <2>16, <2>17, <2>18, WriteKeeps
  <1>6. CASE moves[m].state # "posted"
    <2>1. Step(c, Ended(r, "unknown")) /\ UNCHANGED odoo
      BY <1>1, <1>6 DEF ReverseMoves, odoo
    <2>2. Sound(Ended(r, "unknown"))
      BY <1>1, <1>2, EndedSound
    <2> QED
      BY <2>1, <2>2, StepKeeps
  <1> QED
    BY <1>5, <1>6

----------------------------------------------------------------------------
\* Odoo users.

LEMMA UserMovesFacts ==
  ASSUME NEW m \in LiveMove, NEW new \in UserMoves(m)
  PROVE  /\ MayBecome(m, new)
         /\ m.residual >= 0 => new.residual >= 0
         /\ new.residual < 0 => m.residual < 0
  <1>1. m # Deleted /\ m # Absent
    BY AbsentFacts
  <1>2. m.state \in {"draft", "posted"} /\ m.residual \in Int
    BY DEF LiveMove
  <1>3. CASE m.state = "draft"
    <2>1. \/ \E doc \in Drafts : new = NewMove(m.kind, doc, m.source)
          \/ new = [m EXCEPT !.state = "posted"]
          \/ new = Deleted
      BY <1>3 DEF UserMoves
    <2>2. ASSUME NEW doc \in Drafts, new = NewMove(m.kind, doc, m.source)
          PROVE  new \in LiveMove /\ new.source = m.source /\ new.residual >= 0
      <3>1. doc \in DocType /\ m.kind \in Kinds /\ m.source \in MoveIds \cup {0}
        BY AccountingAssumption DEF LiveMove
      <3> QED
        BY <2>2, <3>1, NewMoveType
    <2>3. ASSUME new = [m EXCEPT !.state = "posted"]
          PROVE  new \in LiveMove /\ new.source = m.source /\ new.residual = m.residual
      BY <2>3 DEF LiveMove
    <2>4. Deleted.residual = 0
      BY DEF Deleted, Absent
    <2>5. new.residual \in Int
      BY <2>1, <2>2, <2>3, <2>4, <1>2 DEF LiveMove
    <2> QED
      BY <1>1, <1>2, <2>1, <2>2, <2>3, <2>4, <2>5, AbsentFacts DEF MayBecome
  <1>4. CASE m.state = "posted"
    <2>1. \/ new = [m EXCEPT !.state = "draft"]
          \/ m.residual > 0 /\ new = [m EXCEPT !.residual = @ - 1]
      BY <1>4 DEF UserMoves
    <2>2. new \in LiveMove /\ new.source = m.source
          /\ (new.residual = m.residual \/ (m.residual > 0 /\ new.residual = m.residual - 1))
      BY <2>1, <1>2 DEF LiveMove
    <2> QED
      BY <1>1, <1>2, <2>2 DEF MayBecome
  <1> QED
    BY <1>2, <1>3, <1>4

LEMMA UserEditKeeps ==
  ASSUME IInv, NEW m \in MoveIds, UserEdit(m)
  PROVE  IInv'
  <1>1. PICK new \in UserMoves(moves[m]) : moves' = [moves EXCEPT ![m] = new]
    BY DEF UserEdit
  <1>2. /\ edits < MaxEdits /\ Exists(moves[m]) /\ call' = Disturbed(call, m, 0)
        /\ edits' = edits + 1 /\ active' = active /\ codes' = codes
    BY DEF UserEdit
  <1>3. /\ moves \in [MoveIds -> LiveMove \cup {Absent, Deleted}] /\ call \in [Calls -> CallType]
        /\ edits' \in 0..MaxEdits
    BY <1>2, AccountingAssumption DEF IInv, TypeOK
  <1>4. moves[m] \in LiveMove
    BY <1>2, <1>3, RowFacts
  <1>5. MayBecome(moves[m], new)
    BY <1>4, UserMovesFacts
  <1>6. call' \in [Calls -> CallType]
    BY <1>2, <1>3, DisturbedFacts
  <1>7. ASSUME NEW d \in Calls
        PROVE  ControlOK(call'[d]) /\ CallOK(call[d])'
    <2>1. d # 0
      BY AccountingAssumption
    <2>2. CASE call[d].req.tool \in MoveTools /\ call[d].req.move = m
      <3>1. call'[d] = [call[d] EXCEPT !.fresh = FALSE]
        BY <1>2, <1>3, <2>1, <2>2, DisturbedFacts
      <3> QED
        BY <1>1, <1>2, <1>5, <3>1, OtherKeeps
    <2>3. CASE ~(call[d].req.tool \in MoveTools /\ call[d].req.move = m)
      <3>1. call'[d] = call[d]
        <4>1. call[d].req.tool \notin CreateTools => call[d].req.tool \in MoveTools
          BY <1>3, CallTool
        <4> QED
          BY <1>2, <2>3, <4>1 DEF Disturbed
      <3> QED
        BY <1>1, <1>2, <1>5, <2>3, <3>1, OtherKeeps
    <2> QED
      BY <2>2, <2>3
  <1> QED
    BY <1>1, <1>2, <1>3, <1>5, <1>6, <1>7, WriteKeeps

LEMMA UserReverseKeeps ==
  ASSUME IInv, NEW m \in MoveIds, UserReverse(m)
  PROVE  IInv'
  <1> DEFINE row == NewMove("refund", moves[m], m)
  <1>1. /\ edits < MaxEdits /\ moves[m].state = "posted" /\ HasRoom
        /\ moves' = [moves EXCEPT ![FreshId] = row]
        /\ edits' = edits + 1 /\ active' = active /\ codes' = codes /\ call' = call
    BY DEF UserReverse
  <1>2. /\ moves \in [MoveIds -> LiveMove \cup {Absent, Deleted}] /\ call \in [Calls -> CallType]
        /\ edits' \in 0..MaxEdits
    BY <1>1, AccountingAssumption DEF IInv, TypeOK
  <1>3. moves[m] \in LiveMove
    BY <1>1, <1>2, RowFacts
  <1>4. FreshId \in MoveIds /\ moves[FreshId] = Absent
    BY <1>1, FreshIdFacts
  <1>5. row \in LiveMove
    BY <1>3, NewMoveType DEF Kinds
  <1>6. MayBecome(moves[FreshId], row)
    BY <1>4, <1>5, AbsentFacts DEF MayBecome
  <1> HIDE DEF row
  <1>7. ASSUME NEW d \in Calls
        PROVE  ControlOK(call'[d]) /\ CallOK(call[d])'
    <2>1. call'[d] = call[d]
      BY <1>1
    <2> QED
      BY <1>1, <1>4, <1>6, <2>1, OtherKeeps
  <1>8. call' \in [Calls -> CallType]
    BY <1>1, <1>2
  <1> QED
    BY <1>1, <1>2, <1>4, <1>6, <1>7, <1>8, WriteKeeps

\* A record or a payment method changes; every call keeps its look or loses it.
LEMMA LooksKeep ==
  ASSUME IInv, moves' = moves, active' \subseteq Refs, codes' \in [Journals -> Codes],
         edits' \in 0..MaxEdits, call' \in [Calls -> CallType],
         \A d \in Calls :
            \/ call'[d] = [call[d] EXCEPT !.fresh = FALSE]
            \/ /\ call'[d] = call[d]
               /\ call[d].checked \subseteq active => call[d].checked \subseteq active'
               /\ call[d].req.tool = "payment" /\ call[d].step = "pay" => codes' = codes
  PROVE  IInv'
  <1>1. ASSUME NEW d \in Calls PROVE ControlOK(call'[d]) /\ CallOK(call[d])'
    <2> DEFINE r == call[d]
               s == call'[d]
    <2>1. /\ r \in CallType /\ ControlOK(r)
          /\ FreshOK(r) /\ PreparedOK(r) /\ ActedOK(r) /\ CreditOK(r) /\ PaymentOK(r)
      BY SoundCalls DEF Sound, CallOK
    <2>2. /\ s.req = r.req /\ s.phase = r.phase /\ s.step = r.step /\ s.result = r.result
          /\ s.head = r.head /\ s.effect = r.effect /\ s.snap = r.snap /\ s.checked = r.checked
          /\ s.routes = r.routes /\ s.existing = r.existing /\ s.own = r.own /\ s.named = r.named
          /\ s.reported = r.reported /\ s.missed = r.missed /\ s.landed = r.landed
          /\ s.acted = r.acted
      BY <2>1 DEF CallType
    <2>3. s.fresh => /\ r.fresh
                     /\ r.checked \subseteq active => r.checked \subseteq active'
                     /\ r.req.tool = "payment" /\ r.step = "pay" => codes' = codes
      BY <2>1 DEF CallType
    <2>4. r.phase = "execute" /\ r.step = "pay" => r.req.tool = "payment"
      BY ExecuteTool
    <2> HIDE DEF s
    <2>5. ControlOK(s)
      BY <2>1, <2>2 DEF ControlOK
    <2>6. FreshOK(call[d])'
      BY ZenonT(40), <2>1, <2>2, <2>3, <2>4 DEF FreshOK, Exists, EffectOf, HeadOf, s
    <2>7. PreparedOK(call[d])' /\ ActedOK(call[d])'
      BY <2>1, <2>2 DEF PreparedOK, ActedOK, s
    <2>8. PaymentOK(call[d])' /\ CreditOK(call[d])'
      BY <2>1, <2>2, <2>3 DEF PaymentOK, CreditOK, Exists, s
    <2> QED
      BY <2>5, <2>6, <2>7, <2>8 DEF CallOK, s
  <1>2. TypeOK'
    BY <1>1 DEF IInv, TypeOK
  <1> QED
    BY <1>1, <1>2 DEF IInv, CallsInv

LEMMA UserArchiveKeeps ==
  ASSUME IInv, NEW ref \in Refs, UserArchive(ref)
  PROVE  IInv'
  <1> DEFINE T(d) == IF ref \in call[d].checked THEN [call[d] EXCEPT !.fresh = FALSE] ELSE call[d]
  <1>1. /\ edits < MaxEdits /\ edits' = edits + 1 /\ moves' = moves /\ codes' = codes
        /\ active' = active \ {ref} /\ call' = [d \in Calls |-> T(d)]
    BY DEF UserArchive
  <1>2. /\ call \in [Calls -> CallType] /\ active' \subseteq Refs
        /\ codes' \in [Journals -> Codes] /\ edits' \in 0..MaxEdits
    BY <1>1, AccountingAssumption DEF IInv, TypeOK
  <1>3. ASSUME NEW d \in Calls PROVE T(d) \in CallType
    <2>1. call[d] \in CallType
      BY <1>2
    <2>2. [call[d] EXCEPT !.fresh = FALSE] \in CallType
      BY <2>1 DEF CallType
    <2> QED
      BY <2>1, <2>2
  <1>4. call' \in [Calls -> CallType]
    BY <1>1, <1>3
  <1>5. ASSUME NEW d \in Calls
        PROVE  \/ call'[d] = [call[d] EXCEPT !.fresh = FALSE]
               \/ /\ call'[d] = call[d]
                  /\ call[d].checked \subseteq active => call[d].checked \subseteq active'
    BY <1>1
  <1> QED
    BY <1>1, <1>2, <1>4, <1>5, LooksKeep

LEMMA UserRouteKeeps ==
  ASSUME IInv, NEW j \in Journals, UserRoute(j)
  PROVE  IInv'
  <1> DEFINE T(d) == IF call[d].req.tool = "payment" /\ call[d].step = "pay"
                     THEN [call[d] EXCEPT !.fresh = FALSE] ELSE call[d]
  <1>1. /\ edits < MaxEdits /\ edits' = edits + 1 /\ moves' = moves /\ active' = active
        /\ call' = [d \in Calls |-> T(d)]
    BY DEF UserRoute
  <1>2. PICK code \in Codes : codes' = [codes EXCEPT ![j] = code]
    BY DEF UserRoute
  <1>3. /\ call \in [Calls -> CallType] /\ active' \subseteq Refs
        /\ codes' \in [Journals -> Codes] /\ edits' \in 0..MaxEdits
    BY <1>1, <1>2, AccountingAssumption DEF IInv, TypeOK
  <1>4. ASSUME NEW d \in Calls PROVE T(d) \in CallType
    <2>1. call[d] \in CallType
      BY <1>3
    <2>2. [call[d] EXCEPT !.fresh = FALSE] \in CallType
      BY <2>1 DEF CallType
    <2> QED
      BY <2>1, <2>2
  <1>5. call' \in [Calls -> CallType]
    BY <1>1, <1>4
  <1>6. ASSUME NEW d \in Calls
        PROVE  \/ call'[d] = [call[d] EXCEPT !.fresh = FALSE]
               \/ /\ call'[d] = call[d]
                  /\ ~(call[d].req.tool = "payment" /\ call[d].step = "pay")
    BY <1>1
  <1> QED
    BY <1>1, <1>3, <1>5, <1>6, LooksKeep

----------------------------------------------------------------------------
\* The inductive invariant.

LEMMA InitIInv == Init => IInv
  <1> SUFFICES ASSUME Init PROVE IInv
    OBVIOUS
  <1> DEFINE First(q) ==
        [req |-> q, phase |-> "idle", step |-> "idle", result |-> "none",
         head |-> Nothing, effect |-> Nothing, snap |-> Nothing, checked |-> {},
         journals |-> {}, routes |-> {}, existing |-> {}, own |-> 0,
         named |-> FALSE, reported |-> 0, missed |-> FALSE, fresh |-> FALSE,
         landed |-> "no", acted |-> Nothing]
  <1>1. ASSUME NEW q \in Requests
        PROVE  First(q) \in CallType /\ ControlOK(First(q)) /\ CallOK(First(q))
    <2> DEFINE s == First(q)
    <2>1. /\ "idle" \in Phases /\ "idle" \in StepNames /\ "none" \in Results
          /\ Nothing \in HeadValues /\ Nothing \in EffectValues /\ Nothing \in SnapValues
          /\ Nothing \in ActedValues /\ 0 \in IdValues /\ "no" \in LandedValues
      BY DEF Phases, StepNames, Results, HeadValues, EffectValues, SnapValues, ActedValues,
             IdValues, LandedValues
    <2>2. s \in CallType
      BY <2>1 DEF CallType
    <2>3. /\ s.phase = "idle" /\ s.step = "idle" /\ s.result = "none" /\ s.routes = {}
          /\ s.fresh = FALSE /\ s.landed = "no" /\ s.checked = {}
      OBVIOUS
    <2> HIDE DEF s
    <2>4. s.req.tool \in CreateTools \cup MoveTools
      BY <2>2, CallTool
    <2>5. IsFiniteSet({})
      BY FS_EmptySet
    <2>6. ControlOK(s)
      BY <2>3, <2>4, <2>5, ToolFacts DEF ControlOK
    <2>7. CallOK(s)
      BY <2>3 DEF CallOK, FreshOK, PreparedOK, ActedOK, CreditOK, PaymentOK
    <2> QED
      BY <2>2, <2>6, <2>7 DEF s
  <1>2. call \in [Calls -> {First(q) : q \in Requests}]
    BY DEF Init
  <1>3. ASSUME NEW c \in Calls
        PROVE  call[c] \in CallType /\ ControlOK(call[c]) /\ CallOK(call[c])
    <2>1. PICK q \in Requests : call[c] = First(q)
      BY <1>2
    <2> HIDE DEF First
    <2> QED
      BY <1>1, <2>1
  <1>4. call \in [Calls -> CallType]
    BY <1>2, <1>3
  <1>5. moves \in [MoveIds -> LiveMove \cup {Absent, Deleted}]
    BY AccountingAssumption DEF Init
  <1>6. active \subseteq Refs /\ codes \in [Journals -> Codes] /\ edits \in 0..MaxEdits
    BY AccountingAssumption DEF Init
  <1>7. TypeOK
    BY <1>3, <1>4, <1>5, <1>6 DEF TypeOK
  <1> QED
    BY <1>3, <1>7 DEF IInv, CallsInv

LEMMA CallStepKeeps ==
  ASSUME IInv, NEW c \in Calls, CallStep(c)
  PROVE  IInv'
  <1>1. CASE CheckInvoiceReference(c) \/ CheckEntryReference(c)
    BY <1>1, CheckReferenceKeeps DEF CheckInvoiceReference, CheckEntryReference
  <1>2. CASE ReadInvoice(c) \/ ReadEntry(c)
    BY <1>2, ReadHeadKeeps DEF ReadInvoice, ReadEntry
  <1>3. CASE CreateDraftInvoice(c) \/ CreateJournalEntryDraft(c)
    BY <1>3, CreateKeeps DEF CreateDraftInvoice, CreateJournalEntryDraft
  <1> QED
    BY <1>1, <1>2, <1>3, BeginKeeps, BuildDraftKeeps, ReadInvoiceLinesKeeps, ReadEntryLinesKeeps,
       PreviewDefaultKeeps, PreviewRouteKeeps, SelectRouteKeeps, RechecksKeep,
       ExistingReversalsKeeps, PaymentWizardKeeps, PostKeeps, ReverseMovesKeeps,
       ListReversalsKeeps, CreatePaymentsKeeps, ConfirmKeeps, GiveUpKeeps, FailKeeps
       DEF CallStep

LEMMA NextIInv == IInv /\ [Next]_vars => IInv'
  <1> SUFFICES ASSUME IInv, [Next]_vars PROVE IInv'
    OBVIOUS
  <1>1. CASE Next
    BY <1>1, CallStepKeeps, UserEditKeeps, UserReverseKeeps, UserArchiveKeeps, UserRouteKeeps
       DEF Next
  <1>2. CASE UNCHANGED vars
    <2>1. moves' = moves /\ active' = active /\ codes' = codes /\ edits' = edits /\ call' = call
      BY <1>2 DEF vars
    <2> QED
      BY <2>1, LooksKeep DEF IInv, TypeOK
  <1> QED
    BY <1>1, <1>2

----------------------------------------------------------------------------
\* A call keeps its request, and a write with an old look stays on record.

Kept(r, s) == s.req = r.req /\ (r.landed = "stale" => s.landed = "stale")

LEMMA EndKept ==
  ASSUME NEW r \in CallType, NEW value, NEW findings, NEW result
  PROVE  Kept(r, Ended(r, result)) /\ Kept(r, Concluded(r, value, findings))
  <1>1. Kept(r, Ended(r, result))
    BY DEF Kept, Ended, CallType
  <1>2. ASSUME NEW x PROVE Kept(r, Ended(r, x))
    BY DEF Kept, Ended, CallType
  <1>3. Kept(r, NextPhase(r, value))
    BY DEF Kept, NextPhase, CallType
  <1>4. \/ Concluded(r, value, findings) = Ended(r, "needs_input")
        \/ Concluded(r, value, findings) = Ended(r, "failed")
        \/ Concluded(r, value, findings) = NextPhase(r, value)
    BY DEF Concluded
  <1> QED
    BY <1>1, <1>2, <1>3, <1>4

\* The steps that only read are steps of one call's record.
LEMMA ReadStepKept ==
  ASSUME IInv, NEW c \in Calls, CallStep(c),
         ~(CreateDraftInvoice(c) \/ CreateJournalEntryDraft(c) \/ Post(c) \/ ReverseMoves(c)
             \/ CreatePayments(c))
  PROVE  moves' = moves /\ \E s \in {call'[c]} : Step(c, s) /\ Kept(call[c], s)
  <1> DEFINE r == call[c]
  <1>1. call \in [Calls -> CallType] /\ r \in CallType
    BY DEF IInv, TypeOK
  <1>2. SUFFICES UNCHANGED odoo /\ \E s : Step(c, s) /\ Kept(r, s)
    BY <1>1 DEF Step, odoo
  <1>3. CASE Begin(c)
    <2> DEFINE s == [r EXCEPT !.phase = "prepare", !.step = Tool[r.req.tool].prepare]
    <2>1. Kept(r, s)
      BY <1>1 DEF Kept, CallType
    <2> QED
      BY <1>3, <2>1 DEF Begin
  <1>4. CASE CheckInvoiceReference(c) \/ CheckEntryReference(c)
    <2>1. PICK step, next : CheckReference(c, step, next)
      BY <1>4 DEF CheckInvoiceReference, CheckEntryReference
    <2> DEFINE left == r.req.refs \ r.checked
               S(ref) == [r EXCEPT !.checked = @ \cup {ref}, !.fresh = (@ \/ r.checked = {}),
                                   !.step = IF left = {ref} THEN next ELSE step]
    <2>2. PICK ref : Step(c, S(ref)) \/ Step(c, Ended(r, "failed"))
      BY <2>1 DEF CheckReference
    <2>3. Kept(r, S(ref))
      BY <1>1 DEF Kept, CallType
    <2> HIDE DEF S
    <2> QED
      BY <1>1, <2>1, <2>2, <2>3, EndKept DEF CheckReference
  <1>5. CASE BuildInvoiceDraft(c) \/ BuildEntryDraft(c)
    BY <1>1, <1>5, EndKept DEF BuildInvoiceDraft, BuildEntryDraft
  <1>6. CASE ReadInvoice(c) \/ ReadEntry(c)
    <2>1. PICK step, next : ReadHead(c, step, next)
      BY <1>6 DEF ReadInvoice, ReadEntry
    <2> DEFINE s == [r EXCEPT !.head = HeadOf(moves[r.req.move]), !.step = next,
                              !.fresh = (r.phase = "validate")]
    <2>2. Step(c, s) \/ Step(c, Ended(r, "failed"))
      BY <2>1 DEF ReadHead
    <2>3. Kept(r, s)
      BY <1>1 DEF Kept, CallType
    <2> HIDE DEF s
    <2> QED
      BY <1>1, <2>1, <2>2, <2>3, EndKept DEF ReadHead
  <1>7. CASE ReadInvoiceLines(c)
    <2> DEFINE effect == [head |-> r.head, lines |-> moves[r.req.move].lines]
               s == [r EXCEPT !.effect = effect, !.step = "preview"]
    <2>1. r.req.tool \in {"validate_invoice", "credit_note", "payment"}
      BY <1>7, LinesRead DEF ReadInvoiceLines, At
    <2>2. \/ Step(c, PreparedValidation(r, effect))
          \/ Step(c, PreparedCreditNote(r, effect))
          \/ Step(c, PreparedPayment(r, effect))
      BY <1>7, <2>1 DEF ReadInvoiceLines
    <2>3. Kept(r, s)
      BY <1>1 DEF Kept, CallType
    <2>4. Step(c, PreparedPayment(r, effect)) => Step(c, s) \/ Step(c, Ended(r, "failed"))
      BY DEF PreparedPayment
    <2> HIDE DEF effect, s
    <2>5. Kept(r, PreparedValidation(r, effect)) /\ Kept(r, PreparedCreditNote(r, effect))
      BY <1>1, EndKept DEF PreparedValidation, PreparedCreditNote
    <2>6. UNCHANGED odoo
      BY <1>7 DEF ReadInvoiceLines
    <2> QED
      BY <1>1, <2>2, <2>3, <2>4, <2>5, <2>6, EndKept
  <1>8. CASE ReadEntryLines(c)
    BY <1>1, <1>8, EndKept DEF ReadEntryLines
  <1>9. CASE PreviewDefault(c)
    <2> DEFINE s == [r EXCEPT !.step = "routes", !.journals = AvailableJournals, !.routes = {}]
    <2>1. Step(c, s) \/ Step(c, Ended(r, "failed"))
      BY <1>9 DEF PreviewDefault
    <2>2. Kept(r, s)
      BY <1>1 DEF Kept, CallType
    <2> HIDE DEF s
    <2> QED
      BY <1>1, <1>9, <2>1, <2>2, EndKept DEF PreviewDefault
  <1>10. CASE PreviewRoute(c)
    <2> DEFINE left == r.journals \ {route.journal : route \in r.routes}
               S(j) == [r EXCEPT !.routes = @ \cup {[journal |-> j, code |-> codes[j]]},
                                 !.step = IF left = {j} THEN "select" ELSE "routes"]
    <2>1. PICK j : Step(c, S(j)) \/ Step(c, Ended(r, "failed"))
      BY <1>10 DEF PreviewRoute
    <2>2. Kept(r, S(j))
      BY <1>1 DEF Kept, CallType
    <2> HIDE DEF S
    <2> QED
      BY <1>1, <1>10, <2>1, <2>2, EndKept DEF PreviewRoute
  <1>11. CASE SelectRoute(c)
    <2>1. \E value, findings : Step(c, Concluded(r, value, findings))
      BY <1>11 DEF SelectRoute
    <2>2. UNCHANGED odoo
      BY <1>11 DEF SelectRoute
    <2> QED
      BY <1>1, <2>1, <2>2, EndKept
  <1>12. CASE RecheckEntry(c) \/ RecheckOriginal(c) \/ RecheckPayment(c)
    <2>1. PICK step, eligible, next : Recheck(c, step, eligible, next)
      BY <1>12 DEF RecheckEntry, RecheckOriginal, RecheckPayment
    <2>2. Kept(r, [r EXCEPT !.step = next])
      BY <1>1 DEF Kept, CallType
    <2> QED
      BY <1>1, <2>1, <2>2, EndKept DEF Recheck
  <1>13. CASE ExistingReversals(c)
    <2>1. Kept(r, [r EXCEPT !.existing = Reversals(r.req.move), !.step = "reverse"])
      BY <1>1 DEF Kept, CallType
    <2> QED
      BY <1>13, <2>1 DEF ExistingReversals
  <1>14. CASE PaymentWizard(c)
    <2>1. Kept(r, [r EXCEPT !.step = "pay"])
      BY <1>1 DEF Kept, CallType
    <2> QED
      BY <1>1, <1>14, <2>1, EndKept DEF PaymentWizard
  <1>15. CASE ListReversals(c)
    <2> DEFINE s == [r EXCEPT !.reported = CHOOSE n \in Candidates(r) : TRUE, !.step = "confirm",
                              !.missed = (moves[r.own].state # "draft")]
    <2>1. Step(c, s) \/ Step(c, Ended(r, "unknown"))
      BY <1>15 DEF ListReversals
    <2>2. Kept(r, s)
      BY <1>1 DEF Kept, CallType
    <2> HIDE DEF s
    <2> QED
      BY <1>1, <1>15, <2>1, <2>2, EndKept DEF ListReversals
  <1>16. CASE Confirm(c) \/ Fail(c)
    <2>1. \E result : Step(c, Ended(r, result))
      BY <1>16 DEF Confirm, Fail
    <2>2. UNCHANGED odoo
      BY <1>16 DEF Confirm, Fail
    <2> QED
      BY <1>1, <2>1, <2>2, EndKept
  <1>17. CASE GiveUp(c)
    <2>1. Kept(r, [r EXCEPT !.result = "unknown"])
      BY <1>1 DEF Kept, CallType
    <2> QED
      BY <1>17, <2>1 DEF GiveUp
  <1> QED
    BY <1>3, <1>4, <1>5, <1>6, <1>7, <1>8, <1>9, <1>10, <1>11, <1>12, <1>13, <1>14, <1>15, <1>16,
       <1>17 DEF CallStep

LEMMA AfterWriteFacts ==
  ASSUME NEW r \in CallType, NEW step, NEW own, NEW reported, NEW named
  PROVE  /\ AfterWrite(r, step, own, reported, named).req = r.req
         /\ AfterWrite(r, step, own, reported, named).landed = IF r.fresh THEN "fresh" ELSE "stale"
  <1> DEFINE found == Found(r)
             landed == IF r.fresh THEN "fresh" ELSE "stale"
             s == [r EXCEPT !.step = step, !.own = own, !.acted = found, !.landed = landed,
                            !.reported = reported, !.named = named]
  <1>1. AfterWrite(r, step, own, reported, named) = s
    BY Zenon DEF AfterWrite
  <1> HIDE DEF found, landed
  <1>2. s.req = r.req /\ s.landed = landed
    BY DEF CallType
  <1> QED
    BY <1>1, <1>2 DEF landed

LEMMA KeptFresh ==
  ASSUME NEW r \in CallType, NEW s, s = r \/ s = [r EXCEPT !.fresh = FALSE]
  PROVE  Kept(r, s)
  BY DEF Kept, CallType

\* What the write of a call leaves in the calls and in the moves.
LEMMA WriteStepKept ==
  ASSUME IInv, NEW c \in Calls,
         CreateDraftInvoice(c) \/ CreateJournalEntryDraft(c) \/ Post(c) \/ ReverseMoves(c)
            \/ CreatePayments(c)
  PROVE  /\ \A d \in Calls : Kept(call[d], call'[d])
         /\ \A m \in MoveIds :
               \/ moves'[m].residual >= 0
               \/ moves'[m].residual = moves[m].residual
               \/ call'[c].req.tool = "payment" /\ call'[c].req.move = m /\ call'[c].landed = "stale"
  <1> DEFINE r == call[c]
             m == r.req.move
  <1>1. /\ call \in [Calls -> CallType] /\ r \in CallType
        /\ moves \in [MoveIds -> LiveMove \cup {Absent, Deleted}]
    BY DEF IInv, TypeOK
  <1>2. r.phase = "execute" /\ r.step \in {"create_invoice", "create_entry", "post", "reverse", "pay"}
    BY DEF CreateDraftInvoice, CreateJournalEntryDraft, Create, Post, ReverseMoves, CreatePayments, At
  <1>3. /\ Sound(r) /\ ControlOK(r) /\ r.req.tool \in CreateTools \cup MoveTools
        /\ r.step = "post" => r.req.tool \in PostTools
        /\ r.step = "create_invoice" => r.req.tool = "create_invoice"
        /\ r.step = "create_entry" => r.req.tool = "create_entry"
        /\ r.step = "reverse" => r.req.tool = "credit_note"
        /\ r.step = "pay" => r.req.tool = "payment"
    BY <1>2, ExecuteTool
  <1>4. r.step \in ExecuteSteps[r.req.tool]
    BY <1>2, <1>3 DEF ExecuteSteps, PostTools
  <1>5. r.landed = "no"
    BY <1>2, <1>3, <1>4, <1>1, ControlFacts
  <1>6. ASSUME NEW k \in MoveIds PROVE moves[k].residual \in Int
    BY <1>1, RowFacts
  \* What ends without a write.
  <1>7. ASSUME moves' = moves, Step(c, Ended(r, "unknown"))
        PROVE  /\ \A d \in Calls : Kept(call[d], call'[d])
               /\ \A k \in MoveIds : moves'[k].residual = moves[k].residual
    <2>1. ASSUME NEW d \in Calls PROVE Kept(call[d], call'[d])
      <3>1. call'[d] = IF d = c THEN Ended(r, "unknown") ELSE call[d]
        BY <1>1, <1>7 DEF Step
      <3> QED
        BY <1>1, <3>1, EndKept, KeptFresh
    <2> QED
      BY <1>7, <2>1
  \* A new move.
  <1>8. ASSUME NEW row, row.residual >= 0, HasRoom, moves' = [moves EXCEPT ![FreshId] = row],
               NEW s, Step(c, s), s.req = r.req
        PROVE  /\ \A d \in Calls : Kept(call[d], call'[d])
               /\ \A k \in MoveIds : moves'[k].residual >= 0 \/ moves'[k].residual = moves[k].residual
    <2>1. FreshId \in MoveIds
      BY <1>8, FreshIdFacts
    <2>2. \A k \in MoveIds : moves'[k] = IF k = FreshId THEN row ELSE moves[k]
      BY <1>1, <1>8, <2>1
    <2>3. ASSUME NEW d \in Calls PROVE Kept(call[d], call'[d])
      <3>1. call'[d] = IF d = c THEN s ELSE call[d]
        BY <1>1, <1>8 DEF Step
      <3> QED
        BY <1>1, <1>5, <1>8, <3>1 DEF Kept
    <2> QED
      BY <1>8, <2>2, <2>3
  \* A change of the move.
  <1>9. ASSUME NEW step \in StepNames, NEW row, moves[m] \in LiveMove,
               moves' = [moves EXCEPT ![m] = row], call' = ChangedCalls(c, m, step),
               r.req.tool \in MoveTools, r.req.tool = "payment" => r.step = "pay"
        PROVE  /\ \A d \in Calls : Kept(call[d], call'[d])
               /\ \A k \in MoveIds : moves'[k] = IF k = m THEN row ELSE moves[k]
               /\ call'[c].req = r.req /\ call'[c].landed = IF r.fresh THEN "fresh" ELSE "stale"
    <2>1. m \in MoveIds
      BY <1>1, <1>9, CallTool
    <2>2. Found(r) \in ActedValues
      BY <1>2, <1>4, <1>9, FoundFacts
    <2>3. /\ call'[c] = AfterWrite(r, ReadBack(r, step), m, m, r.named)
          /\ \A d \in Calls \ {c} : call'[d] = call[d] \/ call'[d] = [call[d] EXCEPT !.fresh = FALSE]
      BY <1>1, <1>9, <2>1, <2>2, ChangedCallsFacts
    <2>4. call'[c].req = r.req /\ call'[c].landed = IF r.fresh THEN "fresh" ELSE "stale"
      BY <1>1, <2>3, AfterWriteFacts
    <2>5. ASSUME NEW d \in Calls PROVE Kept(call[d], call'[d])
      <3>1. CASE d = c
        BY <1>5, <2>4, <3>1 DEF Kept
      <3>2. CASE d # c
        BY <1>1, <2>3, <3>2, KeptFresh
      <3> QED
        BY <3>1, <3>2
    <2>6. \A k \in MoveIds : moves'[k] = IF k = m THEN row ELSE moves[k]
      BY <1>1, <1>9, <2>1
    <2> QED
      BY <2>4, <2>5, <2>6
  <1>10. CASE CreateDraftInvoice(c) \/ CreateJournalEntryDraft(c)
    <2>1. PICK kind \in Kinds, step \in {"create_invoice", "create_entry"} : Create(c, step, kind)
      BY <1>10 DEF CreateDraftInvoice, CreateJournalEntryDraft, Kinds
    <2> DEFINE row == NewMove(kind, r.req.doc, 0)
               s == [Landed(c, FreshId, "confirm_draft") EXCEPT !.reported = FreshId]
    <2>2. row.residual >= 0
      BY <1>1, CallTool, NewMoveType
    <2>3. s = AfterWrite(r, ReadBack(r, "confirm_draft"), FreshId, FreshId, r.named)
      BY <1>1, LandedReported, Zenon
    <2>4. HasRoom /\ moves' = [moves EXCEPT ![FreshId] = row] /\ Step(c, s)
      BY <2>1, Zenon DEF Create
    <2> HIDE DEF row, s
    <2>5. s.req = r.req
      BY <1>1, <2>3, AfterWriteFacts
    <2> QED
      BY <1>8, <2>2, <2>4, <2>5
  <1>11. CASE ReverseMoves(c)
    <2>1. CASE moves[m].state = "posted"
      <3> DEFINE row == NewMove("refund", moves[m], m)
                 S(named) == [Landed(c, FreshId, "list") EXCEPT !.named = named]
      <3>1. PICK named \in BOOLEAN : Step(c, S(named))
        BY <1>11, <2>1 DEF ReverseMoves
      <3>2. HasRoom /\ moves' = [moves EXCEPT ![FreshId] = row]
        BY <1>11, <2>1 DEF ReverseMoves
      <3>3. r.step = "reverse"
        BY <1>11 DEF ReverseMoves, At
      <3>4. m \in MoveIds
        BY <1>1, <1>3, <3>3, CallTool DEF MoveTools
      <3>5. moves[m] \in LiveMove
        BY <1>1, <2>1, <3>4, RowFacts
      <3>6. row.residual >= 0
        BY <3>4, <3>5, NewMoveType DEF Kinds
      <3>7. S(named) = AfterWrite(r, ReadBack(r, "list"), FreshId, r.reported, named)
        BY <1>1, LandedNamed
      <3> HIDE DEF row, S
      <3>8. S(named).req = r.req
        BY <1>1, <3>7, AfterWriteFacts
      <3> QED
        BY <1>8, <3>1, <3>2, <3>6, <3>8
    <2>2. CASE moves[m].state # "posted"
      <3>1. moves' = moves /\ Step(c, Ended(r, "unknown"))
        BY <1>11, <2>2 DEF ReverseMoves
      <3> QED
        BY <1>7, <3>1
    <2> QED
      BY <2>1, <2>2
  <1>12. CASE Post(c)
    <2>0. r.step = "post"
      BY <1>12 DEF Post, At
    <2>1. r.req.tool \in MoveTools /\ r.req.tool # "payment" /\ m \in MoveIds
      BY <1>1, <1>3, <2>0, CallTool DEF PostTools, MoveTools
    <2>2. CASE moves[m].state = "draft"
      <3> DEFINE row == [moves[m] EXCEPT !.state = "posted"]
      <3>1. moves[m] \in LiveMove
        BY <1>1, <2>1, <2>2, RowFacts
      <3>2. moves' = [moves EXCEPT ![m] = row]
        BY <1>1, <1>12, <2>1, <2>2 DEF Post
      <3>3. call' = ChangedCalls(c, m, "confirm_posted")
        BY <1>12, <2>2, Zenon DEF Post, ChangedCalls
      <3>4. "confirm_posted" \in StepNames
        BY DEF StepNames
      <3>5. row.residual = moves[m].residual
        BY <3>1 DEF LiveMove
      <3> HIDE DEF row
      <3>6. /\ \A d \in Calls : Kept(call[d], call'[d])
            /\ \A k \in MoveIds : moves'[k] = IF k = m THEN row ELSE moves[k]
        BY <1>9, <2>1, <3>1, <3>2, <3>3, <3>4
      <3> QED
        BY <3>5, <3>6
    <2>3. CASE moves[m].state # "draft"
      <3>1. moves' = moves /\ Step(c, Ended(r, "unknown"))
        BY <1>12, <2>3 DEF Post
      <3> QED
        BY <1>7, <3>1
    <2> QED
      BY <2>2, <2>3
  <1>13. CASE CreatePayments(c)
    <2>0. r.step = "pay"
      BY <1>13 DEF CreatePayments, At
    <2>1. r.req.tool = "payment" /\ r.req.tool \in MoveTools /\ m \in MoveIds
      BY <1>1, <1>3, <2>0, CallTool DEF MoveTools
    <2>2. CASE moves[m].state = "posted"
      <3> DEFINE row == [moves[m] EXCEPT !.residual = @ - r.snap.amount]
      <3>1. moves[m] \in LiveMove
        BY <1>1, <2>1, <2>2, RowFacts
      <3>2. moves' = [moves EXCEPT ![m] = row]
        BY <1>1, <1>13, <2>1, <2>2 DEF CreatePayments
      <3>3. call' = ChangedCalls(c, m, "confirm")
        BY <1>13, <2>2, Zenon DEF CreatePayments, ChangedCalls
      <3>4. "confirm" \in StepNames
        BY DEF StepNames
      <3>5. row.residual = moves[m].residual - r.snap.amount
        BY <3>1 DEF LiveMove
      <3>6. r.snap \in RegistrationType
        BY <1>1, <1>2, <1>3, <2>1, ControlFacts, SnapTypes
      <3>7. r.snap.amount \in Int /\ moves[m].residual \in Int
        BY <1>6, <2>1, <3>6 DEF RegistrationType
      <3>8. r.fresh => r.snap.amount <= moves[m].residual
        BY <1>3, <2>0, <2>1 DEF Sound, CallOK, PaymentOK
      <3> HIDE DEF row
      <3>9. /\ \A d \in Calls : Kept(call[d], call'[d])
            /\ \A k \in MoveIds : moves'[k] = IF k = m THEN row ELSE moves[k]
            /\ call'[c].req = r.req /\ call'[c].landed = IF r.fresh THEN "fresh" ELSE "stale"
        BY <1>9, <2>0, <2>1, <3>1, <3>2, <3>3, <3>4
      <3> QED
        BY <2>1, <3>5, <3>7, <3>8, <3>9
    <2>3. CASE moves[m].state # "posted"
      <3>1. moves' = moves /\ Step(c, Ended(r, "unknown"))
        BY <1>13, <2>3 DEF CreatePayments
      <3> QED
        BY <1>7, <3>1
    <2> QED
      BY <2>2, <2>3
  <1> QED
    BY <1>10, <1>11, <1>12, <1>13

LEMMA OverpaidStep ==
  ASSUME IInv, OverpaidOnlyStale, [Next]_vars
  PROVE  OverpaidOnlyStale'
  <1>1. /\ call \in [Calls -> CallType]
        /\ moves \in [MoveIds -> LiveMove \cup {Absent, Deleted}]
        /\ moves' \in [MoveIds -> LiveMove \cup {Absent, Deleted}]
    BY NextIInv DEF IInv, TypeOK
  <1>2. SUFFICES ASSUME NEW m \in MoveIds, moves'[m].residual < 0
                 PROVE  \E c \in Calls : /\ call'[c].req.tool = "payment"
                                         /\ call'[c].req.move = m
                                         /\ call'[c].landed = "stale"
    BY <1>1 DEF OverpaidOnlyStale
  <1>3. moves'[m].residual \in Int
    BY <1>1, RowFacts
  <1>4. ASSUME moves[m].residual < 0, \A d \in Calls : Kept(call[d], call'[d])
        PROVE  \E c \in Calls : /\ call'[c].req.tool = "payment"
                                /\ call'[c].req.move = m
                                /\ call'[c].landed = "stale"
    BY <1>1, <1>4 DEF OverpaidOnlyStale, Kept
  <1>5. ASSUME NEW c \in Calls, CallStep(c)
        PROVE  \E d \in Calls : /\ call'[d].req.tool = "payment"
                                /\ call'[d].req.move = m
                                /\ call'[d].landed = "stale"
    <2>1. CASE CreateDraftInvoice(c) \/ CreateJournalEntryDraft(c) \/ Post(c) \/ ReverseMoves(c)
                 \/ CreatePayments(c)
      <3>1. /\ \A d \in Calls : Kept(call[d], call'[d])
            /\ \/ moves'[m].residual >= 0
               \/ moves'[m].residual = moves[m].residual
               \/ call'[c].req.tool = "payment" /\ call'[c].req.move = m /\ call'[c].landed = "stale"
        BY <2>1, WriteStepKept
      <3> QED
        BY <1>2, <1>3, <1>4, <3>1
    <2>2. CASE ~(CreateDraftInvoice(c) \/ CreateJournalEntryDraft(c) \/ Post(c) \/ ReverseMoves(c)
                   \/ CreatePayments(c))
      <3>1. moves' = moves /\ Step(c, call'[c]) /\ Kept(call[c], call'[c])
        BY <1>5, <2>2, ReadStepKept
      <3>2. ASSUME NEW d \in Calls PROVE Kept(call[d], call'[d])
        <4>1. d = c \/ call'[d] = call[d]
          BY <1>1, <3>1 DEF Step
        <4> QED
          BY <1>1, <3>1, <4>1, KeptFresh
      <3> QED
        BY <1>2, <1>4, <3>1, <3>2
    <2> QED
      BY <2>1, <2>2
  <1>6. ASSUME NEW k \in MoveIds, UserEdit(k)
        PROVE  moves[m].residual < 0 /\ \A d \in Calls : Kept(call[d], call'[d])
    <2>1. PICK new \in UserMoves(moves[k]) : moves' = [moves EXCEPT ![k] = new]
      BY <1>6 DEF UserEdit
    <2>2. Exists(moves[k]) /\ call' = Disturbed(call, k, 0)
      BY <1>6 DEF UserEdit
    <2>3. moves[k] \in LiveMove
      BY <1>1, <2>2, RowFacts
    <2>4. new.residual < 0 => moves[k].residual < 0
      BY <2>3, UserMovesFacts
    <2>5. moves'[m] = IF m = k THEN new ELSE moves[m]
      BY <1>1, <2>1
    <2>6. ASSUME NEW d \in Calls PROVE Kept(call[d], call'[d])
      <3>1. call'[d] = call[d] \/ call'[d] = [call[d] EXCEPT !.fresh = FALSE]
        BY <2>2 DEF Disturbed
      <3> QED
        BY <1>1, <3>1, KeptFresh
    <2> QED
      BY <1>2, <2>4, <2>5, <2>6
  <1>7. ASSUME NEW k \in MoveIds, UserReverse(k)
        PROVE  moves[m].residual < 0 /\ \A d \in Calls : Kept(call[d], call'[d])
    <2> DEFINE row == NewMove("refund", moves[k], k)
    <2>1. /\ moves[k].state = "posted" /\ HasRoom /\ moves' = [moves EXCEPT ![FreshId] = row]
          /\ call' = call
      BY <1>7 DEF UserReverse
    <2>2. moves[k] \in LiveMove
      BY <1>1, <2>1, RowFacts
    <2>3. row.residual >= 0
      BY <2>2, NewMoveType DEF Kinds
    <2>4. row \in LiveMove
      BY <2>2, NewMoveType DEF Kinds
    <2>5. row.residual \in Int
      BY <2>4 DEF LiveMove
    <2> HIDE DEF row
    <2>6. moves'[m] = IF m = FreshId THEN row ELSE moves[m]
      BY <1>1, <2>1, FreshIdFacts
    <2>7. ASSUME NEW d \in Calls PROVE Kept(call[d], call'[d])
      BY <1>1, <2>1, KeptFresh
    <2> QED
      BY <1>2, <2>3, <2>5, <2>6, <2>7
  <1>8. ASSUME NEW ref \in Refs, UserArchive(ref)
        PROVE  moves[m].residual < 0 /\ \A d \in Calls : Kept(call[d], call'[d])
    <2>1. ASSUME NEW d \in Calls PROVE Kept(call[d], call'[d])
      <3>1. call'[d] = call[d] \/ call'[d] = [call[d] EXCEPT !.fresh = FALSE]
        BY <1>8 DEF UserArchive
      <3> QED
        BY <1>1, <3>1, KeptFresh
    <2> QED
      BY <1>2, <1>8, <2>1 DEF UserArchive
  <1>9. ASSUME NEW j \in Journals, UserRoute(j)
        PROVE  moves[m].residual < 0 /\ \A d \in Calls : Kept(call[d], call'[d])
    <2>1. ASSUME NEW d \in Calls PROVE Kept(call[d], call'[d])
      <3>1. call'[d] = call[d] \/ call'[d] = [call[d] EXCEPT !.fresh = FALSE]
        BY <1>9 DEF UserRoute
      <3> QED
        BY <1>1, <3>1, KeptFresh
    <2> QED
      BY <1>2, <1>9, <2>1 DEF UserRoute
  <1>10. CASE UNCHANGED vars
    BY <1>1, <1>2, <1>10 DEF vars, OverpaidOnlyStale
  <1> QED
    BY <1>4, <1>5, <1>6, <1>7, <1>8, <1>9, <1>10 DEF Next

----------------------------------------------------------------------------
\* The theorems.

LEMMA Invariant == Spec => []IInv
  BY InitIInv, NextIInv, PTL DEF Spec

\* Moves, records and calls keep their types, and every call is where its
\* tool can be, with the reads it needs there (mcp/server.py,
\* adapters/odoo/accounting.py).
THEOREM TypeCorrect == Spec => []TypeOK
  <1>1. IInv => TypeOK
    BY DEF IInv
  <1> QED
    BY <1>1, Invariant, PTL

\* Unless somebody worked on the document, its references or its route after
\* the last look, a write meets in Odoo what prepare_op showed, and what it
\* posts or creates balances to less than one unit of the company's currency;
\* the lines of an invoice it posts come to the invoice's total, in the
\* invoice's own currency (validate_op, prepare_validation,
\* prepare_journal_entry_post and prepare_journal_entry_draft), for all
\* currencies and rounding increments.
THEOREM WritesAreValidated == Spec => []WrittenAsValidated
  <1>1. IInv => WrittenAsValidated
    <2> SUFFICES ASSUME IInv, NEW c \in Calls
                 PROVE  LET r == call[c] IN
                        /\ r.landed = "fresh" =>
                              IF r.req.tool \in CreateTools THEN r.acted.found
                              ELSE r.acted = r.snap
                        /\ r.landed = "fresh" /\ r.req.tool \in PostTools =>
                              /\ r.acted.lines.sound
                              /\ Near(r.acted.lines.debit, r.acted.lines.credit, Home)
                              /\ r.req.tool = "validate_invoice" =>
                                    /\ r.acted.lines.currency = r.acted.head.currency
                                    /\ Near(r.acted.lines.total, r.acted.head.total,
                                            r.acted.head.currency)
                        /\ r.landed # "no" /\ r.req.tool = "create_entry" =>
                              Near(r.req.doc.lines.debit, r.req.doc.lines.credit, Home)
      BY DEF WrittenAsValidated, ActedAsPrepared, PostedBalances
    <2> DEFINE r == call[c]
    <2>1. r \in CallType /\ ControlOK(r) /\ ActedOK(r) /\ PreparedOK(r)
      BY SoundCalls DEF Sound, CallOK
    <2>2. r.landed # "no" => r.phase = "execute" /\ r.snap \in SnapType(r.req.tool)
      BY <2>1, ControlFacts DEF ControlOK
    <2>3. ASSUME r.landed = "fresh", r.req.tool \in PostTools
          PROVE  /\ r.acted.lines.sound
                 /\ Near(r.acted.lines.debit, r.acted.lines.credit, Home)
                 /\ r.req.tool = "validate_invoice" =>
                       /\ r.acted.lines.currency = r.acted.head.currency
                       /\ Near(r.acted.lines.total, r.acted.head.total, r.acted.head.currency)
      <3> DEFINE e == r.snap
      <3>1. r.req.tool \notin CreateTools /\ e \in EffectType
        BY <2>2, <2>3, SnapTypes DEF PostTools, CreateTools
      <3>2. r.acted = e
        BY <2>1, <2>3, <3>1 DEF ActedOK
      <3>3. e.head \in HeadType /\ e.lines \in LinesType
        BY <3>1 DEF EffectType
      <3>4. /\ e.lines.debit \in Int /\ e.lines.credit \in Int /\ e.lines.total \in Int
            /\ e.head.total \in Int /\ e.head.currency \in Currencies /\ Home \in Currencies
        BY <3>3, AccountingAssumption DEF HeadType, LinesType
      <3>5. /\ r.req.tool = "validate_invoice" => ValidationFindings(e.head, e.lines) = {}
            /\ r.req.tool = "post_entry" => PostFindings(e.lines) = {}
        BY <2>1, <2>2, <2>3 DEF PreparedOK
      <3>6. /\ e.lines.sound /\ Rounded(e.lines.debit, Home) = Rounded(e.lines.credit, Home)
            /\ r.req.tool = "validate_invoice" =>
                  /\ e.lines.currency = e.head.currency
                  /\ Rounded(e.lines.total, e.head.currency) = Rounded(e.head.total, e.head.currency)
        BY <2>3, <3>5 DEF PostTools, ValidationFindings, PostFindings, LineFindings, BalanceFindings,
                          TotalFindings
      <3> HIDE DEF e
      <3> QED
        BY <3>2, <3>4, <3>6, RoundedNear
    <2>4. ASSUME r.landed # "no", r.req.tool = "create_entry"
          PROVE  Near(r.req.doc.lines.debit, r.req.doc.lines.credit, Home)
      <3> DEFINE l == r.req.doc.lines
      <3>1. l.debit \in Int /\ l.credit \in Int
        BY <2>1, CallTool DEF DocType, LinesType
      <3>2. BalanceFindings(l) = {}
        BY <2>1, <2>2, <2>4 DEF PreparedOK
      <3>3. Rounded(l.debit, Home) = Rounded(l.credit, Home)
        BY <3>2 DEF BalanceFindings
      <3> HIDE DEF l
      <3>4. Near(l.debit, l.credit, Home)
        BY <3>1, <3>3, RoundedNear, AccountingAssumption
      <3> QED
        BY <3>4 DEF l
    <2> QED
      BY <2>1, <2>3, <2>4 DEF ActedOK
  <1> QED
    BY <1>1, Invariant, PTL

\* The credit note a successful call reports is the one its own wizard made,
\* unless Odoo's answer did not name it and it was posted or deleted before
\* the call listed the reversals (create_credit_note), however many calls and
\* users reverse the same invoice.
THEOREM CreditNoteIsOwn == Spec => []CreditNoteOwn
  <1>1. IInv => CreditNoteOwn
    BY DEF IInv, CallsInv, CallOK, CreditOK, CreditNoteOwn
  <1> QED
    BY <1>1, Invariant, PTL

\* An invoice is paid beyond its total only by a call whose look at the
\* residual somebody else's payment made stale (register_payment), however
\* many calls and users pay it.
THEOREM OverpaymentIsStale == Spec => []OverpaidOnlyStale
  <1>1. Init => OverpaidOnlyStale
    <2> SUFFICES ASSUME Init, NEW m \in MoveIds, moves[m].residual < 0 PROVE FALSE
      BY DEF Init, OverpaidOnlyStale
    <2>1. Absent.residual = 0
      BY DEF Absent
    <2>2. CASE m \in DOMAIN FirstMoves
      <3>1. moves[m] = FirstMoves[m]
        BY <2>2 DEF Init
      <3>2. moves[m].residual \in Int /\ moves[m].residual >= 0
        BY <2>2, <3>1, AccountingAssumption DEF LiveMove
      <3> QED
        BY <3>2
    <2>3. CASE m \notin DOMAIN FirstMoves
      BY <2>1, <2>3 DEF Init
    <2> QED
      BY <2>2, <2>3
  <1>2. IInv /\ OverpaidOnlyStale /\ [Next]_vars => OverpaidOnlyStale'
    BY OverpaidStep
  <1> QED
    BY <1>1, <1>2, Invariant, PTL DEF Spec

=============================================================================
