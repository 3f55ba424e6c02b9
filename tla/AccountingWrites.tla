-------------------------- MODULE AccountingWrites --------------------------
(***************************************************************************)
(* The accounting write tools of mcp/server.py with their workflows        *)
(* (workflows/accounting/invoicing.py, journals.py) and the writing half   *)
(* of adapters/odoo/accounting.py, as the executing calls of the write     *)
(* coordinator run them: prepare, validate (prepare again and compare),    *)
(* then the call to Odoo and its read-back.  Keys, journal and audit are   *)
(* WriteSafety's; a call here owns its key.                                *)
(*                                                                         *)
(* Every read and every method call is a transaction of its own in Odoo,   *)
(* where users and other calls work between any two of them; nothing locks *)
(* a move.  A document is a header and the sums of its lines: what they    *)
(* debit and credit, in the company's currency, and what they come to in   *)
(* the document's own.  Amounts are integers, Increment[c] of them to one  *)
(* unit of precision of currency c.                                        *)
(***************************************************************************)
EXTENDS Integers, FiniteSets

CONSTANTS
    Calls,       \* executing tool calls
    Requests,    \* what a call may ask for
    MoveIds,     \* account.move ids, positive; the smallest unused one is next
    FirstMoves,  \* the moves there are at the start
    Drafts,      \* contents a user may give a draft
    Journals,    \* payment journals, one payment method line each
    NoJournal,   \* the request leaves the journal open
    Codes,       \* payment method codes; "none" is an unavailable journal
    Refs,        \* partner, account, journal, ... records a draft refers to
    Currencies,
    Home,        \* the company's currency
    Increment,   \* rounding of each currency
    MaxEdits     \* bound on the steps of Odoo users

CreateTools == {"create_invoice", "create_entry"}
PostTools == {"validate_invoice", "post_entry"}
MoveTools == PostTools \cup {"credit_note", "payment"}

Kinds == {"invoice", "refund", "entry"}
LinesType == [debit : Int, credit : Int, total : Int, currency : Currencies, sound : BOOLEAN]
DocType == [total : Nat, currency : Currencies, lines : LinesType]
HeadType == [kind : Kinds, state : {"draft", "posted"}, residual : Int,
             source : MoveIds \cup {0}, total : Nat, currency : Currencies]
LiveMove == [kind : Kinds, state : {"draft", "posted"}, residual : Int,
             source : MoveIds \cup {0}, total : Nat, currency : Currencies, lines : LinesType]
RequestType == [tool : CreateTools \cup MoveTools, move : MoveIds \cup {0}, amount : Nat,
                journal : Journals \cup {NoJournal}, refs : SUBSET Refs, doc : DocType]

\* Nothing is overpaid at the start, and no document is worth less than nothing.
ASSUME AccountingAssumption ==
    /\ 0 \notin Calls
    /\ MoveIds \subseteq Nat \ {0} /\ IsFiniteSet(MoveIds)
    /\ Home \in Currencies /\ Increment \in [Currencies -> Nat \ {0}]
    /\ MaxEdits \in Nat
    /\ Drafts \subseteq DocType
    /\ Requests \subseteq RequestType
    /\ \A q \in Requests : q.tool \in MoveTools => q.move \in MoveIds
    /\ DOMAIN FirstMoves \subseteq MoveIds
    /\ \A m \in DOMAIN FirstMoves : FirstMoves[m] \in LiveMove /\ FirstMoves[m].residual >= 0

VARIABLES moves, active, codes, edits, call

odoo == <<moves, active, codes, edits>>
vars == <<moves, active, codes, edits, call>>

----------------------------------------------------------------------------
\* Odoo: external, from how the adapter calls it.

Absent == [kind |-> "none", state |-> "none", residual |-> 0, source |-> 0,
           total |-> 0, currency |-> Home,
           lines |-> [debit |-> 0, credit |-> 0, total |-> 0, currency |-> Home, sound |-> FALSE]]

\* Odoo does not use an id twice.
Deleted == [Absent EXCEPT !.state = "deleted"]

Exists(m) == m \notin {Absent, Deleted}

NewMove(kind, doc, source) ==
    [kind |-> kind, state |-> "draft", residual |-> doc.total, source |-> source,
     total |-> doc.total, currency |-> doc.currency, lines |-> doc.lines]

FreshId == CHOOSE m \in MoveIds :
              /\ moves[m] = Absent
              /\ \A n \in MoveIds : n < m => moves[n] # Absent

HasRoom == \E m \in MoveIds : moves[m] = Absent

Reversals(m) == {n \in MoveIds : Exists(moves[n]) /\ moves[n].source = m}

AvailableJournals == {j \in Journals : codes[j] # "none"}

----------------------------------------------------------------------------
\* The checks of the workflows.

\* Decimal.quantize with ROUND_HALF_UP, at the increment of a currency.
Rounded(v, currency) ==
    LET increment == Increment[currency]
    IN  ((2 * v + increment) \div (2 * increment)) * increment

\* A single line's findings (none there, no account, a negative or two-sided
\* amount, amounts in several currencies) are the flag sound.
LineFindings(lines) == {f \in {"LINES_UNSOUND"} : ~lines.sound}

\* Debit and credit are compared in the company's currency.
BalanceFindings(lines) ==
    {f \in {"ENTRY_UNBALANCED"} : Rounded(lines.debit, Home) # Rounded(lines.credit, Home)}

\* Mutant of TotalFindings: debit and credit stand for the lines' own
\* amounts, as they do in the company's currency.
TotalFindingsOfDebit(head, lines) ==
    {f \in {"TOTAL_ARITHMETIC_MISMATCH"} :
       Rounded(lines.debit, Home) # Rounded(head.total, Home)}

\* The lines' own amounts are compared with the header in the document's
\* currency (their untaxed part and the tax likewise).
TotalFindings(head, lines) ==
    {f \in {"CURRENCY_INCONSISTENT"} : lines.currency # head.currency}
        \cup {f \in {"TOTAL_ARITHMETIC_MISMATCH"} :
                 Rounded(lines.total, head.currency) # Rounded(head.total, head.currency)}

\* Mutant of ValidationFindings: the lines are not added up.
ValidationFindingsOfLines(head, lines) == LineFindings(lines)

\* prepare_validation: the blocking findings of a draft invoice.
ValidationFindings(head, lines) ==
    LineFindings(lines) \cup BalanceFindings(lines) \cup TotalFindings(head, lines)

\* prepare_journal_entry_post.
PostFindings(lines) == LineFindings(lines) \cup BalanceFindings(lines)

IsDraftDocument(head) == head.state = "draft" /\ head.kind \in {"invoice", "refund"}

IsDraftEntry(head) == head.state = "draft" /\ head.kind = "entry"

IsPostedInvoice(head) == head.state = "posted" /\ head.kind = "invoice"

\* Mutant of WithinResidual: a payment one unit above it passes.
WithinResidualOffByOne(amount, head) == amount > 0 /\ amount <= head.residual + 1

WithinResidual(amount, head) == amount > 0 /\ amount <= head.residual

\* request.amount or effect.amount_residual.
AmountOf(req, head) == IF req.amount = 0 THEN head.residual ELSE req.amount

\* The routes of a preview the request leaves open.
Selected(req, routes) ==
    {r \in routes : req.journal \in {NoJournal, r.journal}}

----------------------------------------------------------------------------
\* One call.

Nothing == [none |-> TRUE]

\* The tools: the first step of prepare_op, whether validate_op refuses a
\* request that needs input, and the first step of execute_op.  The adapter
\* looks at the document again before it acts, except where it creates a
\* draft and where it posts an invoice.
CreateInvoiceTool == [prepare |-> "invoice_refs", blocks |-> FALSE, execute |-> "create_invoice"]
CreateEntryTool == [prepare |-> "entry_refs", blocks |-> FALSE, execute |-> "create_entry"]
ValidateInvoiceTool == [prepare |-> "invoice", blocks |-> TRUE, execute |-> "post"]
PostEntryTool == [prepare |-> "entry", blocks |-> TRUE, execute |-> "recheck_entry"]
CreditNoteTool == [prepare |-> "invoice", blocks |-> FALSE, execute |-> "recheck_original"]
PaymentTool == [prepare |-> "invoice", blocks |-> FALSE, execute |-> "recheck_payment"]

Tool == [create_invoice |-> CreateInvoiceTool, create_entry |-> CreateEntryTool,
         validate_invoice |-> ValidateInvoiceTool, post_entry |-> PostEntryTool,
         credit_note |-> CreditNoteTool, payment |-> PaymentTool]

HeadOf(m) == [kind |-> m.kind, state |-> m.state, residual |-> m.residual,
              source |-> m.source, total |-> m.total, currency |-> m.currency]

Ended(r, result) == [r EXCEPT !.step = "ended", !.result = result]

NextPhase(r, value) ==
    IF r.phase = "prepare"
    THEN [r EXCEPT !.phase = "validate", !.step = Tool[r.req.tool].prepare,
                   !.snap = value, !.checked = {}]
    ELSE [r EXCEPT !.phase = "execute", !.step = Tool[r.req.tool].execute]

\* Mutant of Concluded: validate_op does not compare.
ConcludedUncompared(r, value, findings) ==
    IF r.phase = "prepare" /\ findings # {} THEN Ended(r, "needs_input") ELSE NextPhase(r, value)

\* The end of prepare_op, and of validate_op, which prepares again and
\* compares with what was prepared.
Concluded(r, value, findings) ==
    CASE r.phase = "prepare" /\ findings # {} -> Ended(r, "needs_input")
      [] r.phase = "validate"
            /\ (value # r.snap \/ (Tool[r.req.tool].blocks /\ findings # {})) -> Ended(r, "failed")
      [] OTHER -> NextPhase(r, value)

\* Calls d that rely on move m lose their last full look at it.
Disturbed(f, m, by) ==
    [d \in Calls |-> IF d # by /\ f[d].req.tool \notin CreateTools /\ f[d].req.move = m
                     THEN [f[d] EXCEPT !.fresh = FALSE] ELSE f[d]]

Step(c, r) == call' = [call EXCEPT ![c] = r]

At(c, phases, step) == call[c].phase \in phases /\ call[c].step = step

----------------------------------------------------------------------------
Init ==
    /\ moves = [m \in MoveIds |-> IF m \in DOMAIN FirstMoves THEN FirstMoves[m] ELSE Absent]
    /\ active = Refs
    /\ codes \in [Journals -> Codes \ {"none"}]
    /\ edits = 0
    /\ call \in [Calls -> {[req |-> q, phase |-> "idle", step |-> "idle", result |-> "none",
                            head |-> Nothing, effect |-> Nothing, snap |-> Nothing, checked |-> {},
                            journals |-> {}, routes |-> {}, existing |-> {}, own |-> 0,
                            named |-> FALSE, reported |-> 0, missed |-> FALSE, fresh |-> FALSE,
                            landed |-> "no", acted |-> Nothing] : q \in Requests}]

\* The tool is called; the coordinator has reserved the key.
Begin(c) ==
    /\ At(c, {"idle"}, "idle")
    /\ Step(c, [call[c] EXCEPT !.phase = "prepare", !.step = Tool[call[c].req.tool].prepare])
    /\ UNCHANGED odoo

\* One read per kind of record the draft refers to.
CheckReference(c, step, next) ==
    LET r == call[c]
        left == r.req.refs \ r.checked
    IN  /\ At(c, {"prepare", "validate"}, step)
        /\ \E ref \in left :
              Step(c, IF ref \in active
                      THEN [r EXCEPT !.checked = @ \cup {ref},
                                     !.fresh = (@ \/ r.checked = {}),
                                     !.step = IF left = {ref} THEN next ELSE step]
                      ELSE Ended(r, "failed"))
        /\ UNCHANGED odoo

\* _one_partner, _validate_draft_references.
CheckInvoiceReference(c) == CheckReference(c, "invoice_refs", "invoice_draft")

\* prepare_journal_entry_draft: journal, accounts, partners, analytics.
CheckEntryReference(c) == CheckReference(c, "entry_refs", "entry_draft")

\* prepare_invoice_draft: the draft is built from the request alone.
BuildInvoiceDraft(c) ==
    /\ At(c, {"prepare", "validate"}, "invoice_draft")
    /\ Step(c, Concluded(call[c], call[c].req.doc, {}))
    /\ UNCHANGED odoo

\* prepare_journal_entry_draft: the request must balance.
BuildEntryDraft(c) ==
    LET doc == call[c].req.doc IN
    /\ At(c, {"prepare", "validate"}, "entry_draft")
    /\ Step(c, IF BalanceFindings(doc.lines) = {}
               THEN Concluded(call[c], doc, {}) ELSE Ended(call[c], "failed"))
    /\ UNCHANGED odoo

\* The row of the move; its lines are a second read.
ReadHead(c, step, next) ==
    LET r == call[c]
        m == moves[r.req.move]
    IN  /\ At(c, {"prepare", "validate"}, step)
        /\ Step(c, IF Exists(m)
                   THEN [r EXCEPT !.head = HeadOf(m), !.step = next,
                                  !.fresh = (r.phase = "validate")]
                   ELSE Ended(r, "failed"))
        /\ UNCHANGED odoo

\* get_invoice_effect.
ReadInvoice(c) == ReadHead(c, "invoice", "invoice_lines")

\* get_journal_entry.
ReadEntry(c) == ReadHead(c, "entry", "entry_lines")

PreparedValidation(r, effect) ==
    IF IsDraftDocument(effect.head)
    THEN Concluded(r, effect, ValidationFindings(effect.head, effect.lines))
    ELSE Ended(r, "failed")

PreparedCreditNote(r, effect) ==
    IF IsPostedInvoice(effect.head) THEN Concluded(r, effect, {}) ELSE Ended(r, "failed")

\* prepare_payment goes on to the preview.
PreparedPayment(r, effect) ==
    IF IsPostedInvoice(effect.head) /\ WithinResidual(AmountOf(r.req, effect.head), effect.head)
    THEN [r EXCEPT !.effect = effect, !.step = "preview"]
    ELSE Ended(r, "failed")

\* get_invoice_effect: the lines.
ReadInvoiceLines(c) ==
    LET r == call[c]
        effect == [head |-> r.head, lines |-> moves[r.req.move].lines]
    IN  /\ At(c, {"prepare", "validate"}, "invoice_lines")
        /\ Step(c, CASE r.req.tool = "validate_invoice" -> PreparedValidation(r, effect)
                     [] r.req.tool = "credit_note" -> PreparedCreditNote(r, effect)
                     [] r.req.tool = "payment" -> PreparedPayment(r, effect))
        /\ UNCHANGED odoo

\* get_journal_entry: the lines, and prepare_journal_entry_post.
ReadEntryLines(c) ==
    LET r == call[c]
        entry == [head |-> r.head, lines |-> moves[r.req.move].lines]
    IN  /\ At(c, {"prepare", "validate"}, "entry_lines")
        /\ Step(c, IF IsDraftEntry(r.head)
                   THEN Concluded(r, entry, PostFindings(entry.lines)) ELSE Ended(r, "failed"))
        /\ UNCHANGED odoo

\* get_payment_registration_preview reads the invoice once more and creates
\* the first wizard, which lists the journals.
PreviewDefault(c) ==
    LET r == call[c]
        m == moves[r.req.move]
    IN  /\ At(c, {"prepare", "validate"}, "preview")
        /\ Step(c, IF /\ IsPostedInvoice(m)
                      /\ WithinResidual(AmountOf(r.req, r.effect.head), m)
                   THEN [r EXCEPT !.step = "routes", !.journals = AvailableJournals,
                                  !.routes = {}]
                   ELSE Ended(r, "failed"))
        /\ UNCHANGED odoo

\* One wizard per journal; each must show the journals the first one showed.
PreviewRoute(c) ==
    LET r == call[c]
        left == r.journals \ {route.journal : route \in r.routes}
    IN  /\ At(c, {"prepare", "validate"}, "routes")
        /\ \E j \in left :
              Step(c, IF AvailableJournals = r.journals
                      THEN [r EXCEPT !.routes = @ \cup {[journal |-> j, code |-> codes[j]]},
                                     !.step = IF left = {j} THEN "select" ELSE "routes"]
                      ELSE Ended(r, "failed"))
        /\ UNCHANGED odoo

\* The registration: exactly one route must remain.
SelectRoute(c) ==
    LET r == call[c]
        open == Selected(r.req, r.routes)
    IN  /\ \/ At(c, {"prepare", "validate"}, "select")
           \/ At(c, {"prepare", "validate"}, "routes") /\ r.journals = {}
        /\ Step(c, IF Cardinality(open) = 1
                   THEN Concluded(r, [effect |-> r.effect,
                                      amount |-> AmountOf(r.req, r.effect.head),
                                      route |-> CHOOSE route \in open : TRUE], {})
                   ELSE Concluded(r, Nothing, {"PAYMENT_ROUTE_SELECTION_REQUIRED"}))
        /\ UNCHANGED odoo

----------------------------------------------------------------------------
\* execute_op: the writing methods of the adapter.  Of a refusal there the
\* coordinator does not know that nothing was written.

\* The document is read again; only its header is looked at.
Recheck(c, step, eligible, next) ==
    /\ At(c, {"execute"}, step)
    /\ Step(c, IF eligible THEN [call[c] EXCEPT !.step = next] ELSE Ended(call[c], "unknown"))
    /\ UNCHANGED odoo

\* post_journal_entry.
RecheckEntry(c) == Recheck(c, "recheck_entry", IsDraftEntry(moves[call[c].req.move]), "post")

\* create_credit_note.
RecheckOriginal(c) ==
    Recheck(c, "recheck_original", IsPostedInvoice(moves[call[c].req.move]), "existing")

\* register_payment.
RecheckPayment(c) ==
    LET m == moves[call[c].req.move] IN
    Recheck(c, "recheck_payment",
            m.state = "posted" /\ WithinResidual(call[c].snap.amount, m), "wizard")

\* create_credit_note: the reversals there are before the wizard.
ExistingReversals(c) ==
    /\ At(c, {"execute"}, "existing")
    /\ Step(c, [call[c] EXCEPT !.existing = Reversals(call[c].req.move),
                               !.step = "reverse"])
    /\ UNCHANGED odoo

\* Mutant of PaymentWizard: the row of the wizard is not compared.
PaymentWizardUnread(c) ==
    /\ At(c, {"execute"}, "wizard")
    /\ Step(c, [call[c] EXCEPT !.step = "pay"])
    /\ UNCHANGED odoo

\* register_payment: the wizard that will pay, and the comparison of its row
\* with the registration.
PaymentWizard(c) ==
    LET route == call[c].snap.route IN
    /\ At(c, {"execute"}, "wizard")
    /\ Step(c, IF codes[route.journal] = route.code
               THEN [call[c] EXCEPT !.step = "pay"] ELSE Ended(call[c], "unknown"))
    /\ UNCHANGED odoo

\* The steps at which the request to write is with Odoo.
WriteSteps == {"create_invoice", "create_entry", "post", "reverse", "pay"}

\* What Odoo holds of the things the call relied on.
Found(r) ==
    CASE r.req.tool \in CreateTools -> [found |-> r.req.refs \subseteq active]
      [] r.req.tool \in PostTools \cup {"credit_note"} ->
            [head |-> HeadOf(moves[r.req.move]), lines |-> moves[r.req.move].lines]
      [] r.req.tool = "payment" ->
            [effect |-> [head |-> HeadOf(moves[r.req.move]), lines |-> moves[r.req.move].lines],
             amount |-> r.snap.amount,
             route |-> [journal |-> r.snap.route.journal, code |-> codes[r.snap.route.journal]]]

\* A call that was given up does not read back what it wrote.
ReadBack(r, step) == IF r.result = "none" THEN step ELSE "ended"

Landed(c, own, step) ==
    [call[c] EXCEPT !.step = ReadBack(call[c], step), !.own = own, !.acted = Found(call[c]),
                    !.landed = IF call[c].fresh THEN "fresh" ELSE "stale"]

\* account.move create.
Create(c, step, kind) ==
    /\ At(c, {"execute"}, step)
    /\ HasRoom
    /\ moves' = [moves EXCEPT ![FreshId] = NewMove(kind, call[c].req.doc, 0)]
    /\ Step(c, [Landed(c, FreshId, "confirm_draft") EXCEPT !.reported = FreshId])
    /\ UNCHANGED <<active, codes, edits>>

CreateDraftInvoice(c) == Create(c, "create_invoice", "invoice")

CreateJournalEntryDraft(c) == Create(c, "create_entry", "entry")

\* account.move action_post, which Odoo refuses for what is not a draft.
Post(c) ==
    LET m == call[c].req.move IN
    /\ At(c, {"execute"}, "post")
    /\ IF moves[m].state = "draft"
       THEN /\ moves' = [moves EXCEPT ![m].state = "posted"]
            /\ call' = Disturbed([call EXCEPT ![c] =
                                     [Landed(c, m, "confirm_posted") EXCEPT !.reported = m]], m, c)
       ELSE /\ Step(c, Ended(call[c], "unknown"))
            /\ UNCHANGED moves
    /\ UNCHANGED <<active, codes, edits>>

\* account.move.reversal reverse_moves; the answer may name the new move.
ReverseMoves(c) ==
    LET m == call[c].req.move IN
    /\ At(c, {"execute"}, "reverse")
    /\ IF moves[m].state = "posted"
       THEN /\ HasRoom
            /\ moves' = [moves EXCEPT ![FreshId] = NewMove("refund", moves[m], m)]
            /\ \E named \in BOOLEAN :
                  Step(c, [Landed(c, FreshId, "list") EXCEPT !.named = named])
       ELSE /\ Step(c, Ended(call[c], "unknown"))
            /\ UNCHANGED moves
    /\ UNCHANGED <<active, codes, edits>>

\* account.payment.register action_create_payments.  Odoo pays what it is
\* told, more than the residual too.
CreatePayments(c) ==
    LET m == call[c].req.move IN
    /\ At(c, {"execute"}, "pay")
    /\ IF moves[m].state = "posted"
       THEN /\ moves' = [moves EXCEPT ![m].residual = @ - call[c].snap.amount]
            /\ call' = Disturbed([call EXCEPT ![c] = [Landed(c, m, "confirm") EXCEPT !.reported = m]],
                                 m, c)
       ELSE /\ Step(c, Ended(call[c], "unknown"))
            /\ UNCHANGED moves
    /\ UNCHANGED <<active, codes, edits>>

\* Mutant of Candidates: the reversals of the beginning count as well.
CandidatesAll(r) ==
    LET new == {n \in Reversals(r.req.move) : moves[n].state = "draft"}
    IN  IF r.named THEN new ELSE {n \in new : \A k \in new : n >= k}

\* The draft reversals that are new since ExistingReversals; the named one
\* must be among them, otherwise there must be just one.
Candidates(r) ==
    LET new == {n \in Reversals(r.req.move) : moves[n].state = "draft"} \ r.existing
    IN  IF r.named THEN new \cap {r.own} ELSE new

\* create_credit_note: which move did the wizard make?
ListReversals(c) ==
    LET r == call[c] IN
    /\ At(c, {"execute"}, "list")
    /\ Step(c, IF Cardinality(Candidates(r)) = 1
               THEN [r EXCEPT !.reported = CHOOSE n \in Candidates(r) : TRUE, !.step = "confirm",
                              !.missed = (moves[r.own].state # "draft")]
               ELSE Ended(r, "unknown"))
    /\ UNCHANGED odoo

\* The read-back, from which the answer is made: what was created must
\* still be a draft, what was posted still posted.
Confirm(c) ==
    LET r == call[c]
        m == moves[r.reported]
    IN  /\ r.step \in {"confirm", "confirm_draft", "confirm_posted"}
        /\ Step(c, Ended(r, IF /\ Exists(m)
                               /\ r.step = "confirm_draft" => m.state = "draft"
                               /\ r.step = "confirm_posted" => m.state = "posted"
                            THEN "applied" ELSE "unknown"))
        /\ UNCHANGED odoo

\* The request to write was sent and times out, or the call is cancelled:
\* its result is unknown, and Odoo may carry the request out later.
GiveUp(c) ==
    /\ call[c].step \in WriteSteps
    /\ call[c].result = "none"
    /\ Step(c, [call[c] EXCEPT !.result = "unknown"])
    /\ UNCHANGED odoo

\* Before execute_op nothing was written.  In it a permission denied is
\* taken for a failure, the read-back's too, and anything else is unknown.
FailureResults(r) ==
    CASE r.phase # "execute" -> {"failed"}
      [] r.phase = "execute" /\ r.result = "none" -> {"failed", "unknown"}
      [] OTHER -> {"unknown"}

\* A call to Odoo fails.
Fail(c) ==
    /\ call[c].step \notin {"idle", "ended"}
    /\ \E result \in FailureResults(call[c]) : Step(c, Ended(call[c], result))
    /\ UNCHANGED odoo

----------------------------------------------------------------------------
\* Odoo users.

\* A draft is edited, posted or deleted; a posted move is reset or paid.
UserMoves(m) ==
    IF m.state = "draft"
    THEN {NewMove(m.kind, doc, m.source) : doc \in Drafts}
            \cup {[m EXCEPT !.state = "posted"], Deleted}
    ELSE {[m EXCEPT !.state = "draft"]}
            \cup {[m EXCEPT !.residual = @ - 1] : p \in {q \in {1} : m.residual > 0}}

UserEdit(m) ==
    /\ edits < MaxEdits
    /\ Exists(moves[m])
    /\ \E new \in UserMoves(moves[m]) \ {moves[m]} : moves' = [moves EXCEPT ![m] = new]
    /\ call' = Disturbed(call, m, 0)
    /\ edits' = edits + 1
    /\ UNCHANGED <<active, codes>>

UserReverse(m) ==
    /\ edits < MaxEdits
    /\ moves[m].kind = "invoice" /\ moves[m].state = "posted"
    /\ HasRoom
    /\ moves' = [moves EXCEPT ![FreshId] = NewMove("refund", moves[m], m)]
    /\ edits' = edits + 1
    /\ UNCHANGED <<active, codes, call>>

\* A record is archived; the calls that have found it rely on an old answer.
UserArchive(ref) ==
    /\ edits < MaxEdits
    /\ ref \in active
    /\ active' = active \ {ref}
    /\ call' = [d \in Calls |-> IF ref \in call[d].checked
                                THEN [call[d] EXCEPT !.fresh = FALSE] ELSE call[d]]
    /\ edits' = edits + 1
    /\ UNCHANGED <<moves, codes>>

\* A payment method is changed or withdrawn.  A payment that has compared
\* its wizard relies on an old answer.
UserRoute(j) ==
    /\ edits < MaxEdits
    /\ \E code \in Codes \ {codes[j]} : codes' = [codes EXCEPT ![j] = code]
    /\ call' = [d \in Calls |-> IF call[d].req.tool = "payment" /\ call[d].step = "pay"
                                THEN [call[d] EXCEPT !.fresh = FALSE] ELSE call[d]]
    /\ edits' = edits + 1
    /\ UNCHANGED <<moves, active>>

CallStep(c) ==
    \/ Begin(c)
    \/ CheckInvoiceReference(c) \/ CheckEntryReference(c)
    \/ BuildInvoiceDraft(c) \/ BuildEntryDraft(c)
    \/ ReadInvoice(c) \/ ReadInvoiceLines(c) \/ ReadEntry(c) \/ ReadEntryLines(c)
    \/ PreviewDefault(c) \/ PreviewRoute(c) \/ SelectRoute(c)
    \/ RecheckEntry(c) \/ RecheckOriginal(c) \/ RecheckPayment(c)
    \/ ExistingReversals(c) \/ PaymentWizard(c)
    \/ CreateDraftInvoice(c) \/ CreateJournalEntryDraft(c) \/ Post(c)
    \/ ReverseMoves(c) \/ ListReversals(c) \/ CreatePayments(c)
    \/ Confirm(c) \/ GiveUp(c) \/ Fail(c)

Next ==
    \/ \E c \in Calls : CallStep(c)
    \/ \E m \in MoveIds : UserEdit(m) \/ UserReverse(m)
    \/ \E ref \in Refs : UserArchive(ref)
    \/ \E j \in Journals : UserRoute(j)

Spec == Init /\ [][Next]_vars

----------------------------------------------------------------------------
\* Unless somebody worked on the document, its references or its payment
\* route after the call had looked at them for the last time before its
\* write (validate_op and the adapter's own checks), the write meets in
\* Odoo exactly what prepare_op showed.
ActedAsPrepared ==
    \A c \in Calls :
        call[c].landed = "fresh" =>
            IF call[c].req.tool \in CreateTools
            THEN call[c].acted.found
            ELSE call[c].acted = call[c].snap

\* Less than one unit of a currency's precision apart.
Near(a, b, currency) == a - b < Increment[currency] /\ b - a < Increment[currency]

\* What a tool posts or creates as a journal entry balances to less than one
\* unit of the company's currency, and what the lines of a posted invoice
\* come to is the invoice's total, in the invoice's currency and to less
\* than one unit of it (prepare_validation, prepare_journal_entry_draft and
\* prepare_journal_entry_post).
PostedBalances ==
    \A c \in Calls :
        LET r == call[c] IN
        /\ r.landed = "fresh" /\ r.req.tool \in PostTools =>
              /\ r.acted.lines.sound
              /\ Near(r.acted.lines.debit, r.acted.lines.credit, Home)
              /\ r.req.tool = "validate_invoice" =>
                    /\ r.acted.lines.currency = r.acted.head.currency
                    /\ Near(r.acted.lines.total, r.acted.head.total, r.acted.head.currency)
        /\ r.landed # "no" /\ r.req.tool = "create_entry" =>
              Near(r.req.doc.lines.debit, r.req.doc.lines.credit, Home)

\* The credit note a successful call reports is the one its own wizard made.
\* Only when Odoo's answer did not name it, and it was posted or deleted
\* before the call listed the reversals, may another one be taken for it
\* (create_credit_note).
CreditNoteOwn ==
    \A c \in Calls :
        LET r == call[c] IN
        r.req.tool = "credit_note" /\ r.result = "applied" =>
            \/ r.reported = r.own
            \/ ~r.named /\ r.missed /\ r.reported \notin r.existing

\* An invoice is paid beyond its total only by a call whose look at the
\* residual somebody else's payment made stale (register_payment).
OverpaidOnlyStale ==
    \A m \in DOMAIN moves :
        moves[m].residual < 0 =>
            \E c \in Calls : /\ call[c].req.tool = "payment"
                             /\ call[c].req.move = m
                             /\ call[c].landed = "stale"

\* A write meets in Odoo what prepare_op showed, and what it posts or creates
\* balances (validate_op, the findings of invoicing.py and journals.py).
WrittenAsValidated == ActedAsPrepared /\ PostedBalances

----------------------------------------------------------------------------
\* Types, and the inductive invariants behind these properties.

EffectType == [head : HeadType, lines : LinesType]
RouteType == [journal : Journals, code : Codes]
RegistrationType == [effect : EffectType, amount : Int, route : RouteType]

\* What prepare_op hands to validate_op and execute_op.
SnapType(tool) ==
    CASE tool \in CreateTools -> DocType
      [] tool = "payment" -> RegistrationType
      [] OTHER -> EffectType

\* The steps of a tool in prepare_op (and validate_op) and in execute_op.
PrepareSteps ==
    [create_invoice |-> {"invoice_refs", "invoice_draft"},
     create_entry |-> {"entry_refs", "entry_draft"},
     validate_invoice |-> {"invoice", "invoice_lines"},
     post_entry |-> {"entry", "entry_lines"},
     credit_note |-> {"invoice", "invoice_lines"},
     payment |-> {"invoice", "invoice_lines", "preview", "routes", "select"}]

ExecuteSteps ==
    [create_invoice |-> {"create_invoice"},
     create_entry |-> {"create_entry"},
     validate_invoice |-> {"post"},
     post_entry |-> {"recheck_entry", "post"},
     credit_note |-> {"recheck_original", "existing", "reverse"},
     payment |-> {"recheck_payment", "wizard", "pay"}]

\* The steps after the write.
ReadBackSteps ==
    [create_invoice |-> {"confirm_draft"}, create_entry |-> {"confirm_draft"},
     validate_invoice |-> {"confirm_posted"}, post_entry |-> {"confirm_posted"},
     credit_note |-> {"list", "confirm"}, payment |-> {"confirm"}]

StepNames == {"idle", "ended", "invoice_refs", "invoice_draft", "entry_refs", "entry_draft",
              "invoice", "invoice_lines", "entry", "entry_lines", "preview", "routes", "select",
              "create_invoice", "create_entry", "post", "recheck_entry", "recheck_original",
              "existing", "reverse", "recheck_payment", "wizard", "pay",
              "confirm_draft", "confirm_posted", "list", "confirm"}

Phases == {"idle", "prepare", "validate", "execute"}
Results == {"none", "needs_input", "failed", "unknown", "applied"}
LandedValues == {"no", "fresh", "stale"}
HeadValues == HeadType \cup {Nothing}
EffectValues == EffectType \cup {Nothing}
SnapValues == DocType \cup EffectType \cup RegistrationType \cup {Nothing}
ActedValues == [found : BOOLEAN] \cup EffectType \cup RegistrationType \cup {Nothing}
IdValues == MoveIds \cup {0}

CallType ==
    [req : Requests, phase : Phases, step : StepNames, result : Results,
     head : HeadValues, effect : EffectValues, snap : SnapValues,
     checked : SUBSET Refs, journals : SUBSET Journals, routes : SUBSET RouteType,
     existing : SUBSET MoveIds, own : IdValues, named : BOOLEAN, reported : IdValues,
     missed : BOOLEAN, fresh : BOOLEAN, landed : LandedValues, acted : ActedValues]

\* Where a call is, and which of its reads it holds there.
ControlOK(r) ==
    LET tool == r.req.tool IN
    /\ \/ r.phase = "idle" /\ r.step = "idle"
       \/ r.phase \in {"prepare", "validate"} /\ r.step \in PrepareSteps[tool] \cup {"ended"}
       \/ r.phase = "execute"
             /\ r.step \in ExecuteSteps[tool] \cup ReadBackSteps[tool] \cup {"ended"}
    /\ r.step \in {"invoice_lines", "entry_lines"} => r.head \in HeadType
    /\ r.step \in {"preview", "routes", "select"} => r.effect \in EffectType
    /\ r.phase \in {"validate", "execute"} => r.snap \in SnapType(tool)
    /\ r.step \in ReadBackSteps[tool] => r.landed # "no" /\ r.own \in MoveIds
    /\ r.step \in ReadBackSteps[tool] \ {"list"} => r.reported \in MoveIds
    /\ r.landed # "no" => r.phase = "execute" /\ r.step \in ReadBackSteps[tool] \cup {"ended"}
    /\ r.step = "ended" => r.result # "none"
    /\ r.result # "none" /\ r.step # "ended" =>
          r.phase = "execute" /\ r.step \in WriteSteps /\ r.result = "unknown"
    /\ IsFiniteSet(r.routes)

\* Moves, records and calls keep their types, and a call is where its tool
\* can be (the tools of mcp/server.py).
TypeOK ==
    /\ moves \in [MoveIds -> LiveMove \cup {Absent, Deleted}]
    /\ active \subseteq Refs
    /\ codes \in [Journals -> Codes]
    /\ edits \in 0..MaxEdits
    /\ call \in [Calls -> CallType]
    /\ \A c \in Calls : ControlOK(call[c])

EffectOf(m) == [head |-> HeadOf(m), lines |-> m.lines]

\* What a call with a fresh look holds of the document is what Odoo has.
FreshOK(r) ==
    LET m == moves[r.req.move] IN
    r.fresh /\ r.landed = "no" =>
        /\ r.req.tool \in CreateTools => r.checked \subseteq active
        /\ r.req.tool \in MoveTools /\ r.step \in {"invoice_lines", "entry_lines"} =>
              Exists(m) /\ r.head = HeadOf(m)
        /\ r.req.tool \in MoveTools /\ r.step \in {"preview", "routes", "select"} =>
              Exists(m) /\ r.effect = EffectOf(m)
        /\ r.req.tool \in MoveTools /\ r.phase = "execute" =>
              /\ Exists(m)
              /\ r.req.tool # "payment" => r.snap = EffectOf(m)
              /\ r.req.tool = "payment" => r.snap.effect = EffectOf(m)
              /\ r.step = "pay" => codes[r.snap.route.journal] = r.snap.route.code

\* A draft is created after all its references were found, and what is posted
\* or created as an entry had no findings when it was prepared.
PreparedOK(r) ==
    /\ r.req.tool \in CreateTools => r.checked \subseteq r.req.refs
    /\ r.req.tool \in CreateTools
       /\ (r.step \in {"invoice_draft", "entry_draft"} \/ r.phase = "execute") =>
          r.checked = r.req.refs
    /\ r.phase \in {"validate", "execute"} =>
          /\ r.req.tool = "create_entry" => BalanceFindings(r.req.doc.lines) = {}
          /\ r.req.tool = "validate_invoice" => ValidationFindings(r.snap.head, r.snap.lines) = {}
          /\ r.req.tool = "post_entry" => PostFindings(r.snap.lines) = {}

\* A write with a fresh look met what was prepared.
ActedOK(r) ==
    r.landed = "fresh" =>
        IF r.req.tool \in CreateTools THEN r.acted.found ELSE r.acted = r.snap

\* The reversals a credit note call saw first and the one its wizard made
\* are never taken for one another.
CreditOK(r) ==
    r.req.tool = "credit_note" =>
        /\ r.step \in {"reverse", "list"} => \A n \in r.existing : moves[n] # Absent
        /\ r.step = "list" => /\ r.own \notin r.existing
                              /\ moves[r.own] # Absent
                              /\ Exists(moves[r.own]) => moves[r.own].source = r.req.move
        /\ r.step = "confirm" \/ r.result = "applied" =>
              \/ r.reported = r.own
              \/ ~r.named /\ r.missed /\ r.reported \notin r.existing

\* A payment whose look is fresh stays within the residual.
PaymentOK(r) ==
    r.req.tool = "payment" /\ r.step \in {"wizard", "pay"} /\ r.fresh =>
        Exists(moves[r.req.move]) /\ r.snap.amount <= moves[r.req.move].residual

\* The inductive invariant of the calls, beside their types.
CallOK(r) == FreshOK(r) /\ PreparedOK(r) /\ ActedOK(r) /\ CreditOK(r) /\ PaymentOK(r)

CallsInv == \A c \in Calls : CallOK(call[c])
=============================================================================
