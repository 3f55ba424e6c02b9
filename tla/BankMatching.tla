---------------------------- MODULE BankMatching ----------------------------
(***************************************************************************)
(* Bank reconciliation proposals: workflows/accounting/reconcile_bank.py   *)
(* behind reconcile_bank_statement_lines and                               *)
(* flag_unmatched_statement_lines of mcp/server.py.                        *)
(*                                                                         *)
(* The statement lines are read first and the candidates after them, page  *)
(* by page, while users post and reconcile.  A proposal is built twice, to *)
(* prepare and to revalidate, and recorded when both builds are equal; the *)
(* reservation around it is WriteSafety.  Amounts are in hundredths and    *)
(* scores in 3000ths, in which the confidence of every number of days is a *)
(* whole number.                                                           *)
(***************************************************************************)
EXTENDS IdPages, FiniteSetsExt

CONSTANTS
    StatementIds, Lines,  \* ids
    StatementData,        \* [journal, amount, partner, reference, day, foreign, move]
    LineData,             \* [currency, residual, foreign, partner, reference, day, move]
    JournalCurrency,      \* bank and cash journals -> currency, or NoCurrency
    Increment,            \* currency -> rounding; the currencies the workflow loads
    CompanyCurrency,
    Requests,             \* [tool, journal, ids, threshold, dryRun]
    MaxChanges            \* bound on the steps of Odoo users

NoCurrency == 0
Absent == 0      \* no partner, no reference, no move
AnyJournal == 0  \* the flagging tool may be asked about all journals

\* Odoo numbers records from 1; every currency of a bank journal is loaded,
\* with a positive rounding (_currency_map of reconcile_bank.py).
BankMatchingAssumption ==
    /\ IsFiniteSet(Lines) /\ Lines \subseteq Nat \ {0}
    /\ IsFiniteSet(StatementIds) /\ StatementIds \subseteq Nat \ {0}
    /\ \A s \in StatementData : s.amount \in Int /\ s.day \in Int
    /\ \A l \in LineData : l.residual \in Int /\ l.foreign \in Int /\ l.day \in Int
    /\ \A c \in DOMAIN Increment : Increment[c] \in Nat \ {0}
    /\ CompanyCurrency \in DOMAIN Increment
    /\ \A j \in DOMAIN JournalCurrency : JournalCurrency[j] \in DOMAIN Increment \cup {NoCurrency}
    /\ \A q \in Requests : q.threshold \in Int
    /\ PageSize \in Nat \ {0} /\ MaxRecords \in Nat

VARIABLES
    statement,   \* the statement lines' data
    line,        \* the move lines' data
    closed,      \* reconciled statement lines
    status,      \* of each move line: "draft", "open", "reconciled"
    changes,     \* number of user steps
    request, phase, stage, cursor,
    read,        \* what this build has read
    proposal,    \* what prepare built
    outcome,
    together,    \* history: the pairs that were open at once since the call began
    undone       \* history: a reconciliation was undone

data == <<statement, line>>
odoo == <<closed, status, changes>>
vars == <<statement, line, closed, status, changes, request, phase, stage, cursor, read,
          proposal, outcome, together, undone>>

OpenStatements == StatementIds \ closed
OpenLines == {l \in Lines : status[l] = "open"}

----------------------------------------------------------------------------
\* _candidate.

Amount == 1650   \* 0.55
Partner == 600   \* 0.20
Reference == 450 \* 0.15

\* journal.currency or company_currency.
EffectiveCurrency(s) ==
    LET c == JournalCurrency[statement[s].journal] IN IF c = NoCurrency THEN CompanyCurrency ELSE c

\* Mutant of RoundCurrencyAmount: halves go up, below zero too.
RoundHalfCeiling(v, c) == ((2 * v + Increment[c]) \div (2 * Increment[c])) * Increment[c]

RoundCurrencyAmount(v, c) == RoundedTo(v, Increment[c])

\* The residual in the journal's currency.
CandidateAmount(s, l) ==
    IF JournalCurrency[statement[s].journal] = NoCurrency THEN line[l].residual ELSE line[l].foreign

\* Why a line cannot be the counterpart of a statement line at all.
Comparable(s, l) ==
    /\ statement[s].foreign \in {Absent, EffectiveCurrency(s)}
    /\ line[l].currency = EffectiveCurrency(s)
    /\ statement[s].move = Absent \/ statement[s].move # line[l].move

Candidate(s, l) ==
    /\ Comparable(s, l)
    /\ RoundCurrencyAmount(statement[s].amount, EffectiveCurrency(s))
         = RoundCurrencyAmount(-CandidateAmount(s, l), EffectiveCurrency(s))

Days(s, l) == Max({statement[s].day - line[l].day, line[l].day - statement[s].day})

Score(s, l) ==
    Amount
    + (IF statement[s].partner # Absent /\ statement[s].partner = line[l].partner
       THEN Partner ELSE 0)
    + (IF statement[s].reference # Absent /\ statement[s].reference = line[l].reference
       THEN Reference ELSE 0)
    + (IF Days(s, l) <= 30 THEN 10 * (30 - Days(s, l)) ELSE 0)

----------------------------------------------------------------------------
\* _decisions.

\* The lines filed under the statement line's amount.
Eligible(s, L) ==
    LET c == EffectiveCurrency(s) IN
    {l \in L : /\ line[l].currency \in DOMAIN Increment
               /\ line[l].currency = c
               /\ RoundCurrencyAmount(CandidateAmount(s, l), c)
                    = RoundCurrencyAmount(-statement[s].amount, c)}

Scored(s, L) == {l \in Eligible(s, L) : Candidate(s, l)}

Best(s, L) == {l \in Scored(s, L) : \A k \in Scored(s, L) : Score(s, k) <= Score(s, l)}

Matched(l) == [line |-> l, reason |-> "none"]
Unmatched(why) == [line |-> Absent, reason |-> why]

Provisional(s, L, threshold) ==
    LET best == Best(s, L) IN
    IF best = {} THEN Unmatched("no_eligible_candidate")
    ELSE IF Cardinality(best) > 1 THEN Unmatched("ambiguous_best_match")
    ELSE LET l == CHOOSE l \in best : TRUE IN
         IF Score(s, l) < threshold THEN Unmatched("below_confidence_threshold")
         ELSE Matched(l)

Decisions(S, L, threshold) ==
    LET provisional == [s \in S |-> Provisional(s, L, threshold)]
        chosen(l) == Cardinality({s \in S : provisional[s] = Matched(l)})
    IN  [s \in S |-> IF provisional[s].line # Absent /\ chosen(provisional[s].line) > 1
                     THEN Unmatched("candidate_conflict")
                     ELSE provisional[s]]

----------------------------------------------------------------------------
NoRead == [statements |-> {}, closed |-> {}, lines |-> {}]
NoProposal == [s \in {} |-> Absent]

Init ==
    /\ statement \in [StatementIds -> StatementData]
    /\ line \in [Lines -> LineData]
    /\ closed = {}
    /\ status \in [Lines -> {"draft", "open"}]
    /\ changes = 0
    /\ request \in Requests
    /\ phase = "prepare"
    /\ stage = "statements"
    /\ cursor = 0
    /\ read = NoRead
    /\ proposal = NoProposal
    /\ outcome = "none"
    /\ together = OpenStatements \X OpenLines
    /\ undone = FALSE

Fail(code) == outcome' = code /\ phase' = "failed"

\* _statement_lines: one page of those of the journal.
ReadStatements ==
    /\ phase \in {"prepare", "validate"} /\ stage = "statements"
    /\ LET S == {s \in StatementIds : request.journal \in {AnyJournal, statement[s].journal}}
           page == PageAfter(S, cursor)
           before == IF cursor = 0 THEN NoRead ELSE read
       IN  IF Unsafe(before.statements, page)
           THEN Fail("too_many") /\ UNCHANGED <<read, cursor, stage>>
           ELSE /\ read' = [before EXCEPT !.statements = @ \cup page,
                                          !.closed = @ \cup (page \cap closed)]
                /\ IF HasMore(S, cursor)
                   THEN cursor' = Max(page) /\ UNCHANGED stage
                   ELSE cursor' = 0 /\ stage' = "selection"
                /\ UNCHANGED <<phase, outcome>>
    /\ UNCHANGED <<data, odoo, request, proposal, together, undone>>

\* What is asked for must be there and open; the flagging tool takes what is.
CheckSelection ==
    /\ phase \in {"prepare", "validate"} /\ stage = "selection"
    /\ IF request.tool = "flag"
       THEN stage' = "lines" /\ UNCHANGED <<phase, outcome>>
       ELSE IF request.journal \notin DOMAIN JournalCurrency
       THEN Fail("journal_not_found") /\ UNCHANGED stage
       ELSE IF ~(request.ids \subseteq read.statements)
       THEN Fail("statement_line_not_found") /\ UNCHANGED stage
       ELSE IF request.ids \cap read.closed # {}
       THEN Fail("state_conflict") /\ UNCHANGED stage
       ELSE stage' = "lines" /\ UNCHANGED <<phase, outcome>>
    /\ UNCHANGED <<data, odoo, request, cursor, read, proposal, together, undone>>

\* _candidate_lines: one page of the open lines.
ReadLines ==
    /\ phase \in {"prepare", "validate"} /\ stage = "lines"
    /\ LET page == PageAfter(OpenLines, cursor) IN
       IF Unsafe(read.lines, page)
       THEN Fail("too_many") /\ UNCHANGED <<read, cursor, stage>>
       ELSE /\ read' = [read EXCEPT !.lines = @ \cup page]
            /\ IF HasMore(OpenLines, cursor)
               THEN cursor' = Max(page) /\ UNCHANGED stage
               ELSE cursor' = 0 /\ stage' = "decide"
            /\ UNCHANGED <<phase, outcome>>
    /\ UNCHANGED <<data, odoo, request, proposal, together, undone>>

Selection == IF request.tool = "flag" THEN read.statements \ read.closed ELSE request.ids

\* "Odoo returned an unavailable statement journal".
Judged == \A s \in Selection : statement[s].journal \in DOMAIN JournalCurrency

Built == Decisions(Selection, read.lines, request.threshold)

\* Mutant of Unchanged: the second build only has to succeed.
UnchangedUnread == TRUE

\* validate_current_state compares the two builds.
Unchanged == Built = proposal

\* A build ends: the first is the preview, the second must equal it.
Decide ==
    /\ phase \in {"prepare", "validate"} /\ stage = "decide"
    /\ \/ /\ ~Judged
          /\ Fail("source_error")
          /\ UNCHANGED proposal
       \/ /\ phase = "prepare" /\ Judged
          /\ proposal' = Built
          /\ IF request.tool = "flag" \/ request.dryRun
             THEN phase' = "done" /\ outcome' = "previewed"
             ELSE phase' = "validate" /\ UNCHANGED outcome
       \/ /\ phase = "validate" /\ Judged
          /\ IF Unchanged
             THEN proposal' = Built /\ phase' = "persist" /\ UNCHANGED outcome
             ELSE Fail("state_conflict") /\ UNCHANGED proposal
    /\ stage' = "statements" /\ cursor' = 0
    /\ UNCHANGED <<data, odoo, request, read, together, undone>>

\* storage.proposal_journal.record.
PersistProposal ==
    /\ phase = "persist"
    /\ phase' = "done"
    /\ outcome' = "recorded"
    /\ UNCHANGED <<data, odoo, request, stage, cursor, read, proposal, together, undone>>

----------------------------------------------------------------------------
\* Odoo users.
Happens ==
    /\ changes < MaxChanges
    /\ changes' = changes + 1
    /\ together' = together \cup (OpenStatements' \X OpenLines')
    /\ UNCHANGED <<data, request, phase, stage, cursor, read, proposal, outcome>>

Post(l) ==
    /\ status[l] = "draft"
    /\ status' = [status EXCEPT ![l] = "open"]
    /\ UNCHANGED <<closed, undone>>
    /\ Happens

\* With each other, or each with something else.
Reconcile(S, L) ==
    /\ S \cup L # {}
    /\ closed' = closed \cup S
    /\ status' = [l \in Lines |-> IF l \in L THEN "reconciled" ELSE status[l]]
    /\ UNCHANGED undone
    /\ Happens

Undo(S, L) ==
    /\ S \cup L # {}
    /\ closed' = closed \ S
    /\ status' = [l \in Lines |-> IF l \in L THEN "open" ELSE status[l]]
    /\ undone' = TRUE
    /\ Happens

UserStep ==
    \/ \E l \in Lines : Post(l)
    \/ \E S \in SUBSET OpenStatements, L \in SUBSET OpenLines :
          Cardinality(S) <= 1 /\ Cardinality(L) <= 1 /\ Reconcile(S, L)
    \/ \E S \in SUBSET closed, L \in SUBSET {l \in Lines : status[l] = "reconciled"} :
          Cardinality(S) <= 1 /\ Cardinality(L) <= 1 /\ Undo(S, L)

Next == ReadStatements \/ CheckSelection \/ ReadLines \/ Decide \/ PersistProposal \/ UserStep

Spec == Init /\ [][Next]_vars

----------------------------------------------------------------------------
\* The matching by its meaning: the amounts cancel to the nearest unit, halves
\* away from zero.
Magnitude(v) == IF v < 0 THEN -v ELSE v

Cancels(s, l) ==
    LET a == statement[s].amount
        b == CandidateAmount(s, l)
        u == Increment[EffectiveCurrency(s)]
        units(v) == (2 * Magnitude(v) + u) \div (2 * u)
    IN  /\ units(a) = units(b)
        /\ units(a) # 0 => ((a < 0) # (b < 0))

Counterparts(s) == {l \in read.lines : Comparable(s, l) /\ Cancels(s, l)}

\* l is the one best counterpart of s, and good enough.
Stands(s, l) ==
    /\ l \in Counterparts(s)
    /\ Score(s, l) >= request.threshold
    /\ \A k \in Counterparts(s) \ {l} : Score(s, k) < Score(s, l)

Finished == phase = "persist" \/ outcome \in {"previewed", "recorded"}

\* README: "exact one-to-one candidates"; "Ties and candidate reuse remain
\* explicit unmatched results".  A statement line is matched with a line
\* exactly when that is its one best counterpart among all that were read, is
\* good enough, and is so for no other line asked for; no rounding hides a
\* candidate from the index (_decisions, _candidate).
MatchesJustified ==
    Finished =>
        \A s \in DOMAIN proposal, l \in read.lines :
            proposal[s].line = l <=>
                Stands(s, l) /\ \A r \in DOMAIN proposal \ {s} : ~Stands(r, l)

\* A pair that is recorded was open on both sides at one moment of the call,
\* unless a reconciliation was undone meanwhile: the statement lines and the
\* candidates are read apart, and it is the second build that ties them
\* (validate_current_state).
PairOpenTogether ==
    outcome = "recorded" /\ ~undone =>
        \A s \in DOMAIN proposal :
            proposal[s].line # Absent => <<s, proposal[s].line>> \in together

----------------------------------------------------------------------------
\* The invariants behind them.

BankTypeOK ==
    /\ statement \in [StatementIds -> StatementData] /\ line \in [Lines -> LineData]
    /\ request \in Requests
    /\ closed \subseteq StatementIds
    /\ status \in [Lines -> {"draft", "open", "reconciled"}]
    /\ phase \in {"prepare", "validate", "persist", "done", "failed"}
    /\ stage \in {"statements", "selection", "lines", "decide"}
    /\ outcome = "recorded" => phase = "done"
    /\ read \in [statements : SUBSET StatementIds, closed : SUBSET StatementIds, lines : SUBSET Lines]

\* What is known of a selection once it is checked.
SelectionInv ==
    /\ stage \in {"lines", "decide"} /\ request.tool # "flag"
          => request.ids \subseteq read.statements \ read.closed
    /\ phase = "validate" => request.tool # "flag" /\ DOMAIN proposal = request.ids

\* The proposed pairs of the statement lines S were open together.
PairsTogether(S) ==
    \A s \in DOMAIN proposal \cap S :
        proposal[s].line # Absent => <<s, proposal[s].line>> \in together

\* A statement line that is still open was open when the candidates, and the
\* pairs of the first build, were.
TogetherInv ==
    /\ OpenStatements \X OpenLines \subseteq together
    /\ ~undone =>
         /\ \A s \in OpenStatements, l \in read.lines : <<s, l>> \in together
         /\ phase = "validate" => PairsTogether(OpenStatements)
         /\ phase = "validate" /\ (stage # "statements" \/ cursor # 0)
               => PairsTogether(read.statements \ read.closed)
         /\ phase = "persist" \/ outcome = "recorded" => PairsTogether(DOMAIN proposal)

FinishedInv == Finished => phase \in {"persist", "done"}

BankInv == /\ BankTypeOK /\ SelectionInv /\ TogetherInv /\ FinishedInv
           /\ MatchesJustified /\ PairOpenTogether
=============================================================================
