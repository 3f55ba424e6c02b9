-------------------------- MODULE AccountingReads ---------------------------
(***************************************************************************)
(* The accounting tools that read: LedgerReports, BankMatching and         *)
(* RateHistory answer one call each, so that a behaviour is one of one of  *)
(* them.  The variables all of them have are the call's; those of the      *)
(* other two are at rest.                                                  *)
(***************************************************************************)
EXTENDS Integers, Sequences

CONSTANTS
    \* LedgerReports
    LedgerLines, AccountTypes, Partials, ReportRequests,
    LedgerPage, LedgerRecords, ReportLimit, Precision, LedgerChanges,
    \* BankMatching: what both have, and what each has
    JournalCurrency, Increment, CompanyCurrency, BankRecords,
    Statements, Items, SomeStatements, SomeItems, MatchRequests, MatchPage,
    RaceStatements, RaceItems, RaceStatementData, RaceItemData, RaceRequests, RacePage,
    RaceChanges,
    \* RateHistory
    Rate, RateRequests, Foreign, RateLimit, RatePage, RateRecords, RateChanges

VARIABLES
    part,                                                    \* the part that runs
    request, stage, cursor, changes, moments,                \* of the call
    posted, applied, rows, report, shown, session,           \* LedgerReports
    statement, line, closed, status, phase, read, proposal,
    outcome, together, undone,                               \* BankMatching
    rates, lastRate, companyCurrency, token, company, seen, answer, given,
    follows                                                  \* RateHistory

callVars == <<request, stage, cursor, changes, moments>>
ledgerVars == <<posted, applied, rows, report, shown, session>>
bankVars == <<statement, line, closed, status, phase, read, proposal, outcome, together, undone>>
rateVars == <<rates, lastRate, companyCurrency, token, company, seen, answer, given, follows>>
allVars == <<part, callVars, ledgerVars, bankVars, rateVars>>

AtRest == "at rest"

----------------------------------------------------------------------------
Ledger == INSTANCE LedgerReports WITH
    Line <- LedgerLines, Type <- AccountTypes, Partial <- Partials,
    Requests <- ReportRequests, PageSize <- LedgerPage, MaxRecords <- LedgerRecords,
    Limit <- ReportLimit, Increment <- Precision, MaxChanges <- LedgerChanges

\* Every choice of statement lines and candidates, and nobody else about.
Matching == INSTANCE BankMatching WITH
    StatementIds <- Statements, Lines <- Items,
    StatementData <- SomeStatements, LineData <- SomeItems, Requests <- MatchRequests,
    PageSize <- MatchPage, MaxRecords <- BankRecords, MaxChanges <- 0

\* Users post, reconcile and undo while a proposal is made and recorded.
Racing == INSTANCE BankMatching WITH
    StatementIds <- RaceStatements, Lines <- RaceItems,
    StatementData <- RaceStatementData, LineData <- RaceItemData, Requests <- RaceRequests,
    PageSize <- RacePage, MaxRecords <- BankRecords, MaxChanges <- RaceChanges

History == INSTANCE RateHistory WITH
    Requests <- RateRequests, Limit <- RateLimit, PageSize <- RatePage,
    MaxRecords <- RateRecords, MaxChanges <- RateChanges

ASSUME AccountingReadsAssumption ==
    /\ Ledger!LedgerReportsAssumption /\ History!RateHistoryAssumption
    /\ Matching!BankMatchingAssumption /\ Racing!BankMatchingAssumption

----------------------------------------------------------------------------
LedgerAtRest == /\ posted = AtRest /\ applied = AtRest /\ rows = AtRest
                /\ report = AtRest /\ shown = AtRest /\ session = AtRest

BankAtRest == /\ statement = AtRest /\ line = AtRest /\ closed = AtRest /\ status = AtRest
              /\ phase = AtRest /\ read = AtRest /\ proposal = AtRest /\ outcome = AtRest
              /\ together = AtRest /\ undone = AtRest

RatesAtRest == /\ rates = AtRest /\ lastRate = AtRest /\ companyCurrency = AtRest
               /\ token = AtRest /\ company = AtRest /\ seen = AtRest /\ answer = AtRest
               /\ given = AtRest /\ follows = AtRest

AllInit ==
    \/ part = "ledger" /\ Ledger!Init /\ BankAtRest /\ RatesAtRest
    \/ part = "matching" /\ Matching!Init /\ moments = AtRest /\ LedgerAtRest /\ RatesAtRest
    \/ part = "racing" /\ Racing!Init /\ moments = AtRest /\ LedgerAtRest /\ RatesAtRest
    \/ part = "rates" /\ History!Init /\ LedgerAtRest /\ BankAtRest

LedgerNext == /\ part = "ledger" /\ Ledger!Next
              /\ UNCHANGED <<part, bankVars, rateVars>>

BankNext == /\ \/ part = "matching" /\ Matching!Next
               \/ part = "racing" /\ Racing!Next
            /\ UNCHANGED <<part, moments, ledgerVars, rateVars>>

RatesNext == /\ part = "rates" /\ History!Next
             /\ UNCHANGED <<part, ledgerVars, bankVars>>

AllNext == LedgerNext \/ BankNext \/ RatesNext

AllSpec == AllInit /\ [][AllNext]_allVars

----------------------------------------------------------------------------
\* The properties of the parts; what each says in full is where it is defined.

\* A report that nothing happened to while it was read says what the ledger
\* says, and the profit and loss agrees with the unclosed earnings of the
\* balance sheet (reports.py, cashbook.py, invoicing.py, journals.py).
QuietReportExact == part = "ledger" => Ledger!QuietReportExact /\ Ledger!EarningsAgree

\* A whole-company report read while one move was posted shows the move by
\* none or all of its lines, or by a tail of them that is in balance (the
\* full-company checks of reports.py).
PostingSeenBalanced == part = "ledger" => Ledger!PostingSeenBalanced

\* A client that follows the cursors while nothing changes gets every row of a
\* report, or of the history of one request, once and in order (_page of
\* reports.py; _cursor and _offset of currency_rates.py).
PagesCover ==
    /\ part = "ledger" => Ledger!PagesCover
    /\ part = "rates" => History!PagesOfOneHistory

\* A statement line is matched exactly with its one best counterpart, if that
\* is good enough and no other line's (_decisions, _candidate).
MatchesJustified == part = "matching" => Matching!MatchesJustified

\* What was read in several calls was so at one moment of the call: a recorded
\* pair was open on both sides (validate_current_state), and the rates
\* answered held together (get_currency_rate_history).
OfOneMoment ==
    /\ part = "racing" => Racing!PairOpenTogether
    /\ part = "rates" => History!HistoryOfAMoment
=============================================================================
