---------------------------- MODULE PayrollReads ----------------------------
(***************************************************************************)
(* The payroll tools that read: PayrollEvidence, PayrollContext and        *)
(* PayrollAnalysis.  A behaviour is one of one of them.  The variables     *)
(* they share are the call's; those of the other parts are at rest.        *)
(***************************************************************************)
EXTENDS Integers, Sequences

CONSTANTS
    PageRows, MaxWrites,                                     \* of every tool
    Slips, Periods, Currencies, States, Category,
    EvidenceRequests, Payrolls, Chunk, MaxLines, MaxTime,    \* PayrollEvidence
    Employees, FirstDay, LastDay,
    ContextRequests, Histories, NewContracts,                \* PayrollContext
    RuleInfo, AnalysisTools, Threshold, MinHistory,
    AnalysisLines, Comparisons                               \* PayrollAnalysis

VARIABLES
    part,                                                    \* the part that runs
    request, place, pc, got, answer, listed, joined, basis, stirred, writes,   \* of the call
    run, slip, line, input, types, now, lastLine, chunks, blurred,   \* PayrollEvidence
    version, name, contracts, entries,                       \* PayrollContext
    months, tool                                            \* PayrollAnalysis

callVars == <<request, place, pc, got, answer, listed, joined, basis, stirred, writes>>
evidenceVars == <<run, slip, line, input, types, now, lastLine, chunks, blurred>>
contextVars == <<version, name, contracts, entries>>
analysisVars == <<months, tool>>
allVars == <<part, callVars, evidenceVars, contextVars, analysisVars>>

AtRest == "at rest"

----------------------------------------------------------------------------
Evidence == INSTANCE PayrollEvidence WITH
    cursor <- place, Requests <- EvidenceRequests, InitialSource <- Payrolls, Limit <- PageRows

Context == INSTANCE PayrollContext WITH
    cursor <- place, Requests <- ContextRequests, InitialSource <- Histories, Limit <- PageRows

Analysis == INSTANCE PayrollAnalysis WITH
    source <- months, Tools <- AnalysisTools, MaxLines <- AnalysisLines,
    InitialSource <- Comparisons

ASSUME PayrollReadsAssumption ==
    /\ Evidence!PayrollEvidenceAssumption /\ Context!PayrollContextAssumption
    /\ Analysis!PayrollAnalysisAssumption

----------------------------------------------------------------------------
CallAtRest ==
    /\ pc = AtRest /\ got = AtRest /\ answer = AtRest /\ stirred = AtRest /\ writes = AtRest

PagingAtRest ==
    request = AtRest /\ place = AtRest /\ listed = AtRest /\ joined = AtRest /\ basis = AtRest

EvidenceAtRest ==
    /\ run = AtRest /\ slip = AtRest /\ line = AtRest /\ input = AtRest /\ types = AtRest
    /\ now = AtRest /\ lastLine = AtRest /\ chunks = AtRest /\ blurred = AtRest

ContextAtRest == version = AtRest /\ name = AtRest /\ contracts = AtRest /\ entries = AtRest

AnalysisAtRest == months = AtRest /\ tool = AtRest

AllInit ==
    \/ /\ part = "evidence" /\ Evidence!Init
       /\ ContextAtRest /\ AnalysisAtRest
    \/ /\ part = "context" /\ Context!Init
       /\ EvidenceAtRest /\ AnalysisAtRest
    \/ /\ part = "analysis" /\ Analysis!Init
       /\ PagingAtRest /\ EvidenceAtRest /\ ContextAtRest

EvidenceNext ==
    /\ part = "evidence" /\ Evidence!Next
    /\ UNCHANGED <<part, contextVars, analysisVars>>

ContextNext ==
    /\ part = "context" /\ Context!Next
    /\ UNCHANGED <<part, evidenceVars, analysisVars>>

AnalysisNext ==
    /\ part = "analysis" /\ Analysis!Next
    /\ UNCHANGED <<part, request, place, listed, joined, basis, evidenceVars,
                   contextVars>>

AllNext == EvidenceNext \/ ContextNext \/ AnalysisNext

AllSpec == AllInit /\ [][AllNext]_allVars

----------------------------------------------------------------------------
\* The properties of the parts; what each says in full is where it is defined.

\* The pages a client puts together, of a list or of an attendance summary, are
\* the pages of one list; only two writes of a row within one second escape
\* the fingerprint (evidence.py).
PagesOfOneSnapshot ==
    /\ part = "evidence" => Evidence!PagesOfOneSnapshot
    /\ part = "context" => Context!AttendanceOfOneMoment

\* A call nobody disturbed tells Odoo as it is: payslips, inputs and totals
\* (evidence.py), and day by day the contract in force (reader.py).
QuietAnswerExact ==
    /\ part = "evidence" => Evidence!QuietAnswerExact
    /\ part = "context" => Context!ContractOfTheDay

\* An undisturbed call is refused only for what Odoo holds (evidence.py,
\* reader.py).
NoFalseRefusal ==
    /\ part = "evidence" => Evidence!NoFalseRefusal
    /\ part = "context" => Context!NoFalseRefusal

\* Whatever users do meanwhile: the totals by payslip, by rule and by category
\* come to the same sums in every currency (analysis.py), and no currency is
\* totalled that no payslip shows (evidence.py).
TotalsAgree ==
    /\ part = "evidence" => Evidence!TotalsOfListed
    /\ part = "analysis" => Analysis!TotalsAgree

\* What the analyses report is what moved: an employee not listed is unchanged,
\* a line that moved by the threshold or more is found exactly once, and a
\* statistical deviation is one (analysis.py).
ChangesFound ==
    part = "analysis" =>
        Analysis!UnchangedIsUnchanged /\ Analysis!EveryMoveFoundOnce /\ Analysis!DeviationJustified

\* What the proofs rest on.
EvidenceInv ==
    part = "evidence" => /\ Evidence!SourceInv /\ Evidence!StageInv /\ Evidence!QuietInv
                         /\ Evidence!PagesInv

ContextInv == part = "context" => Context!SourceInv /\ Context!QuietInv /\ Context!PagesInv
=============================================================================
