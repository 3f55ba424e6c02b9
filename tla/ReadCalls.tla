----------------------------- MODULE ReadCalls ------------------------------
(***************************************************************************)
(* One call of a reading tool: accounting_report and its twin for invalid  *)
(* input, capabilities_tool (mcp/server.py), and run and invalid_request   *)
(* of mcp/payroll.py.                                                      *)
(*                                                                         *)
(* Every await may raise, and the caller may cancel the call while it      *)
(* waits; storage may fail, also after it has committed.  What the         *)
(* operation reads is the subject of LedgerReports, RateHistory and        *)
(* PayrollEvidence.                                                        *)
(***************************************************************************)
EXTENDS Naturals, FiniteSets

CONSTANTS
    Kinds,       \* "capabilities", "accounting", "payroll", "invalid"
    MaxCancels   \* bound on the cancellations of the call

ReadCallsAssumption == Kinds \subseteq {"capabilities", "accounting", "payroll", "invalid"}

VARIABLES
    kind,
    permitted,   \* the permission, the company and the capability are granted
    pc,
    binding,     \* the caller has been resolved
    adapter,     \* "none", "open", "closed", or "broken" when closing raised
    answer,      \* "none", "ok", "error", or "cancelled"
    rows,        \* audit rows of the request
    artifact,    \* an artifact is stored for it
    cancels,
    lost         \* history: the records whose transaction raised

vars == <<kind, permitted, pc, binding, adapter, answer, rows, artifact, cancels, lost>>

\* Where the call waits for Odoo or for the connection.
Awaits == {"resolve", "open", "companies", "capabilities", "operate", "close", "failed_close",
           "cancelled_close"}

Init ==
    /\ kind \in Kinds
    /\ permitted \in [permission : BOOLEAN, company : BOOLEAN, capability : BOOLEAN]
    /\ pc = "resolve"
    /\ binding = FALSE
    /\ adapter = "none"
    /\ answer = "none"
    /\ rows = {}
    /\ artifact = FALSE
    /\ cancels = 0
    /\ lost = {}

Goto(here, there) == pc = here /\ pc' = there

\* The except clauses: close what is open, record the failure.
Raised == IF adapter = "open" THEN "failed_close" ELSE "failed_record"

Denied(here, granted) ==
    /\ pc = here /\ ~granted
    /\ pc' = Raised
    /\ UNCHANGED <<kind, permitted, binding, adapter, answer, rows, artifact, cancels, lost>>

\* resolver.resolve().
Resolve ==
    /\ Goto("resolve", "permission")
    /\ binding' = TRUE
    /\ UNCHANGED <<kind, permitted, adapter, answer, rows, artifact, cancels, lost>>

\* The checks that need no Odoo; the discovery tool has no company, and
\* invalid input ends here.
CheckPermission ==
    /\ permitted.permission
    /\ Goto("permission", IF kind = "capabilities" THEN "open" ELSE "company")
    /\ UNCHANGED <<kind, permitted, binding, adapter, answer, rows, artifact, cancels, lost>>

CheckCompany ==
    /\ permitted.company
    /\ Goto("company", IF kind = "invalid" THEN "failed_record" ELSE "open")
    /\ UNCHANGED <<kind, permitted, binding, adapter, answer, rows, artifact, cancels, lost>>

\* adapter_factory.
OpenAdapter ==
    /\ Goto("open", IF kind = "capabilities" THEN "operate" ELSE "companies")
    /\ adapter' = "open"
    /\ UNCHANGED <<kind, permitted, binding, answer, rows, artifact, cancels, lost>>

ReadCompanies ==
    /\ Goto("companies", "capabilities")
    /\ UNCHANGED <<kind, permitted, binding, adapter, answer, rows, artifact, cancels, lost>>

ReadCapabilities ==
    /\ permitted.capability
    /\ Goto("capabilities", "operate")
    /\ UNCHANGED <<kind, permitted, binding, adapter, answer, rows, artifact, cancels, lost>>

\* The workflow.
Operate ==
    /\ Goto("operate", "close")
    /\ UNCHANGED <<kind, permitted, binding, adapter, answer, rows, artifact, cancels, lost>>

\* _close_adapter, and then the record; the discovery tool records nothing.
CloseAdapter ==
    /\ Goto("close", IF kind = "capabilities" THEN "done" ELSE "record")
    /\ adapter' = "closed"
    /\ answer' = IF kind = "capabilities" THEN "ok" ELSE answer
    /\ UNCHANGED <<kind, permitted, binding, rows, artifact, cancels, lost>>

\* Something on the way raises.  An adapter that fails to close stays set and
\* is closed once more, except by the discovery tool, which is at its end.
Raise ==
    /\ pc \in {"resolve", "open", "companies", "capabilities", "operate"}
    /\ pc' = Raised
    /\ UNCHANGED <<kind, permitted, binding, adapter, answer, rows, artifact, cancels, lost>>

CloseRaises ==
    /\ pc = "close"
    /\ IF kind = "capabilities"
       THEN pc' = "done" /\ adapter' = "broken" /\ answer' = "error"
       ELSE pc' = "failed_close" /\ UNCHANGED <<adapter, answer>>
    /\ UNCHANGED <<kind, permitted, binding, rows, artifact, cancels, lost>>

\* Mutant of RecordSuccess: the answer does not wait for the record.
RecordSuccessUnwatched ==
    /\ pc = "record"
    /\ pc' = "done"
    /\ answer' = "ok"
    /\ \/ rows' = rows \cup {"succeeded"} /\ artifact' = (kind = "accounting") /\ UNCHANGED lost
       \/ lost' = lost \cup {"succeeded"} /\ UNCHANGED <<rows, artifact>>
    /\ UNCHANGED <<kind, permitted, binding, adapter, cancels>>

\* reports.record_success: the audit row and the artifact in one transaction;
\* the payroll tools keep no artifact.  It may raise when nothing is stored,
\* and when all is and only the confirmation is lost.
RecordSuccess ==
    /\ pc = "record"
    /\ \/ UNCHANGED <<rows, artifact>>
       \/ rows' = rows \cup {"succeeded"} /\ artifact' = (kind = "accounting")
    /\ \/ "succeeded" \in rows' /\ pc' = "done" /\ answer' = "ok" /\ UNCHANGED lost
       \/ lost' = lost \cup {"succeeded"} /\ pc' = Raised /\ UNCHANGED answer
    /\ UNCHANGED <<kind, permitted, binding, adapter, cancels>>

\* Mutant of FailedClose: what was never closed is left to the collector.
FailedCloseSkipped ==
    /\ pc = "failed_close"
    /\ pc' = "failed_record"
    /\ UNCHANGED <<kind, permitted, binding, adapter, answer, rows, artifact, cancels, lost>>

\* The adapter is closed after a failure, which may fail too.
FailedClose ==
    /\ pc \in {"failed_close", "cancelled_close"}
    /\ adapter' \in {"closed", "broken"}
    /\ pc' = IF pc = "failed_close" THEN "failed_record" ELSE "cancelled_record"
    /\ UNCHANGED <<kind, permitted, binding, answer, rows, artifact, cancels, lost>>

Outcome(here) == IF here = "cancelled_record" THEN "cancelled" ELSE "error"

\* Mutant of RecordFailure: only a call that reached Odoo is recorded.
RecordFailureOpened ==
    /\ pc \in {"failed_record", "cancelled_record"}
    /\ \/ /\ rows' = IF adapter # "none" /\ kind # "capabilities" THEN rows \cup {"failed"} ELSE rows
          /\ UNCHANGED lost
       \/ /\ lost' = lost \cup {"failed"}
          /\ UNCHANGED rows
    /\ pc' = "done"
    /\ answer' = Outcome(pc)
    /\ UNCHANGED <<kind, permitted, binding, adapter, artifact, cancels>>

\* storage.audit.append for a caller that is known; a failure of it, with or
\* without the row stored, is only logged.
RecordFailure ==
    /\ pc \in {"failed_record", "cancelled_record"}
    /\ IF binding /\ kind # "capabilities"
       THEN /\ rows' \in {rows, rows \cup {"failed"}}
            /\ \/ "failed" \in rows' /\ UNCHANGED lost
               \/ lost' = lost \cup {"failed"}
       ELSE UNCHANGED <<rows, lost>>
    /\ pc' = "done"
    /\ answer' = Outcome(pc)
    /\ UNCHANGED <<kind, permitted, binding, adapter, artifact, cancels>>

\* Mutant of Cancel: no except clause for it in the payroll tools either.
CancelUncaught ==
    /\ pc \in Awaits
    /\ cancels < MaxCancels
    /\ cancels' = cancels + 1
    /\ pc' = "done" /\ answer' = "cancelled"
    /\ adapter' = IF adapter = "open" THEN "closed" ELSE adapter
    /\ UNCHANGED <<kind, permitted, binding, rows, artifact, lost>>

\* CancelledError is no Exception: only run of mcp/payroll.py catches it, and
\* only within its try.
Cancel ==
    /\ pc \in Awaits
    /\ cancels < MaxCancels
    /\ cancels' = cancels + 1
    /\ \/ /\ kind = "payroll" /\ pc \notin {"failed_close", "cancelled_close"}
          /\ pc' = IF adapter = "open" THEN "cancelled_close" ELSE "cancelled_record"
          /\ UNCHANGED <<answer, adapter>>
       \/ /\ kind # "payroll" \/ pc = "failed_close"
          /\ pc' = "done" /\ answer' = "cancelled"
          /\ UNCHANGED adapter
       \/ /\ pc = "cancelled_close"   \* the shielded close goes on alone
          /\ pc' = "done" /\ answer' = "cancelled" /\ adapter' = "closed"
    /\ UNCHANGED <<kind, permitted, binding, rows, artifact, lost>>

Step ==
    \/ Resolve \/ CheckPermission \/ CheckCompany \/ OpenAdapter \/ ReadCompanies
    \/ ReadCapabilities \/ Operate \/ CloseAdapter \/ RecordSuccess \/ FailedClose \/ RecordFailure
    \/ Denied("permission", permitted.permission)
    \/ Denied("company", permitted.company)
    \/ Denied("capabilities", permitted.capability)

Next == Step \/ Raise \/ CloseRaises \/ Cancel

Spec == Init /\ [][Next]_vars /\ WF_vars(Step)

----------------------------------------------------------------------------
\* README: "reports atomically persist their Markdown artifact and a compact
\* audit outcome".  A result is given only when its audit row is committed, and
\* its artifact with it; an error stands beside a success on record only when
\* its confirmation was lost, and then the error is on record too, unless
\* storage fails once more.
AnswerOnRecord ==
    pc = "done" /\ kind # "capabilities" =>
        /\ answer = "ok" => rows = {"succeeded"}
        /\ artifact <=> kind = "accounting" /\ "succeeded" \in rows
        /\ answer # "ok" /\ "succeeded" \in rows =>
              "succeeded" \in lost /\ ("failed" \in rows \/ "failed" \in lost)

\* README: "failed and denied report calls persist a secret-safe failure audit
\* when an authenticated tenant context exists".  Wherever the call failed,
\* unless storing just that failed, or the caller went away.
FailureOnRecord ==
    pc = "done" /\ answer = "error" /\ binding /\ kind # "capabilities" =>
        /\ "failed" \in rows \cup lost
        /\ lost = {} => rows = {"failed"}

\* A payroll call that is cancelled once, wherever it waits within the try, is
\* closed and recorded as failed (except asyncio.CancelledError); a
\* cancellation while a failed call is being closed is not.
CancelledOnRecord ==
    pc = "done" /\ kind = "payroll" /\ answer = "cancelled" /\ cancels = 1 /\ binding
        => \/ "failed" \in rows \cup lost /\ "succeeded" \notin rows
           \/ adapter = "open"

\* No connection to Odoo is left open by a call that was not cancelled.
NothingLeftOpen == pc = "done" /\ cancels = 0 => adapter # "open"

\* What became of a call is on record (accounting_report, run).
OnRecord == AnswerOnRecord /\ FailureOnRecord /\ CancelledOnRecord /\ NothingLeftOpen

----------------------------------------------------------------------------
\* What makes OnRecord inductive.

\* Where an adapter can be open.
Opened == {"companies", "capabilities", "operate", "close", "failed_close", "cancelled_close"}

\* Where the caller has been resolved.
Resolved == Opened \cup {"permission", "company", "open", "record"}

\* Before the end nothing is answered, and nothing recorded but a success whose
\* confirmation was lost, which cannot be cancelled any more; an open adapter
\* is closed on every way there but the cancelled ones.
OpenInv ==
    /\ cancels \in Nat
    /\ pc # "done" => /\ answer = "none"
                      /\ rows \subseteq {"succeeded"} /\ lost \subseteq {"succeeded"}
                      /\ artifact <=> kind = "accounting" /\ "succeeded" \in rows
                      /\ rows # {} => lost # {}
                      /\ lost # {} => pc = "failed_record" /\ kind # "capabilities" /\ binding
    /\ pc \in Resolved => binding
    /\ adapter = "open" => pc \in Opened \/ (pc = "done" /\ cancels # 0)
    /\ pc \in Opened => adapter = "open"
    /\ pc = "record" => kind # "capabilities"
    /\ pc \in {"cancelled_close", "cancelled_record"} => cancels # 0

CallInv == OpenInv /\ AnswerOnRecord /\ FailureOnRecord /\ CancelledOnRecord
=============================================================================
