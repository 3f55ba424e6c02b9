---------------------------- MODULE WriteSafety ----------------------------
(***************************************************************************)
(* The write boundary of the server: WriteSafetyCoordinator.run            *)
(* (policy/write_safety.py) over the execution journal                     *)
(* (storage/execution.py) and the idempotency table                        *)
(* (storage/repositories.py), called by the accounting write wrapper       *)
(* (mcp/server.py) or the payroll one (mcp/payroll_writes.py).             *)
(*                                                                         *)
(* A request is a coroutine.  Between two awaits it runs alone, so each    *)
(* action is the code from one await to the next; every storage call is    *)
(* one database transaction and may commit, roll back, or commit without   *)
(* the caller learning of it.  The Odoo mutation is a message: it lands    *)
(* or is refused on its own, also after the caller timed out, was          *)
(* cancelled or crashed.                                                   *)
(***************************************************************************)
EXTENDS Naturals, Sequences

CONSTANTS
    Requests,          \* request identifiers, each used by one call
    Keys,              \* idempotency keys within one tenant and tool
    Companies,         \* company identifiers a caller may name
    Payloads,          \* canonical business payloads
    AllowedCompanies,  \* companies of the resolved connection
    Commands,          \* the calls clients make (a subset of Command)
    Adapter,           \* "accounting" or "payroll": who classifies failures
    TTL,               \* IdempotencyRepository._TTL, in ticks of the clock
    MaxClock,          \* bound on the clock
    NoKey, NoRequest, NoTime   \* None

ASSUME WriteSafetyAssumption ==
    /\ NoRequest \notin Requests
    /\ NoKey \notin Keys
    /\ NoTime \notin Nat
    /\ Commands # {}
    /\ AllowedCompanies \subseteq Companies
    /\ Adapter \in {"accounting", "payroll"}
    /\ TTL \in Nat
    /\ MaxClock \in Nat

VARIABLES
    clock,       \* utc_now()
    pc,          \* where each request is suspended
    cmd,         \* the WriteCommand and binding of each request
    row,         \* idempotency_keys, one row or none per key
    audit,       \* final_status of the audit rows of each request, in order
    rpc,         \* what became of the mutating Odoo call of each request
    reply,       \* the WriteSafetyResponse each client received
    reservedAt   \* history: when each request reserved its key

vars == <<clock, pc, cmd, row, audit, rpc, reply, reservedAt>>

----------------------------------------------------------------------------
\* Data.

Command == [company : Companies, payload : Payloads, key : Keys \cup {NoKey},
            dry_run : BOOLEAN, reserved_field : BOOLEAN,
            permitted : BOOLEAN, capable : BOOLEAN]

ASSUME CommandsAssumption == Commands \subseteq Command

Stages == {"idle", "resolving", "received", "previewing", "preparing",
           "validating", "executing", "mutating", "reading_back", "done"}

\* Stages in which the request holds a reservation that it has not finished.
Holding == {"preparing", "validating", "executing", "mutating", "reading_back"}

Reply == [status  : {"none", "preview", "needs_input", "failed", "succeeded"},
          outcome : {"not_attempted", "known", "unknown"},
          error   : {"none", "refused", "before_write", "odoo", "recovery"},
          by      : Requests \cup {NoRequest}]

NoReply == [status |-> "none", outcome |-> "not_attempted", error |-> "none",
            by |-> NoRequest]

RowState == {"absent", "in_progress", "succeeded", "failed", "unknown"}

\* IdempotencyRepository._request_hash binds the company to the payload.
RequestHash(c) == <<c.company, c.payload>>

Row == [state : RowState, owner : Requests \cup {NoRequest},
        hash : Companies \X Payloads, expires : Nat, response : Reply]

AuditStatus == {"rejected", "previewed", "needs_input", "failed", "attempted",
                "conflicted", "replayed", "succeeded", "unknown"}

\* How a transaction ends for its caller: "unacknowledged" is a commit whose
\* confirmation is lost, which the caller sees as an exception.
TxnOutcome == {"committed", "rolled_back", "unacknowledged"}

Durable(txn) == txn # "rolled_back"

----------------------------------------------------------------------------
\* Responses.

\* A response without error fields.
Response(r, status, outcome) ==
    [status |-> status, outcome |-> outcome, error |-> "none", by |-> r]

\* _failure: "refused" stands for the gates and conflicts, "odoo" for an error
\* the adapter reported, "before_write" for _unexpected_pre_write_error ("The
\* write request failed before Odoo was changed."), "recovery" for the advice
\* to recover the request.
Failure(r, error, outcome) ==
    [status |-> "failed", outcome |-> outcome, error |-> error, by |-> r]

NotAttempted(r, error) == Failure(r, error, "not_attempted")
UnknownOutcome(r) == Failure(r, "recovery", "unknown")

\* _gate_error: the first gate that refuses the call.
GateError(c) ==
    \/ c.reserved_field
    \/ ~c.permitted
    \/ c.company \notin AllowedCompanies
    \/ ~c.capable

\* The statuses of _event that name the outcome of an attempt.
StatusOf(state, response) ==
    IF response.status = "needs_input" THEN "needs_input" ELSE state

----------------------------------------------------------------------------
\* Storage.

Logged(r, status) == [audit EXCEPT ![r] = Append(@, status)]

Finished(r, response) ==
    /\ pc' = [pc EXCEPT ![r] = "done"]
    /\ reply' = [reply EXCEPT ![r] = response]

\* _append_or_fail: the response leaves only if its audit row is known stored.
\* The failure in its place bears the request_id of the response.
AppendOrFail(r, status, response) ==
    \E txn \in TxnOutcome :
        /\ audit' = IF Durable(txn) THEN Logged(r, status) ELSE audit
        /\ Finished(r, IF txn = "committed" THEN response
                                            ELSE NotAttempted(response.by, "before_write"))

\* Mutants of Free: a settled row is free before it expires; an unknown outcome
\* expires too.
FreeOnceSettled(k) == row[k].state \in {"absent", "succeeded", "failed"}
FreeIfUnknown(k) ==
    \/ row[k].state = "absent"
    \/ row[k].state # "in_progress" /\ row[k].expires <= clock

\* reserve_in_transaction: a row that is absent, or final and known and past
\* its expiry, is free; in_progress and unknown rows never expire.
Free(k) ==
    \/ row[k].state = "absent"
    \/ row[k].state \in {"succeeded", "failed"} /\ row[k].expires <= clock

\* Mutant of NewRow: owner_request_id and idempotency_key in swapped order.
NewRowSwapped(r) ==
    [state |-> "in_progress", owner |-> cmd[r].key, hash |-> RequestHash(cmd[r]),
     expires |-> clock + TTL, response |-> NoReply]

NewRow(r) == [state |-> "in_progress", owner |-> r, hash |-> RequestHash(cmd[r]),
              expires |-> clock + TTL, response |-> NoReply]

\* The WHERE clause of finish_in_transaction.
OwnsReservation(r) ==
    LET k == cmd[r].key IN
    /\ row[k].owner = r
    /\ row[k].state = "in_progress"
    /\ row[k].hash[1] = cmd[r].company

\* The UPDATE of finish_in_transaction.
Closed(k, state, response) == [row[k] EXCEPT !.state = state, !.response = response]

\* Mutant of StoreOutcome: the audit event outside the row's transaction.
StoreOutcomeSplit(r, state, response, txn) ==
    /\ row' = [row EXCEPT ![cmd[r].key] = Closed(cmd[r].key, state, response)]
    /\ audit' = IF Durable(txn) THEN Logged(r, StatusOf(state, response)) ELSE audit

\* ExecutionJournal.finish: row and audit event in one transaction.
StoreOutcome(r, state, response, txn) ==
    IF OwnsReservation(r) /\ Durable(txn)
      THEN /\ row' = [row EXCEPT ![cmd[r].key] = Closed(cmd[r].key, state, response)]
           /\ audit' = Logged(r, StatusOf(state, response))
      ELSE UNCHANGED <<row, audit>>

\* The client of a call whose transaction did not confirm gets "fallback".
FinishAfterAttempt(r, state, response, fallback) ==
    \E txn \in TxnOutcome :
        /\ StoreOutcome(r, state, response, txn)
        /\ Finished(r, IF OwnsReservation(r) /\ txn = "committed"
                         THEN response ELSE fallback)

----------------------------------------------------------------------------
Init ==
    /\ clock = 0
    /\ pc = [r \in Requests |-> "idle"]
    /\ cmd = [r \in Requests |-> CHOOSE c \in Commands : TRUE]
    /\ row = [k \in Keys |->
                [state |-> "absent", owner |-> NoRequest, expires |-> 0,
                 hash |-> RequestHash(CHOOSE c \in Commands : TRUE),
                 response |-> NoReply]]
    /\ audit = [r \in Requests |-> <<>>]
    /\ rpc = [r \in Requests |-> "none"]
    /\ reply = [r \in Requests |-> NoReply]
    /\ reservedAt = [r \in Requests |-> NoTime]

At(r, stage) == pc[r] = stage
Goto(r, stage) == pc' = [pc EXCEPT ![r] = stage]

----------------------------------------------------------------------------
\* The tool wrapper, up to WriteSafetyCoordinator.run.

\* A client calls a write tool; the wrapper awaits its connection binding.
Receive(r, c) ==
    /\ At(r, "idle")
    /\ cmd' = [cmd EXCEPT ![r] = c]
    /\ Goto(r, "resolving")
    /\ UNCHANGED <<clock, row, audit, rpc, reply, reservedAt>>

\* Identity, permission, company, Odoo access and capabilities are all there.
Resolve(r) ==
    /\ At(r, "resolving")
    /\ cmd[r].permitted
    /\ cmd[r].company \in AllowedCompanies
    /\ Goto(r, "received")
    /\ UNCHANGED <<clock, cmd, row, audit, rpc, reply, reservedAt>>

\* One of them is not.  The failure is audited once the tenant is known, and a
\* failing audit append does not change the answer.
ResolveFails(r) ==
    /\ At(r, "resolving")
    /\ Finished(r, NotAttempted(r, "refused"))
    /\ audit' \in {audit, Logged(r, "failed")}
    /\ UNCHANGED <<clock, cmd, row, rpc, reservedAt>>

----------------------------------------------------------------------------
\* WriteSafetyCoordinator.run before the reservation.

\* preflight_error: another Payroll write holds the lock of the payslip, which
\* module PayrollWrites models; here it may be so at any time.
MayBeLocked(c) == Adapter = "payroll" /\ ~c.dry_run

RejectAtGate(r) ==
    /\ At(r, "received")
    /\ MayBeLocked(cmd[r]) \/ GateError(cmd[r])
    /\ AppendOrFail(r, "rejected", NotAttempted(r, "refused"))
    /\ UNCHANGED <<clock, cmd, row, rpc, reservedAt>>

PassesGate(r) == At(r, "received") /\ ~GateError(cmd[r])

StartPreview(r) ==
    /\ PassesGate(r)
    /\ cmd[r].dry_run
    /\ Goto(r, "previewing")
    /\ UNCHANGED <<clock, cmd, row, audit, rpc, reply, reservedAt>>

Preview(r) ==
    /\ At(r, "previewing")
    /\ \/ AppendOrFail(r, "previewed", Response(r, "preview", "not_attempted"))
       \/ AppendOrFail(r, "needs_input", Response(r, "needs_input", "not_attempted"))
       \/ \E error \in {"odoo", "before_write"} :
              AppendOrFail(r, "failed", NotAttempted(r, error))
    /\ UNCHANGED <<clock, cmd, row, rpc, reservedAt>>

RejectNotExplicit(r) ==
    /\ PassesGate(r)
    /\ ~cmd[r].dry_run
    /\ cmd[r].key = NoKey
    /\ AppendOrFail(r, "rejected", NotAttempted(r, "refused"))
    /\ UNCHANGED <<clock, cmd, row, rpc, reservedAt>>

----------------------------------------------------------------------------
\* ExecutionJournal.begin and its dispositions.

Executes(r) == PassesGate(r) /\ ~cmd[r].dry_run /\ cmd[r].key # NoKey

\* RESERVED: the row and the "attempted" audit event commit together.  If the
\* commit is not confirmed the call gives up and the row stays in progress.
Reserve(r) ==
    LET k == cmd[r].key IN
    /\ Executes(r)
    /\ Free(k)
    /\ row' = [row EXCEPT ![k] = NewRow(r)]
    /\ audit' = Logged(r, "attempted")
    /\ reservedAt' = [reservedAt EXCEPT ![r] = clock]
    /\ \/ Goto(r, "preparing") /\ UNCHANGED reply
       \/ Finished(r, NotAttempted(r, "before_write"))
    /\ UNCHANGED <<clock, cmd, rpc>>

\* begin raises and nothing is stored.
BeginFails(r) ==
    /\ Executes(r)
    /\ Finished(r, NotAttempted(r, "before_write"))
    /\ UNCHANGED <<clock, cmd, row, audit, rpc, reservedAt>>

\* IdempotencyPayloadMismatch, or the IN_PROGRESS disposition.
Conflict(r) ==
    LET k == cmd[r].key IN
    /\ Executes(r)
    /\ ~Free(k)
    /\ row[k].hash # RequestHash(cmd[r]) \/ row[k].state = "in_progress"
    /\ AppendOrFail(r, "conflicted", NotAttempted(r, "refused"))
    /\ UNCHANGED <<clock, cmd, row, rpc, reservedAt>>

\* REPLAY: the stored response is returned as it was, request_id included.
Replay(r) ==
    LET k == cmd[r].key IN
    /\ Executes(r)
    /\ ~Free(k)
    /\ row[k].hash = RequestHash(cmd[r])
    /\ row[k].state # "in_progress"
    /\ AppendOrFail(r, "replayed", row[k].response)
    /\ UNCHANGED <<clock, cmd, row, rpc, reservedAt>>

----------------------------------------------------------------------------
\* With the reservation held.

Prepare(r) ==
    /\ At(r, "preparing")
    /\ Goto(r, "validating")
    /\ UNCHANGED <<clock, cmd, row, audit, rpc, reply, reservedAt>>

PrepareNeedsInput(r) ==
    LET response == Response(r, "needs_input", "not_attempted") IN
    /\ At(r, "preparing")
    /\ FinishAfterAttempt(r, "failed", response, response)
    /\ UNCHANGED <<clock, cmd, rpc, reservedAt>>

ValidateCurrentState(r) ==
    /\ At(r, "validating")
    /\ Goto(r, "executing")
    /\ UNCHANGED <<clock, cmd, row, audit, rpc, reply, reservedAt>>

\* _finish_pre_write_failure after prepare() or validate_current_state() raised.
PreWriteFails(r) ==
    /\ pc[r] \in {"preparing", "validating"}
    /\ \E error \in {"odoo", "before_write"} :
          FinishAfterAttempt(r, "failed", NotAttempted(r, error), NotAttempted(r, error))
    /\ UNCHANGED <<clock, cmd, rpc, reservedAt>>

\* execute() passed its own checks and sends the mutating call.
SendMutation(r) ==
    /\ At(r, "executing")
    /\ Goto(r, "mutating")
    /\ rpc' = [rpc EXCEPT ![r] = "sent"]
    /\ UNCHANGED <<clock, cmd, row, audit, reply, reservedAt>>

\* Mutant of MutationReturns: a call without an answer counts as done.
MutationAssumed(r) ==
    /\ At(r, "mutating")
    /\ Goto(r, "reading_back")
    /\ UNCHANGED <<clock, cmd, row, audit, rpc, reply, reservedAt>>

MutationReturns(r) ==
    /\ At(r, "mutating")
    /\ rpc[r] = "applied"
    /\ Goto(r, "reading_back")
    /\ UNCHANGED <<clock, cmd, row, audit, rpc, reply, reservedAt>>

\* The read-back agrees: AppliedWrite.  A success that cannot be stored is
\* reported as unknown and its reservation stays in progress.
Succeed(r) ==
    /\ At(r, "reading_back")
    /\ FinishAfterAttempt(r, "succeeded", Response(r, "succeeded", "known"),
                          UnknownOutcome(r))
    /\ UNCHANGED <<clock, cmd, rpc, reservedAt>>

----------------------------------------------------------------------------
\* execute() raises.

\* Mutant of FailureCauses: the mutating call has no timeout.
FailureCausesNoTimeout(r) ==
    CASE pc[r] = "executing"    -> {"denied", "checkpoint", "error"}
      [] pc[r] = "mutating"     -> IF rpc[r] = "refused" THEN {"denied"} ELSE {}
      [] pc[r] = "reading_back" -> {"denied", "error"}
      [] OTHER                  -> {}

\* The causes execute() can raise for: Odoo denies permission, the payroll
\* checkpoint no longer matches, or anything else (timeouts included).
FailureCauses(r) ==
    CASE pc[r] = "executing"    -> {"denied", "checkpoint", "error"}
      [] pc[r] = "mutating"     -> IF rpc[r] = "refused" THEN {"denied", "error"}
                                                          ELSE {"error"}
      [] pc[r] = "reading_back" -> {"denied", "error"}
      [] OTHER                  -> {}

\* accounting_write.execute calls every permission denial a KnownWriteFailure.
AccountingKnownFailure(stage, cause) == cause = "denied"

\* Mutant of PayrollKnownFailure: a denied read-back counts as a rejection.
PayrollKnownAnyDenial(stage, cause) == cause \in {"checkpoint", "denied"}

\* The payroll adapter raises PayrollWriteRejected for a checkpoint conflict
\* and for a refusal of the mutating call itself.
PayrollKnownFailure(stage, cause) ==
    \/ stage = "executing" /\ cause = "checkpoint"
    \/ stage = "mutating" /\ cause = "denied"

IsKnownFailure(stage, cause) ==
    IF Adapter = "accounting" THEN AccountingKnownFailure(stage, cause)
                              ELSE PayrollKnownFailure(stage, cause)

KnownWriteFailure(r) ==
    LET response == Failure(r, "odoo", "known") IN
    /\ \E cause \in FailureCauses(r) : IsKnownFailure(pc[r], cause)
    /\ FinishAfterAttempt(r, "failed", response, response)
    /\ UNCHANGED <<clock, cmd, rpc, reservedAt>>

FinalizeUnknown(r) ==
    /\ \E cause \in FailureCauses(r) : ~IsKnownFailure(pc[r], cause)
    /\ FinishAfterAttempt(r, "unknown", UnknownOutcome(r), UnknownOutcome(r))
    /\ UNCHANGED <<clock, cmd, rpc, reservedAt>>

----------------------------------------------------------------------------
\* Cancellation, crashes, Odoo and time.

\* CancelledError before the reservation: a preview is still audited.
CancelEarly(r) ==
    /\ pc[r] \in {"resolving", "previewing"}
    /\ Finished(r, NoReply)
    /\ \/ UNCHANGED audit
       \/ At(r, "previewing") /\ audit' = Logged(r, "failed")
    /\ UNCHANGED <<clock, cmd, row, rpc, reservedAt>>

\* CancelledError while the reservation is held: the outcome is stored as for
\* a failure at that await, and the error propagates instead of a response.
CancelHolding(r) ==
    /\ pc[r] \in Holding
    /\ Finished(r, NoReply)
    /\ \E txn \in TxnOutcome :
          IF pc[r] \in {"preparing", "validating"}
            THEN StoreOutcome(r, "failed", NotAttempted(r, "before_write"), txn)
            ELSE StoreOutcome(r, "unknown", UnknownOutcome(r), txn)
    /\ UNCHANGED <<clock, cmd, rpc, reservedAt>>

\* The process that serves the request dies; what is stored stays stored.
Crash(r) ==
    /\ pc[r] \notin {"idle", "done"}
    /\ Finished(r, NoReply)
    /\ UNCHANGED <<clock, cmd, row, audit, rpc, reservedAt>>

\* Odoo works off a mutating call it received, whether or not anyone waits.
OdooApplies(r) ==
    /\ rpc[r] = "sent"
    /\ rpc' = [rpc EXCEPT ![r] = "applied"]
    /\ UNCHANGED <<clock, pc, cmd, row, audit, reply, reservedAt>>

OdooRefuses(r) ==
    /\ rpc[r] = "sent"
    /\ rpc' = [rpc EXCEPT ![r] = "refused"]
    /\ UNCHANGED <<clock, pc, cmd, row, audit, reply, reservedAt>>

Tick ==
    /\ clock < MaxClock
    /\ clock' = clock + 1
    /\ UNCHANGED <<pc, cmd, row, audit, rpc, reply, reservedAt>>

----------------------------------------------------------------------------
\* The steps a live server takes by itself: every await it is suspended at
\* ends, because the HTTP transports bound each Odoo call with a timeout.
Proceed(r) ==
    \/ Resolve(r) \/ ResolveFails(r)
    \/ RejectAtGate(r) \/ StartPreview(r) \/ Preview(r) \/ RejectNotExplicit(r)
    \/ Reserve(r) \/ BeginFails(r) \/ Conflict(r) \/ Replay(r)
    \/ Prepare(r) \/ PrepareNeedsInput(r) \/ ValidateCurrentState(r) \/ PreWriteFails(r)
    \/ SendMutation(r) \/ MutationReturns(r) \/ Succeed(r)
    \/ KnownWriteFailure(r) \/ FinalizeUnknown(r)

Next ==
    \/ \E r \in Requests :
          \/ \E c \in Commands : Receive(r, c)
          \/ Proceed(r)
          \/ CancelEarly(r) \/ CancelHolding(r) \/ Crash(r)
          \/ OdooApplies(r) \/ OdooRefuses(r)
    \/ Tick

Spec == Init /\ [][Next]_vars

FairSpec == Spec /\ \A r \in Requests : WF_vars(Proceed(r))

----------------------------------------------------------------------------
\* Properties.

\* Every variable of the coordinator and its tables keeps its type.
TypeOK ==
    /\ clock \in Nat
    /\ pc \in [Requests -> Stages]
    /\ cmd \in [Requests -> Commands]
    /\ row \in [Keys -> Row]
    /\ audit \in [Requests -> Seq(AuditStatus)]
    /\ rpc \in [Requests -> {"none", "sent", "applied", "refused"}]
    /\ reply \in [Requests -> Reply]
    /\ reservedAt \in [Requests -> Nat \cup {NoTime}]

Landed(r) == rpc[r] \in {"sent", "applied"}

Apart(t1, t2) == t1 + TTL <= t2 \/ t2 + TTL <= t1

\* README "An uncertain mutation is never automatically retried" and "24-hour
\* replay": two calls with one idempotency key both reach Odoo only if the
\* second reserved the key a full retention period after the first, whatever
\* crashed, was cancelled or failed to be stored in between.
AtMostOncePerRetention ==
    \A r1, r2 \in Requests :
        /\ r1 # r2
        /\ cmd[r1].key = cmd[r2].key
        /\ Landed(r1) /\ Landed(r2)
        => /\ reservedAt[r1] # NoTime /\ reservedAt[r2] # NoTime
           /\ Apart(reservedAt[r1], reservedAt[r2])

\* The answer r got denies that request reply[r].by was carried out, and does
\* not come from a replay that could not be audited: that one speaks of its own
\* call and names the owner's (_append_or_fail).
Denies(r) ==
    /\ reply[r].status = "failed"
    /\ reply[r].outcome # "unknown"
    /\ reply[r].by = r \/ reply[r].error # "before_write"

\* KnownWriteFailure "The adapter proved that Odoo rejected the mutation
\* without applying it": a reservation stored as failed, and a request a client
\* is told has failed, its own or the one replayed to it, is one whose mutation
\* neither was applied nor can still land.  What a replay answers that cannot
\* be audited is the matter of FailedBeforeOdooWasChanged.
FailureMeansNotApplied ==
    /\ \A k \in Keys : row[k].state = "failed" => ~Landed(row[k].owner)
    /\ \A r \in Requests : Denies(r) => ~Landed(reply[r].by)

\* _unexpected_pre_write_error tells a client "The write request failed before
\* Odoo was changed.": the request named in that answer is not one on record
\* as applied.
FailedBeforeOdooWasChanged ==
    \A r \in Requests, k \in Keys :
        reply[r].error = "before_write" =>
            ~(row[k].owner = reply[r].by /\ row[k].state = "succeeded")

\* A success, stored, returned or replayed, is one whose mutation was applied.
SuccessMeansApplied ==
    /\ \A k \in Keys : row[k].state = "succeeded" => rpc[row[k].owner] = "applied"
    /\ \A r \in Requests : reply[r].status = "succeeded" => rpc[reply[r].by] = "applied"

\* begin and finish commit the row and its audit event together: the audit
\* rows of the call that owns a reservation always tell the state of the row,
\* and no mutation is sent before its attempt is on record.
JournalMatchesAudit ==
    /\ \A k \in Keys :
          row[k].state # "absent" =>
             audit[row[k].owner] =
                IF row[k].state = "in_progress"
                  THEN <<"attempted">>
                  ELSE <<"attempted", StatusOf(row[k].state, row[k].response)>>
    /\ \A r \in Requests : rpc[r] # "none" => audit[r] # <<>> /\ audit[r][1] = "attempted"

\* "in-progress and unknown outcomes remain blocked for explicit recovery": no
\* step hands an unresolved reservation to another call, and none rewrites an
\* unknown outcome.
UnresolvedStaysBlocked ==
    [][\A k \in Keys :
          /\ row[k].state \in {"in_progress", "unknown"} => row'[k].owner = row[k].owner
          /\ row[k].state = "unknown" => row'[k] = row[k]]_vars

\* No call goes on working with a reservation it no longer owns: whoever
\* prepares, validates or mutates is the owner of an in-progress row.
HolderOwnsItsRow ==
    \A r \in Requests :
        pc[r] \in Holding => cmd[r].key \in Keys /\ OwnsReservation(r)

\* Stages before the reservation.
Early == {"idle", "resolving", "received", "previewing"}

\* The strengthening of AtMostOncePerRetention that is inductive: the row of a
\* key remembers its latest reservation, and all earlier ones of that key are a
\* retention period older.
ReservationInv ==
    /\ HolderOwnsItsRow
    /\ \A r \in Requests : pc[r] \in Early => reservedAt[r] = NoTime
    /\ \A r \in Requests : rpc[r] # "none" => reservedAt[r] # NoTime
    /\ \A k \in Keys :
          row[k].state # "absent" =>
             /\ row[k].owner \in Requests
             /\ cmd[row[k].owner].key = k
             /\ reservedAt[row[k].owner] # NoTime
             /\ row[k].expires = reservedAt[row[k].owner] + TTL
    /\ \A r \in Requests :
          reservedAt[r] # NoTime =>
             LET k == cmd[r].key IN
             /\ k \in Keys
             /\ row[k].state # "absent"
             /\ \/ row[k].owner = r
                \/ reservedAt[r] + TTL <= reservedAt[row[k].owner]
    /\ \A p, q \in Requests :
          /\ p # q
          /\ cmd[p].key = cmd[q].key
          /\ reservedAt[p] # NoTime /\ reservedAt[q] # NoTime
          => Apart(reservedAt[p], reservedAt[q])

\* The strengthening of JournalMatchesAudit that is inductive: a call that has
\* not reserved yet has no audit row, so its first one is "attempted".
JournalInv ==
    /\ \A r \in Requests : pc[r] \in Early => audit[r] = <<>>
    /\ JournalMatchesAudit

\* Stages before the mutating call is sent.
Unsent == Early \cup {"preparing", "validating", "executing"}

\* The request a response names is done, and was applied if it says so.
Named(response, stages, calls) ==
    /\ response.by \in Requests
    /\ stages[response.by] = "done"
    /\ response.status = "succeeded" => calls[response.by] = "applied"

\* What a response says is true of the mutating call of the request it names,
\* given the stages and the calls of all requests.
Truthful(response, stages, calls) ==
    /\ Named(response, stages, calls)
    /\ /\ response.status = "failed"
       /\ response.outcome # "unknown"
       /\ Adapter = "payroll"
       => calls[response.by] \in {"none", "refused"}

\* What r may be told: the truth, or that its replay of another call failed.
TruthfulTo(r, response, stages, calls) ==
    /\ Named(response, stages, calls)
    /\ response.by = r \/ response.error # "before_write" => Truthful(response, stages, calls)

\* The strengthening of FailureMeansNotApplied and SuccessMeansApplied that is
\* inductive: the stage of a request bounds what became of its call, a closed
\* row carries a truthful response of its owner, and a reply is truthful unless
\* it is the failure of somebody else's replay.
OutcomeInv ==
    /\ \A r \in Requests : pc[r] \in Unsent => rpc[r] = "none"
    /\ \A r \in Requests : pc[r] = "reading_back" => rpc[r] = "applied"
    /\ \A k \in Keys :
          row[k].state \in {"succeeded", "failed", "unknown"} =>
             /\ row[k].response.by = row[k].owner
             /\ Truthful(row[k].response, pc, rpc)
             /\ row[k].state = "succeeded" => row[k].response.status = "succeeded"
             /\ row[k].state = "failed" /\ Adapter = "payroll" =>
                   rpc[row[k].owner] \in {"none", "refused"}
    /\ \A r \in Requests : reply[r].status # "none" => TruthfulTo(r, reply[r], pc, rpc)

\* The refinement: the idempotency row is the claim, the mutating call the send.
Claimant == [k \in Keys |-> row[k].owner]

ClaimedAt == [k \in Keys |-> IF row[k].state = "absent" THEN 0 ELSE row[k].expires - TTL]

ClaimState(state) ==
    CASE state = "absent"      -> "none"
      [] state = "in_progress" -> "open"
      [] state = "unknown"     -> "blocked"
      [] OTHER                 -> "settled"

ClaimOf == [k \in Keys |-> ClaimState(row[k].state)]

Sent == {r \in Requests : rpc[r] # "none"}

Once == INSTANCE WriteOnce WITH
    now <- clock, claimant <- Claimant, claimedAt <- ClaimedAt, claim <- ClaimOf,
    sent <- Sent

\* The coordinator, its journal and its adapters implement WriteOnce: Odoo sees
\* at most one mutating call per claim, sent by the claimant while its claim is
\* open, and a claim whose outcome is not known is never taken over.
ImplementsWriteOnce == Once!OnceSpec

\* Every call that arrives ends, with a response or an error.
EveryCallEnds ==
    \A r \in Requests : pc[r] = "resolving" ~> pc[r] = "done"

=============================================================================
