--------------------------- MODULE Service_proofs ---------------------------
(***************************************************************************)
(* The parts of Service keep what Service promises of them, for all values *)
(* of its constants.  First the write path of WriteSafety, which Service   *)
(* extends; then ReadCalls, RateLimit and KeyRotation.  AuditChain and     *)
(* StorageFiles are proved in modules of their own, whose theorems are     *)
(* carried over to the instances of Service.                               *)
(***************************************************************************)
EXTENDS Service, FiniteSetTheorems, WellFoundedInduction, TLAPS

----------------------------------------------------------------------------
\* The write path: any sets of requests, keys, companies and payloads, and any
\* retention period.

(* The command a request starts with is one of the commands. *)
LEMMA DefaultCommand == (CHOOSE c \in Commands : TRUE) \in Commands
  BY WriteSafetyAssumption

\* The initial state is well typed.
LEMMA InitTypeOK == Init => TypeOK
  <1> SUFFICES ASSUME Init PROVE TypeOK
    OBVIOUS
  <1>1. RequestHash(CHOOSE c \in Commands : TRUE) \in Companies \X Payloads
    BY DefaultCommand, CommandsAssumption DEF RequestHash, Command
  <1>2. NoReply \in Reply
    BY DEF NoReply, Reply
  <1>3. row \in [Keys -> Row]
    BY <1>1, <1>2 DEF Init, Row, RowState
  <1> QED
    BY <1>2, <1>3, DefaultCommand DEF Init, TypeOK, Stages

(* One lemma per way a step writes to storage. *)
LEMMA FinishedType ==
  ASSUME TypeOK, NEW r \in Requests, NEW response \in Reply, Finished(r, response)
  PROVE  /\ pc' \in [Requests -> Stages]
         /\ reply' \in [Requests -> Reply]
  BY DEF TypeOK, Finished, Stages

\* An audit row appended by _append_or_fail or the journal keeps the logs typed.
LEMMA LoggedType ==
  ASSUME TypeOK, NEW r \in Requests, NEW status \in AuditStatus
  PROVE  Logged(r, status) \in [Requests -> Seq(AuditStatus)]
  BY DEF TypeOK, Logged

\* _failure with outcome not_attempted is a well-typed response.
LEMMA NotAttemptedType ==
  ASSUME NEW r \in Requests, NEW error \in {"refused", "before_write", "odoo"}
  PROVE  NotAttempted(r, error) \in Reply
  BY DEF NotAttempted, Failure, Reply

\* The response of _finalize_unknown is well typed.
LEMMA UnknownOutcomeType ==
  ASSUME NEW r \in Requests
  PROVE  UnknownOutcome(r) \in Reply
  BY DEF UnknownOutcome, Failure, Reply

\* _append_or_fail keeps audit rows, stages and replies typed.
LEMMA AppendOrFailType ==
  ASSUME TypeOK, NEW r \in Requests, NEW status \in AuditStatus,
         NEW response \in Reply, AppendOrFail(r, status, response)
  PROVE  /\ pc' \in [Requests -> Stages]
         /\ reply' \in [Requests -> Reply]
         /\ audit' \in [Requests -> Seq(AuditStatus)]
  <1>1. PICK tx \in TxnOutcome :
           /\ audit' = IF Durable(tx) THEN Logged(r, status) ELSE audit
           /\ Finished(r, IF tx = "committed" THEN response
                                               ELSE NotAttempted(response.by, "before_write"))
    BY DEF AppendOrFail
  <1>2. NotAttempted(response.by, "before_write") \in Reply
    BY DEF NotAttempted, Failure, Reply
  <1>3. audit' \in [Requests -> Seq(AuditStatus)]
    BY <1>1, LoggedType DEF TypeOK
  <1>4. (IF tx = "committed" THEN response ELSE NotAttempted(response.by, "before_write")) \in Reply
    BY <1>2
  <1> QED
    BY <1>1, <1>3, <1>4, FinishedType

\* ExecutionJournal.finish keeps rows and audit rows typed.
LEMMA StoreOutcomeType ==
  ASSUME TypeOK, NEW r \in Requests, NEW state \in {"succeeded", "failed", "unknown"},
         NEW response \in Reply, NEW tx \in TxnOutcome,
         StoreOutcome(r, state, response, tx)
  PROVE  /\ row' \in [Keys -> Row]
         /\ audit' \in [Requests -> Seq(AuditStatus)]
  <1>1. CASE OwnsReservation(r) /\ Durable(tx)
    <2> DEFINE k == cmd[r].key
    <2>1. row' = [row EXCEPT ![k] = Closed(k, state, response)]
      BY <1>1 DEF StoreOutcome
    <2>2. row' \in [Keys -> Row]
      <3>1. CASE k \in Keys
        <4>1. row[k] \in Row
          BY <3>1 DEF TypeOK
        <4>2. Closed(k, state, response) \in Row
          BY <4>1 DEF Closed, Row, RowState
        <4> QED
          BY <2>1, <4>2 DEF TypeOK
      <3>2. CASE k \notin Keys
        BY <2>1, <3>2 DEF TypeOK
      <3> QED
        BY <3>1, <3>2
    <2>3. StatusOf(state, response) \in AuditStatus
      BY DEF StatusOf, AuditStatus
    <2> QED
      BY <1>1, <2>2, <2>3, LoggedType DEF StoreOutcome
  <1>2. CASE ~(OwnsReservation(r) /\ Durable(tx))
    BY <1>2 DEF StoreOutcome, TypeOK
  <1> QED
    BY <1>1, <1>2

\* _finish_after_attempt keeps everything it writes typed.
LEMMA FinishAfterAttemptType ==
  ASSUME TypeOK, NEW r \in Requests, NEW state \in {"succeeded", "failed", "unknown"},
         NEW response \in Reply, NEW fallback \in Reply,
         FinishAfterAttempt(r, state, response, fallback)
  PROVE  /\ pc' \in [Requests -> Stages]
         /\ reply' \in [Requests -> Reply]
         /\ row' \in [Keys -> Row]
         /\ audit' \in [Requests -> Seq(AuditStatus)]
  <1>1. PICK tx \in TxnOutcome :
           /\ StoreOutcome(r, state, response, tx)
           /\ Finished(r, IF OwnsReservation(r) /\ tx = "committed"
                            THEN response ELSE fallback)
    BY DEF FinishAfterAttempt
  <1>2. (IF OwnsReservation(r) /\ tx = "committed" THEN response ELSE fallback) \in Reply
    OBVIOUS
  <1> QED
    BY <1>1, <1>2, FinishedType, StoreOutcomeType

\* Every step of the coordinator keeps the state well typed.
LEMMA StepTypeOK == TypeOK /\ [Next]_vars => TypeOK'
  <1> SUFFICES ASSUME TypeOK, [Next]_vars PROVE TypeOK'
    OBVIOUS
  <1> USE NotAttemptedType, UnknownOutcomeType
  <1>1. ASSUME NEW r \in Requests, NEW c \in Commands, Receive(r, c) PROVE TypeOK'
    BY <1>1 DEF TypeOK, Receive, Goto, Stages
  <1>2. ASSUME NEW r \in Requests, Resolve(r) PROVE TypeOK'
    BY <1>2 DEF TypeOK, Resolve, Goto, Stages
  <1>3. ASSUME NEW r \in Requests, ResolveFails(r) PROVE TypeOK'
    <2>1. Logged(r, "failed") \in [Requests -> Seq(AuditStatus)]
      BY LoggedType DEF AuditStatus
    <2> QED
      BY <1>3, <2>1, FinishedType DEF TypeOK, ResolveFails
  <1>4. ASSUME NEW r \in Requests, RejectAtGate(r) PROVE TypeOK'
    BY <1>4, AppendOrFailType DEF TypeOK, RejectAtGate, AuditStatus
  <1>5. ASSUME NEW r \in Requests, StartPreview(r) PROVE TypeOK'
    BY <1>5 DEF TypeOK, StartPreview, Goto, Stages
  <1>6. ASSUME NEW r \in Requests, Preview(r) PROVE TypeOK'
    <2>1. /\ Response(r, "preview", "not_attempted") \in Reply
          /\ Response(r, "needs_input", "not_attempted") \in Reply
      BY DEF Response, Reply
    <2> QED
      BY <1>6, <2>1, AppendOrFailType DEF TypeOK, Preview, AuditStatus
  <1>7. ASSUME NEW r \in Requests, RejectNotExplicit(r) PROVE TypeOK'
    BY <1>7, AppendOrFailType DEF TypeOK, RejectNotExplicit, AuditStatus
  <1>8. ASSUME NEW r \in Requests, Reserve(r) PROVE TypeOK'
    <2>1. NewRow(r) \in Row
      BY WriteSafetyAssumption, CommandsAssumption
         DEF NewRow, Row, RowState, RequestHash, TypeOK, Command, NoReply, Reply
    <2>2. Logged(r, "attempted") \in [Requests -> Seq(AuditStatus)]
      BY LoggedType DEF AuditStatus
    <2>3. /\ pc' \in [Requests -> Stages]
          /\ reply' \in [Requests -> Reply]
      BY <1>8, FinishedType DEF Reserve, Goto, TypeOK, Stages
    <2> QED
      BY <1>8, <2>1, <2>2, <2>3 DEF TypeOK, Reserve
  <1>9. ASSUME NEW r \in Requests, BeginFails(r) PROVE TypeOK'
    BY <1>9, FinishedType DEF TypeOK, BeginFails
  <1>10. ASSUME NEW r \in Requests, Conflict(r) PROVE TypeOK'
    BY <1>10, AppendOrFailType DEF TypeOK, Conflict, AuditStatus
  <1>11. ASSUME NEW r \in Requests, Replay(r) PROVE TypeOK'
    <2>1. cmd[r].key \in Keys
      BY <1>11, CommandsAssumption DEF Replay, Executes, TypeOK, Command
    <2>2. row[cmd[r].key].response \in Reply
      BY <2>1 DEF TypeOK, Row
    <2> QED
      BY <1>11, <2>2, AppendOrFailType DEF TypeOK, Replay, AuditStatus
  <1>12. ASSUME NEW r \in Requests, Prepare(r) PROVE TypeOK'
    BY <1>12 DEF TypeOK, Prepare, Goto, Stages
  <1>13. ASSUME NEW r \in Requests, PrepareNeedsInput(r) PROVE TypeOK'
    <2>1. Response(r, "needs_input", "not_attempted") \in Reply
      BY DEF Response, Reply
    <2> QED
      BY <1>13, <2>1, FinishAfterAttemptType DEF TypeOK, PrepareNeedsInput
  <1>14. ASSUME NEW r \in Requests, ValidateCurrentState(r) PROVE TypeOK'
    BY <1>14 DEF TypeOK, ValidateCurrentState, Goto, Stages
  <1>15. ASSUME NEW r \in Requests, PreWriteFails(r) PROVE TypeOK'
    BY <1>15, FinishAfterAttemptType DEF TypeOK, PreWriteFails
  <1>16. ASSUME NEW r \in Requests, SendMutation(r) PROVE TypeOK'
    BY <1>16 DEF TypeOK, SendMutation, Goto, Stages
  <1>17. ASSUME NEW r \in Requests, MutationReturns(r) PROVE TypeOK'
    BY <1>17 DEF TypeOK, MutationReturns, Goto, Stages
  <1>18. ASSUME NEW r \in Requests, Succeed(r) PROVE TypeOK'
    <2>1. Response(r, "succeeded", "known") \in Reply
      BY DEF Response, Reply
    <2> QED
      BY <1>18, <2>1, FinishAfterAttemptType DEF TypeOK, Succeed
  <1>19. ASSUME NEW r \in Requests, KnownWriteFailure(r) PROVE TypeOK'
    <2>1. Failure(r, "odoo", "known") \in Reply
      BY DEF Failure, Reply
    <2> QED
      BY <1>19, <2>1, FinishAfterAttemptType DEF TypeOK, KnownWriteFailure
  <1>20. ASSUME NEW r \in Requests, FinalizeUnknown(r) PROVE TypeOK'
    BY <1>20, FinishAfterAttemptType DEF TypeOK, FinalizeUnknown
  <1>21. ASSUME NEW r \in Requests, CancelEarly(r) PROVE TypeOK'
    <2>1. NoReply \in Reply
      BY DEF NoReply, Reply
    <2>2. Logged(r, "failed") \in [Requests -> Seq(AuditStatus)]
      BY LoggedType DEF AuditStatus
    <2> QED
      BY <1>21, <2>1, <2>2, FinishedType DEF TypeOK, CancelEarly
  <1>22. ASSUME NEW r \in Requests, CancelHolding(r) PROVE TypeOK'
    <2>1. NoReply \in Reply
      BY DEF NoReply, Reply
    <2>2. /\ row' \in [Keys -> Row]
          /\ audit' \in [Requests -> Seq(AuditStatus)]
      BY <1>22, StoreOutcomeType DEF CancelHolding
    <2> QED
      BY <1>22, <2>1, <2>2, FinishedType DEF TypeOK, CancelHolding
  <1>23. ASSUME NEW r \in Requests, Crash(r) PROVE TypeOK'
    <2>1. NoReply \in Reply
      BY DEF NoReply, Reply
    <2> QED
      BY <1>23, <2>1, FinishedType DEF TypeOK, Crash
  <1>24. ASSUME NEW r \in Requests, OdooApplies(r) \/ OdooRefuses(r) PROVE TypeOK'
    BY <1>24 DEF TypeOK, OdooApplies, OdooRefuses
  <1>25. CASE Tick
    BY <1>25 DEF TypeOK, Tick
  <1>26. CASE UNCHANGED vars
    BY <1>26 DEF TypeOK, vars
  <1> QED
    BY <1>1, <1>2, <1>3, <1>4, <1>5, <1>6, <1>7, <1>8, <1>9, <1>10, <1>11, <1>12,
       <1>13, <1>14, <1>15, <1>16, <1>17, <1>18, <1>19, <1>20, <1>21, <1>22, <1>23,
       <1>24, <1>25, <1>26 DEF Next, Proceed

(* Type correctness: every reachable state of the coordinator and its journal *)
(* is well typed, for any number of requests and keys.                        *)
THEOREM TypeCorrect == Spec => []TypeOK
  BY InitTypeOK, StepTypeOK, PTL DEF Spec

----------------------------------------------------------------------------
(* At most one mutation per retention period. *)

\* The reservation invariant holds before the first call.
LEMMA InitReservationInv == Init => ReservationInv
  <1> SUFFICES ASSUME Init PROVE ReservationInv
    OBVIOUS
  <1>1. \A r \in Requests : pc[r] = "idle" /\ rpc[r] = "none" /\ reservedAt[r] = NoTime
    BY DEF Init
  <1>2. \A k \in Keys : row[k].state = "absent"
    BY DEF Init
  <1> QED
    BY <1>1, <1>2 DEF ReservationInv, HolderOwnsItsRow, Holding

(* A step that leaves commands, rows and reservations alone, and moves no     *)
(* request into a stage that needs a reservation it did not hold before.      *)
LEMMA QuietStep ==
  ASSUME TypeOK, ReservationInv, UNCHANGED <<cmd, row, reservedAt>>,
         \A q \in Requests : pc'[q] \in Holding => pc[q] \in Holding,
         \A q \in Requests : pc'[q] \in Early => pc[q] \in Early,
         \A q \in Requests : rpc'[q] # "none" => rpc[q] # "none" \/ pc[q] \in Holding
  PROVE  ReservationInv'
  <1>1. HolderOwnsItsRow'
    BY DEF ReservationInv, HolderOwnsItsRow, OwnsReservation
  <1>2. \A q \in Requests : pc[q] \in Holding => reservedAt[q] # NoTime
    BY DEF ReservationInv, HolderOwnsItsRow, OwnsReservation
  <1>3. (\A r \in Requests : pc[r] \in Early => reservedAt[r] = NoTime)'
    BY DEF ReservationInv
  <1>4. (\A r \in Requests : rpc[r] # "none" => reservedAt[r] # NoTime)'
    BY <1>2 DEF ReservationInv
  <1> QED
    BY <1>1, <1>3, <1>4 DEF ReservationInv, Apart

(* A request that ends without touching its row. *)
LEMMA DoneQuietStep ==
  ASSUME TypeOK, ReservationInv, UNCHANGED <<cmd, row, rpc, reservedAt>>,
         NEW r \in Requests, pc' = [pc EXCEPT ![r] = "done"]
  PROVE  ReservationInv'
  <1>1. \A q \in Requests : pc'[q] = pc[q] \/ pc'[q] = "done"
    BY DEF TypeOK
  <1> QED
    BY <1>1, QuietStep DEF Holding, Early

(* A request that closes its reservation: nobody else holds that row. *)
LEMMA CloseStep ==
  ASSUME TypeOK, ReservationInv, UNCHANGED <<cmd, rpc, reservedAt>>,
         NEW r \in Requests, pc' = [pc EXCEPT ![r] = "done"],
         NEW state \in {"succeeded", "failed", "unknown"}, NEW response,
         NEW tx, StoreOutcome(r, state, response, tx), cmd[r].key \in Keys
  PROVE  ReservationInv'
  <1> DEFINE k == cmd[r].key
  <1>1. CASE OwnsReservation(r) /\ Durable(tx)
    <2>1. row' = [row EXCEPT ![k] = Closed(k, state, response)]
      BY <1>1 DEF StoreOutcome
    <2>2. \A j \in Keys : j # k => row'[j] = row[j]
      BY <2>1 DEF TypeOK
    <2>3. /\ row'[k].state = state
          /\ row'[k].owner = row[k].owner
          /\ row'[k].expires = row[k].expires
          /\ row'[k].hash = row[k].hash
      BY <2>1 DEF TypeOK, Closed, Row
    <2>4. HolderOwnsItsRow'
      <3> SUFFICES ASSUME NEW q \in Requests, pc'[q] \in Holding
                   PROVE  cmd'[q].key \in Keys /\ OwnsReservation(q)'
        BY DEF HolderOwnsItsRow
      <3>1. q # r /\ pc[q] \in Holding
        BY DEF TypeOK, Holding
      <3>2. cmd[q].key \in Keys /\ OwnsReservation(q)
        BY <3>1 DEF ReservationInv, HolderOwnsItsRow
      <3>3. cmd[q].key # k
        BY <1>1, <3>1, <3>2 DEF OwnsReservation
      <3> QED
        BY <2>2, <3>2, <3>3 DEF OwnsReservation
    <2>5. \A q \in Requests : pc'[q] \in Early => pc[q] \in Early
      BY DEF TypeOK, Early
    <2>6. (\A j \in Keys :
             row[j].state # "absent" =>
                /\ row[j].owner \in Requests
                /\ cmd[row[j].owner].key = j
                /\ reservedAt[row[j].owner] # NoTime
                /\ row[j].expires = reservedAt[row[j].owner] + TTL)'
      <3>1. row[k].state # "absent"
        BY <1>1 DEF OwnsReservation
      <3> QED
        BY <2>2, <2>3, <3>1 DEF ReservationInv
    <2>7. (\A q \in Requests :
             reservedAt[q] # NoTime =>
                LET j == cmd[q].key IN
                /\ j \in Keys
                /\ row[j].state # "absent"
                /\ \/ row[j].owner = q
                   \/ reservedAt[q] + TTL <= reservedAt[row[j].owner])'
      BY <2>2, <2>3 DEF ReservationInv
    <2> QED
      BY <2>4, <2>5, <2>6, <2>7 DEF ReservationInv, Apart
  <1>2. CASE ~(OwnsReservation(r) /\ Durable(tx))
    BY <1>2, DoneQuietStep DEF StoreOutcome
  <1> QED
    BY <1>1, <1>2

\* A call that closes its reservation, or fails to, keeps the invariant.
LEMMA FinishStep ==
  ASSUME TypeOK, ReservationInv, UNCHANGED <<cmd, rpc, reservedAt>>,
         NEW r \in Requests, pc[r] \in Holding,
         NEW state \in {"succeeded", "failed", "unknown"},
         NEW response, NEW fallback,
         FinishAfterAttempt(r, state, response, fallback)
  PROVE  ReservationInv'
  <1>1. cmd[r].key \in Keys
    BY DEF ReservationInv, HolderOwnsItsRow
  <1>2. PICK tx \in TxnOutcome : StoreOutcome(r, state, response, tx)
    BY DEF FinishAfterAttempt
  <1>3. pc' = [pc EXCEPT ![r] = "done"]
    BY DEF FinishAfterAttempt, Finished
  <1> QED
    BY <1>1, <1>2, <1>3, CloseStep

(* A request takes a key that is free: the row it replaces, if any, is that   *)
(* of a settled reservation a retention period old.                           *)
LEMMA ReserveStep ==
  ASSUME TypeOK, ReservationInv, NEW r \in Requests, Reserve(r)
  PROVE  ReservationInv'
  <1> DEFINE k == cmd[r].key
  <1>1. k \in Keys
    BY CommandsAssumption DEF Reserve, Executes, TypeOK, Command
  <1>2. /\ pc[r] = "received"
        /\ reservedAt[r] = NoTime
        /\ rpc[r] = "none"
    BY DEF Reserve, Executes, PassesGate, At, ReservationInv, Early
  <1>3. row[k].state \notin {"in_progress", "unknown"}
    BY DEF Reserve, Free
  <1>4. /\ row' = [row EXCEPT ![k] = NewRow(r)]
        /\ reservedAt' = [reservedAt EXCEPT ![r] = clock]
        /\ UNCHANGED <<clock, cmd, rpc>>
    BY DEF Reserve
  <1>5. \A j \in Keys : j # k => row'[j] = row[j]
    BY <1>4 DEF TypeOK
  <1>6. /\ row'[k].state = "in_progress"
        /\ row'[k].owner = r
        /\ row'[k].expires = clock + TTL
        /\ row'[k].hash = <<cmd[r].company, cmd[r].payload>>
    BY <1>1, <1>4 DEF TypeOK, NewRow, RequestHash
  <1>7. /\ reservedAt'[r] = clock
        /\ \A q \in Requests : q # r => reservedAt'[q] = reservedAt[q]
    BY <1>4 DEF TypeOK
  <1>8. clock \in Nat /\ clock # NoTime
    BY WriteSafetyAssumption DEF TypeOK
  <1>9. \A q \in Requests :
           /\ q # r => pc'[q] = pc[q]
           /\ pc'[r] \in {"preparing", "done"}
    BY DEF Reserve, Goto, Finished, TypeOK
  <1>10. \A q \in Requests :
            /\ q # r
            /\ cmd[q].key = k
            /\ reservedAt[q] # NoTime
            => reservedAt[q] + TTL <= clock
    <2> SUFFICES ASSUME NEW q \in Requests, cmd[q].key = k, reservedAt[q] # NoTime
                 PROVE  reservedAt[q] + TTL <= clock
      OBVIOUS
    <2>1. row[k].state # "absent"
      BY DEF ReservationInv
    <2>2. row[k].expires <= clock
      BY <2>1 DEF Reserve, Free
    <2>3. /\ row[k].owner \in Requests
          /\ reservedAt[row[k].owner] # NoTime
          /\ row[k].expires = reservedAt[row[k].owner] + TTL
      BY <1>1, <2>1 DEF ReservationInv
    <2>4. row[k].owner = q \/ reservedAt[q] + TTL <= reservedAt[row[k].owner]
      BY DEF ReservationInv
    <2>5. reservedAt[q] \in Nat /\ reservedAt[row[k].owner] \in Nat /\ TTL \in Nat
      BY <2>3, WriteSafetyAssumption DEF TypeOK
    <2> QED
      BY <1>8, <2>2, <2>3, <2>4, <2>5
  <1>11. HolderOwnsItsRow'
    <2> SUFFICES ASSUME NEW q \in Requests, pc'[q] \in Holding
                 PROVE  cmd'[q].key \in Keys /\ OwnsReservation(q)'
      BY DEF HolderOwnsItsRow
    <2>1. CASE q = r
      BY <1>1, <1>4, <1>6, <2>1 DEF OwnsReservation
    <2>2. CASE q # r
      <3>1. cmd[q].key \in Keys /\ OwnsReservation(q)
        BY <1>9, <2>2 DEF ReservationInv, HolderOwnsItsRow
      <3>2. cmd[q].key # k
        BY <1>3, <3>1 DEF OwnsReservation
      <3> QED
        BY <1>4, <1>5, <3>1, <3>2 DEF OwnsReservation
    <2> QED
      BY <2>1, <2>2
  <1>12. (\A q \in Requests : pc[q] \in Early => reservedAt[q] = NoTime)'
    BY <1>7, <1>9 DEF ReservationInv, Early
  <1>13. (\A q \in Requests : rpc[q] # "none" => reservedAt[q] # NoTime)'
    BY <1>2, <1>4, <1>7 DEF ReservationInv
  <1>14. (\A j \in Keys :
            row[j].state # "absent" =>
               /\ row[j].owner \in Requests
               /\ cmd[row[j].owner].key = j
               /\ reservedAt[row[j].owner] # NoTime
               /\ row[j].expires = reservedAt[row[j].owner] + TTL)'
    <2> SUFFICES ASSUME NEW j \in Keys, row'[j].state # "absent"
                 PROVE  /\ row'[j].owner \in Requests
                        /\ cmd'[row'[j].owner].key = j
                        /\ reservedAt'[row'[j].owner] # NoTime
                        /\ row'[j].expires = reservedAt'[row'[j].owner] + TTL
      OBVIOUS
    <2>1. CASE j = k
      BY <1>4, <1>6, <1>7, <1>8, <2>1
    <2>2. CASE j # k
      <3>1. /\ row[j].owner \in Requests
            /\ cmd[row[j].owner].key = j
            /\ reservedAt[row[j].owner] # NoTime
            /\ row[j].expires = reservedAt[row[j].owner] + TTL
        BY <1>5, <2>2 DEF ReservationInv
      <3> QED
        BY <1>2, <1>4, <1>5, <1>7, <2>2, <3>1
    <2> QED
      BY <2>1, <2>2
  <1>15. (\A q \in Requests :
            reservedAt[q] # NoTime =>
               LET j == cmd[q].key IN
               /\ j \in Keys
               /\ row[j].state # "absent"
               /\ \/ row[j].owner = q
                  \/ reservedAt[q] + TTL <= reservedAt[row[j].owner])'
    <2> SUFFICES ASSUME NEW q \in Requests, reservedAt'[q] # NoTime
                 PROVE  /\ cmd[q].key \in Keys
                        /\ row'[cmd[q].key].state # "absent"
                        /\ \/ row'[cmd[q].key].owner = q
                           \/ reservedAt'[q] + TTL <= reservedAt'[row'[cmd[q].key].owner]
      BY <1>4
    <2>1. CASE q = r
      BY <1>1, <1>6, <2>1
    <2>2. CASE q # r /\ cmd[q].key = k
      BY <1>1, <1>6, <1>7, <1>10, <2>2
    <2>3. CASE q # r /\ cmd[q].key # k
      <3>1. /\ cmd[q].key \in Keys
            /\ row[cmd[q].key].state # "absent"
            /\ \/ row[cmd[q].key].owner = q
               \/ reservedAt[q] + TTL <= reservedAt[row[cmd[q].key].owner]
        BY <1>7, <2>3 DEF ReservationInv
      <3>2. row[cmd[q].key].owner \in Requests /\ row[cmd[q].key].owner # r
        BY <1>2, <3>1 DEF ReservationInv
      <3> QED
        BY <1>5, <1>7, <2>3, <3>1, <3>2
    <2> QED
      BY <2>1, <2>2, <2>3
  <1>16. (\A p, q \in Requests :
            /\ p # q
            /\ cmd[p].key = cmd[q].key
            /\ reservedAt[p] # NoTime /\ reservedAt[q] # NoTime
            => Apart(reservedAt[p], reservedAt[q]))'
    BY <1>4, <1>7, <1>10 DEF ReservationInv, Apart
  <1> QED
    BY <1>11, <1>12, <1>13, <1>14, <1>15, <1>16 DEF ReservationInv

\* Every step of the coordinator keeps the reservation invariant.
LEMMA StepReservationInv ==
  TypeOK /\ ReservationInv /\ [Next]_vars => ReservationInv'
  <1> SUFFICES ASSUME TypeOK, ReservationInv, [Next]_vars PROVE ReservationInv'
    OBVIOUS
  <1>1. ASSUME NEW r \in Requests, NEW c \in Commands, Receive(r, c)
        PROVE  ReservationInv'
    <2>1. reservedAt[r] = NoTime /\ pc[r] = "idle"
      BY <1>1 DEF Receive, At, ReservationInv, Early
    <2>2. \A q \in Requests : q # r => cmd'[q] = cmd[q] /\ pc'[q] = pc[q]
      BY <1>1 DEF Receive, Goto, TypeOK
    <2>3. pc'[r] = "resolving" /\ UNCHANGED <<row, rpc, reservedAt>>
      BY <1>1 DEF Receive, Goto, TypeOK
    <2>4. HolderOwnsItsRow'
      BY <2>2, <2>3 DEF ReservationInv, HolderOwnsItsRow, OwnsReservation, Holding
    <2>5. \A q \in Requests : reservedAt[q] # NoTime => q # r
      BY <2>1
    <2> QED
      BY <2>1, <2>2, <2>3, <2>4, <2>5 DEF ReservationInv, Early, Apart
  <1>2. ASSUME NEW r \in Requests, Resolve(r) \/ StartPreview(r)
        PROVE  ReservationInv'
    <2>1. /\ UNCHANGED <<cmd, row, reservedAt, rpc>>
          /\ pc[r] \in Early
          /\ \A q \in Requests : pc'[q] = pc[q] \/ (q = r /\ pc'[q] \in Early)
      BY <1>2 DEF Resolve, StartPreview, PassesGate, At, Goto, TypeOK, Early
    <2> QED
      BY <2>1, QuietStep DEF Holding, Early
  <1>3. ASSUME NEW r \in Requests,
               \/ ResolveFails(r) \/ RejectAtGate(r) \/ Preview(r)
               \/ RejectNotExplicit(r) \/ BeginFails(r) \/ Conflict(r) \/ Replay(r)
               \/ CancelEarly(r) \/ Crash(r)
        PROVE  ReservationInv'
    <2>1. UNCHANGED <<cmd, row, rpc, reservedAt>> /\ pc' = [pc EXCEPT ![r] = "done"]
      BY <1>3 DEF ResolveFails, RejectAtGate, Preview, RejectNotExplicit, BeginFails,
                  Conflict, Replay, CancelEarly, Crash, AppendOrFail, Finished
    <2> QED
      BY <2>1, DoneQuietStep
  <1>4. ASSUME NEW r \in Requests, Reserve(r) PROVE ReservationInv'
    BY <1>4, ReserveStep
  <1>5. ASSUME NEW r \in Requests,
               Prepare(r) \/ ValidateCurrentState(r) \/ SendMutation(r) \/ MutationReturns(r)
        PROVE  ReservationInv'
    <2>1. /\ UNCHANGED <<cmd, row, reservedAt>>
          /\ pc[r] \in Holding
          /\ \A q \in Requests : q # r => pc'[q] = pc[q] /\ rpc'[q] = rpc[q]
          /\ pc'[r] \in Holding
      BY <1>5 DEF Prepare, ValidateCurrentState, SendMutation, MutationReturns, At, Goto,
                  TypeOK, Holding
    <2> QED
      BY <2>1, QuietStep DEF Holding, Early
  <1>6. ASSUME NEW r \in Requests,
               \/ PrepareNeedsInput(r) \/ PreWriteFails(r) \/ Succeed(r)
               \/ KnownWriteFailure(r) \/ FinalizeUnknown(r)
        PROVE  ReservationInv'
    <2>1. UNCHANGED <<cmd, rpc, reservedAt>> /\ pc[r] \in Holding
      BY <1>6 DEF PrepareNeedsInput, PreWriteFails, Succeed, KnownWriteFailure,
                  FinalizeUnknown, At, Holding, FailureCauses
    <2> QED
      BY <1>6, <2>1, FinishStep
         DEF PrepareNeedsInput, PreWriteFails, Succeed, KnownWriteFailure, FinalizeUnknown
  <1>7. ASSUME NEW r \in Requests, CancelHolding(r) PROVE ReservationInv'
    <2>1. cmd[r].key \in Keys
      BY <1>7 DEF CancelHolding, ReservationInv, HolderOwnsItsRow
    <2>2. pc' = [pc EXCEPT ![r] = "done"] /\ UNCHANGED <<cmd, rpc, reservedAt>>
      BY <1>7 DEF CancelHolding, Finished
    <2> QED
      BY <1>7, <2>1, <2>2, CloseStep DEF CancelHolding
  <1>8. ASSUME NEW r \in Requests, OdooApplies(r) \/ OdooRefuses(r)
        PROVE  ReservationInv'
    <2>1. /\ UNCHANGED <<pc, cmd, row, reservedAt>>
          /\ \A q \in Requests : rpc'[q] # "none" => rpc[q] # "none"
      BY <1>8 DEF OdooApplies, OdooRefuses, TypeOK
    <2> QED
      BY <2>1, QuietStep
  <1>9. CASE Tick \/ UNCHANGED vars
    BY <1>9, QuietStep DEF Tick, vars
  <1> QED
    BY <1>1, <1>2, <1>3, <1>4, <1>5, <1>6, <1>7, <1>8, <1>9 DEF Next, Proceed

\* Each row remembers its latest reservation and all earlier ones of its key are a
\* retention period older: reserve_in_transaction is the only way to take a key.
THEOREM ReservationInvariant == Spec => []ReservationInv
  BY TypeCorrect, InitReservationInv, StepReservationInv, PTL DEF Spec

(* README "An uncertain mutation is never automatically retried": for any     *)
(* number of requests, keys and crashes, two mutating calls under one         *)
(* idempotency key are a retention period apart.                              *)
THEOREM AtMostOnce == Spec => []AtMostOncePerRetention
  <1>1. ReservationInv => AtMostOncePerRetention
    BY DEF ReservationInv, AtMostOncePerRetention, Landed
  <1> QED
    BY <1>1, ReservationInvariant, PTL

(* "in-progress and unknown outcomes remain blocked for explicit recovery",   *)
(* whatever the requests do.                                                  *)
THEOREM Blocked == Spec => UnresolvedStaysBlocked
  <1> DEFINE Kept ==
        \A k \in Keys :
           /\ row[k].state \in {"in_progress", "unknown"} => row'[k].owner = row[k].owner
           /\ row[k].state = "unknown" => row'[k] = row[k]
  <1>1. TypeOK /\ ReservationInv /\ [Next]_vars => [Kept]_vars
    <2> SUFFICES ASSUME TypeOK, ReservationInv, [Next]_vars PROVE Kept
      OBVIOUS
    <2>1. CASE UNCHANGED row
      BY <2>1
    <2>2. ASSUME NEW r \in Requests, Reserve(r) PROVE Kept
      BY <2>2 DEF Reserve, Free, TypeOK
    <2>3. ASSUME NEW r \in Requests, NEW state, NEW response, NEW tx,
                 StoreOutcome(r, state, response, tx)
          PROVE  Kept
      <3> DEFINE j == cmd[r].key
      <3>1. CASE OwnsReservation(r) /\ Durable(tx)
        <4>1. row' = [row EXCEPT ![j] = Closed(j, state, response)]
          BY <2>3, <3>1 DEF StoreOutcome
        <4>2. row[j].state = "in_progress"
          BY <3>1 DEF OwnsReservation
        <4>3. j \in Keys => row'[j].owner = row[j].owner
          BY <4>1 DEF TypeOK, Closed, Row
        <4> QED
          BY <4>1, <4>2, <4>3 DEF TypeOK
      <3>2. CASE ~(OwnsReservation(r) /\ Durable(tx))
        BY <2>1, <2>3, <3>2 DEF StoreOutcome
      <3> QED
        BY <3>1, <3>2
    <2>4. ASSUME NEW r \in Requests,
                 \/ PrepareNeedsInput(r) \/ PreWriteFails(r) \/ Succeed(r)
                 \/ KnownWriteFailure(r) \/ FinalizeUnknown(r) \/ CancelHolding(r)
          PROVE  \E state, response, tx : StoreOutcome(r, state, response, tx)
      BY <2>4, Zenon DEF PrepareNeedsInput, PreWriteFails, Succeed, KnownWriteFailure,
                         FinalizeUnknown, CancelHolding, FinishAfterAttempt
    <2>5. \/ UNCHANGED row
          \/ \E r \in Requests :
                \/ Reserve(r) \/ PrepareNeedsInput(r) \/ PreWriteFails(r) \/ Succeed(r)
                \/ KnownWriteFailure(r) \/ FinalizeUnknown(r) \/ CancelHolding(r)
      BY DEF Next, Proceed, vars, Receive, Resolve, ResolveFails, RejectAtGate,
             StartPreview, Preview, RejectNotExplicit, BeginFails, Conflict, Replay,
             Prepare, ValidateCurrentState, SendMutation, MutationReturns, CancelEarly,
             Crash, OdooApplies, OdooRefuses, Tick
    <2> QED
      BY <2>1, <2>2, <2>3, <2>4, <2>5
  <1>2. Spec => [][Kept]_vars
    BY <1>1, TypeCorrect, ReservationInvariant, PTL DEF Spec
  <1> QED
    BY <1>2 DEF UnresolvedStaysBlocked

----------------------------------------------------------------------------
(* Responses tell the truth about Odoo. *)

\* The outcome invariant holds before the first call.
LEMMA InitOutcomeInv == Init => OutcomeInv
  <1> SUFFICES ASSUME Init PROVE OutcomeInv
    OBVIOUS
  <1>1. \A r \in Requests :
           pc[r] = "idle" /\ rpc[r] = "none" /\ reply[r].status = "none"
    BY DEF Init, NoReply
  <1>2. \A k \in Keys : row[k].state = "absent"
    BY DEF Init
  <1> QED
    BY <1>1, <1>2 DEF OutcomeInv

(* What may happen to requests and calls in a step: a request that is done    *)
(* stays done, its call is worked off by Odoo or never sent.                  *)
Onward(stages1, calls1, stages2, calls2) ==
    \A q \in Requests :
        /\ stages1[q] = "done" => stages2[q] = "done"
        /\ calls1[q] = "applied" => calls2[q] = "applied"
        /\ calls1[q] = "refused" => calls2[q] = "refused"
        /\ stages1[q] = "done" /\ calls1[q] = "none" => calls2[q] = "none"

(* A truthful response stays truthful. *)
LEMMA TruthfulStable ==
  ASSUME NEW response, NEW stages1, NEW calls1, NEW stages2, NEW calls2,
         Truthful(response, stages1, calls1), Onward(stages1, calls1, stages2, calls2)
  PROVE  Truthful(response, stages2, calls2)
  BY DEF Truthful, Named, Onward

(* The truth may be told to anybody. *)
LEMMA TruthfulToAll ==
  ASSUME NEW r, NEW response, NEW stages, NEW calls, Truthful(response, stages, calls)
  PROVE  TruthfulTo(r, response, stages, calls)
  BY DEF TruthfulTo, Truthful

(* What may be told stays so. *)
LEMMA TruthfulToStable ==
  ASSUME NEW r, NEW response, NEW stages1, NEW calls1, NEW stages2, NEW calls2,
         TruthfulTo(r, response, stages1, calls1), Onward(stages1, calls1, stages2, calls2)
  PROVE  TruthfulTo(r, response, stages2, calls2)
  <1>1. Named(response, stages2, calls2)
    BY DEF TruthfulTo, Named, Onward
  <1> QED
    BY <1>1, TruthfulStable DEF TruthfulTo

(* What OutcomeInv says of one row, and of the stages of the requests. *)
RowTruth(w, stages, calls) ==
    w.state \in {"succeeded", "failed", "unknown"} =>
        /\ w.response.by = w.owner
        /\ Truthful(w.response, stages, calls)
        /\ w.state = "succeeded" => w.response.status = "succeeded"
        /\ w.state = "failed" /\ Adapter = "payroll" => calls[w.owner] \in {"none", "refused"}

StageTruth(stages, calls) ==
    \A r \in Requests :
        /\ stages[r] \in Unsent => calls[r] = "none"
        /\ stages[r] = "reading_back" => calls[r] = "applied"

\* The outcome invariant, split into its stage, row and reply parts.
LEMMA OutcomeInvParts ==
  OutcomeInv <=> /\ StageTruth(pc, rpc)
                 /\ \A k \in Keys : RowTruth(row[k], pc, rpc)
                 /\ \A r \in Requests : reply[r].status # "none" =>
                                            TruthfulTo(r, reply[r], pc, rpc)
  BY DEF OutcomeInv, StageTruth, RowTruth

\* The same split, for the next state.
LEMMA OutcomeInvPartsNext ==
  OutcomeInv' <=> /\ StageTruth(pc', rpc')
                  /\ \A k \in Keys : RowTruth(row'[k], pc', rpc')
                  /\ \A r \in Requests : reply'[r].status # "none" =>
                                            TruthfulTo(r, reply'[r], pc', rpc')
  BY DEF OutcomeInv, StageTruth, RowTruth

\* A closed row stays truthful while its owner and its call stay as they are.
LEMMA RowTruthStable ==
  ASSUME NEW w, NEW stages1, NEW calls1, NEW stages2, NEW calls2,
         RowTruth(w, stages1, calls1), Onward(stages1, calls1, stages2, calls2)
  PROVE  RowTruth(w, stages2, calls2)
  <1> SUFFICES ASSUME w.state \in {"succeeded", "failed", "unknown"}
               PROVE  /\ w.response.by = w.owner
                      /\ Truthful(w.response, stages2, calls2)
                      /\ w.state = "succeeded" => w.response.status = "succeeded"
                      /\ w.state = "failed" /\ Adapter = "payroll" =>
                            calls2[w.owner] \in {"none", "refused"}
    BY DEF RowTruth
  <1>1. Truthful(w.response, stages1, calls1) /\ w.response.by = w.owner
    BY DEF RowTruth
  <1>2. Truthful(w.response, stages2, calls2)
    BY <1>1, TruthfulStable
  <1> QED
    BY <1>1, <1>2 DEF RowTruth, Onward, Truthful, Named

(* A step is sound when it moves stages and calls onward, keeps the stages    *)
(* truthful, changes a row only to a truthful one and a reply likewise.       *)
LEMMA TruthStep ==
  ASSUME OutcomeInv, Onward(pc, rpc, pc', rpc'), StageTruth(pc', rpc'),
         \A k \in Keys : row'[k] = row[k] \/ RowTruth(row'[k], pc', rpc'),
         \A q \in Requests : \/ reply'[q] = reply[q]
                             \/ reply'[q].status = "none"
                             \/ TruthfulTo(q, reply'[q], pc', rpc')
  PROVE  OutcomeInv'
  <1>1. ASSUME NEW k \in Keys PROVE RowTruth(row'[k], pc', rpc')
    <2>1. RowTruth(row[k], pc, rpc)
      BY OutcomeInvParts
    <2>2. RowTruth(row[k], pc', rpc')
      BY <2>1, RowTruthStable
    <2> QED
      BY <2>2
  <1>2. ASSUME NEW q \in Requests, reply'[q].status # "none"
        PROVE  TruthfulTo(q, reply'[q], pc', rpc')
    <2> SUFFICES ASSUME reply'[q] = reply[q] PROVE TruthfulTo(q, reply'[q], pc', rpc')
      BY <1>2
    <2>1. TruthfulTo(q, reply[q], pc, rpc)
      BY <1>2, OutcomeInvParts
    <2>2. TruthfulTo(q, reply[q], pc', rpc')
      BY <2>1, TruthfulToStable
    <2> QED
      BY <2>2
  <1> QED
    BY <1>1, <1>2, OutcomeInvPartsNext

(* What request r may say when it ends, given what became of its call. *)
MaySay(r, response) ==
    /\ response.by = r
    /\ response.status = "succeeded" => rpc[r] = "applied"
    /\ response.status = "failed" /\ response.outcome # "unknown" /\ Adapter = "payroll" =>
          rpc[r] \in {"none", "refused"}

\* What a finished request leaves unchanged for the others.
LEMMA DoneFacts ==
  ASSUME TypeOK, OutcomeInv, NEW r \in Requests,
         pc' = [pc EXCEPT ![r] = "done"], rpc' = rpc
  PROVE  /\ Onward(pc, rpc, pc', rpc')
         /\ StageTruth(pc', rpc')
         /\ \A response : MaySay(r, response) => Truthful(response, pc', rpc')
         /\ \A response : MaySay(r, response) => TruthfulTo(r, response, pc', rpc')
         /\ \A response : TruthfulTo(r, response, pc, rpc) => TruthfulTo(r, response, pc', rpc')
  <1>1. pc'[r] = "done" /\ \A q \in Requests : pc'[q] = pc[q] \/ pc'[q] = "done"
    BY DEF TypeOK
  <1>2. Onward(pc, rpc, pc', rpc')
    BY <1>1 DEF Onward
  <1>3. StageTruth(pc, rpc)
    BY OutcomeInvParts
  <1>4. StageTruth(pc', rpc')
    BY <1>1, <1>3 DEF StageTruth, Unsent, Early
  <1>5. \A response : MaySay(r, response) => Truthful(response, pc', rpc')
    BY <1>1 DEF MaySay, Truthful, Named
  <1>6. ASSUME NEW response, TruthfulTo(r, response, pc, rpc)
        PROVE  TruthfulTo(r, response, pc', rpc')
    BY <1>2, <1>6, TruthfulToStable
  <1>7. ASSUME NEW response, MaySay(r, response) PROVE TruthfulTo(r, response, pc', rpc')
    BY <1>5, <1>7, TruthfulToAll
  <1> QED
    BY <1>2, <1>4, <1>5, <1>6, <1>7

(* A request that ends without touching its row. *)
LEMMA EndTruth ==
  ASSUME TypeOK, OutcomeInv, NEW r \in Requests, NEW response, Finished(r, response),
         UNCHANGED <<row, rpc>>,
         \/ response.status = "none"
         \/ MaySay(r, response)
         \/ TruthfulTo(r, response, pc, rpc)
  PROVE  OutcomeInv'
  <1>1. \A q \in Requests : reply'[q] = IF q = r THEN response ELSE reply[q]
    BY DEF Finished, TypeOK
  <1>2. pc' = [pc EXCEPT ![r] = "done"]
    BY DEF Finished
  <1> QED
    BY <1>1, <1>2, DoneFacts, TruthStep

\* _append_or_fail hands out a truthful response.
LEMMA AppendOrFailTruth ==
  ASSUME TypeOK, OutcomeInv, NEW r \in Requests, pc[r] \in Unsent,
         NEW status, NEW response, AppendOrFail(r, status, response),
         UNCHANGED <<row, rpc>>, MaySay(r, response) \/ Truthful(response, pc, rpc)
  PROVE  OutcomeInv'
  <1> DEFINE failure == NotAttempted(response.by, "before_write")
  <1>1. rpc[r] = "none" /\ pc[r] # "done"
    BY DEF OutcomeInv, Unsent, Early
  <1>2. MaySay(r, failure) \/ TruthfulTo(r, failure, pc, rpc)
    <2>1. CASE MaySay(r, response)
      BY <1>1, <2>1 DEF MaySay, NotAttempted, Failure
    <2>2. CASE Truthful(response, pc, rpc)
      BY <1>1, <2>2 DEF TruthfulTo, Truthful, Named, NotAttempted, Failure
    <2> QED
      BY <2>1, <2>2
  <1>3. MaySay(r, response) \/ TruthfulTo(r, response, pc, rpc)
    BY TruthfulToAll
  <1>4. Finished(r, response) \/ Finished(r, failure)
    BY DEF AppendOrFail
  <1> QED
    BY <1>2, <1>3, <1>4, EndTruth

(* A request that closes its reservation, saying what it may say. *)
LEMMA CloseTruth ==
  ASSUME TypeOK, OutcomeInv, NEW r \in Requests,
         NEW state \in {"succeeded", "failed", "unknown"}, NEW response, NEW tx,
         StoreOutcome(r, state, response, tx),
         MaySay(r, response),
         state = "succeeded" => response.status = "succeeded",
         state = "failed" /\ Adapter = "payroll" => rpc[r] \in {"none", "refused"},
         NEW told, Finished(r, told), told.status = "none" \/ MaySay(r, told),
         rpc' = rpc
  PROVE  OutcomeInv'
  <1> DEFINE k == cmd[r].key
  <1>1. pc' = [pc EXCEPT ![r] = "done"]
    BY DEF Finished
  <1>2. \A q \in Requests : reply'[q] = IF q = r THEN told ELSE reply[q]
    BY DEF Finished, TypeOK
  <1>3. \A j \in Keys : row'[j] = row[j] \/ RowTruth(row'[j], pc', rpc')
    <2>1. CASE OwnsReservation(r) /\ Durable(tx)
      <3>1. row' = [row EXCEPT ![k] = Closed(k, state, response)] /\ row[k].owner = r
        BY <2>1 DEF StoreOutcome, OwnsReservation
      <3>2. \A j \in Keys : j # k => row'[j] = row[j]
        BY <3>1 DEF TypeOK
      <3>3. ASSUME k \in Keys PROVE RowTruth(row'[k], pc', rpc')
        <4>1. /\ row'[k].state = state
              /\ row'[k].owner = r
              /\ row'[k].response = response
          BY <3>1, <3>3 DEF TypeOK, Closed, Row
        <4>2. Truthful(response, pc', rpc')
          BY <1>1, DoneFacts
        <4> QED
          BY <4>1, <4>2 DEF RowTruth, MaySay
      <3> QED
        BY <3>2, <3>3
    <2>2. CASE ~(OwnsReservation(r) /\ Durable(tx))
      BY <2>2 DEF StoreOutcome
    <2> QED
      BY <2>1, <2>2
  <1> QED
    BY <1>1, <1>2, <1>3, DoneFacts, TruthStep

\* _finish_after_attempt stores and hands out truthful responses.
LEMMA FinishTruth ==
  ASSUME TypeOK, OutcomeInv, NEW r \in Requests,
         NEW state \in {"succeeded", "failed", "unknown"}, NEW response, NEW fallback,
         FinishAfterAttempt(r, state, response, fallback),
         MaySay(r, response), MaySay(r, fallback),
         state = "succeeded" => response.status = "succeeded",
         state = "failed" /\ Adapter = "payroll" => rpc[r] \in {"none", "refused"},
         rpc' = rpc
  PROVE  OutcomeInv'
  <1>1. PICK tx \in TxnOutcome :
           /\ StoreOutcome(r, state, response, tx)
           /\ Finished(r, IF OwnsReservation(r) /\ tx = "committed"
                            THEN response ELSE fallback)
    BY DEF FinishAfterAttempt
  <1>2. MaySay(r, IF OwnsReservation(r) /\ tx = "committed" THEN response ELSE fallback)
    OBVIOUS
  <1> QED
    BY <1>1, <1>2, CloseTruth

\* Every step of the coordinator keeps the outcome invariant.
LEMMA StepOutcomeInv ==
  TypeOK /\ OutcomeInv /\ [Next]_vars => OutcomeInv'
  <1> SUFFICES ASSUME TypeOK, OutcomeInv, [Next]_vars PROVE OutcomeInv'
    OBVIOUS
  <1>a. StageTruth(pc, rpc)
    BY OutcomeInvParts
  <1>b. ASSUME NEW r \in Requests, rpc[r] = "none",
               NEW error \in {"refused", "before_write", "odoo"}
        PROVE  MaySay(r, NotAttempted(r, error))
    BY <1>b DEF MaySay, NotAttempted, Failure
  <1>c. ASSUME NEW r \in Requests PROVE MaySay(r, UnknownOutcome(r))
    BY DEF MaySay, UnknownOutcome, Failure
  <1>1. ASSUME NEW r \in Requests,
               \/ \E c \in Commands : Receive(r, c)
               \/ Resolve(r) \/ StartPreview(r) \/ Prepare(r) \/ ValidateCurrentState(r)
        PROVE  OutcomeInv'
    <2>1. /\ UNCHANGED <<row, rpc, reply>>
          /\ pc[r] \in Unsent
          /\ pc'[r] \in Unsent
          /\ \A q \in Requests : q # r => pc'[q] = pc[q]
      BY <1>1 DEF Receive, Resolve, StartPreview, PassesGate, Prepare,
                  ValidateCurrentState, At, Goto, TypeOK, Unsent, Early
    <2>2. Onward(pc, rpc, pc', rpc')
      BY <2>1 DEF Onward, Unsent, Early
    <2>3. StageTruth(pc', rpc')
      BY <1>a, <2>1 DEF StageTruth, Unsent, Early
    <2> QED
      BY <2>1, <2>2, <2>3, TruthStep
  <1>2. ASSUME NEW r \in Requests,
               \/ RejectAtGate(r) \/ Preview(r) \/ RejectNotExplicit(r)
               \/ Conflict(r)
        PROVE  OutcomeInv'
    <2>1. UNCHANGED <<row, rpc>> /\ pc[r] \in Unsent
      BY <1>2 DEF RejectAtGate, Preview, RejectNotExplicit, Conflict, Executes,
                  PassesGate, At, Unsent, Early
    <2>2. rpc[r] = "none"
      BY <2>1, <1>a DEF StageTruth
    <2>3. /\ MaySay(r, Response(r, "preview", "not_attempted"))
          /\ MaySay(r, Response(r, "needs_input", "not_attempted"))
      BY DEF MaySay, Response
    <2>4. \E status, response : AppendOrFail(r, status, response) /\ MaySay(r, response)
      <3>1. CASE RejectAtGate(r)
        BY <1>b, <2>2, <3>1 DEF RejectAtGate
      <3>2. CASE Preview(r)
        BY <1>b, <2>2, <2>3, <3>2 DEF Preview
      <3>3. CASE RejectNotExplicit(r)
        BY <1>b, <2>2, <3>3 DEF RejectNotExplicit
      <3>4. CASE Conflict(r)
        BY <1>b, <2>2, <3>4 DEF Conflict
      <3> QED
        BY <1>2, <3>1, <3>2, <3>3, <3>4
    <2> QED
      BY <2>1, <2>4, AppendOrFailTruth
  <1>3. ASSUME NEW r \in Requests, Replay(r) PROVE OutcomeInv'
    <2> DEFINE k == cmd[r].key
    <2>1. k \in Keys
      BY <1>3, CommandsAssumption DEF Replay, Executes, TypeOK, Command
    <2>2. row[k].state \in {"succeeded", "failed", "unknown"}
      BY <1>3, <2>1 DEF Replay, Free, TypeOK, Row, RowState
    <2>3. Truthful(row[k].response, pc, rpc)
      BY <2>1, <2>2 DEF OutcomeInv
    <2>4. pc[r] \in Unsent /\ UNCHANGED <<row, rpc>>
      BY <1>3 DEF Replay, Executes, PassesGate, At, Unsent, Early
    <2>5. AppendOrFail(r, "replayed", row[k].response)
      BY <1>3 DEF Replay
    <2> QED
      BY <2>3, <2>4, <2>5, AppendOrFailTruth
  <1>4. ASSUME NEW r \in Requests, ResolveFails(r) \/ BeginFails(r)
        PROVE  OutcomeInv'
    <2>1. UNCHANGED <<row, rpc>> /\ pc[r] \in Unsent
      BY <1>4 DEF ResolveFails, BeginFails, Executes, PassesGate, At, Unsent, Early
    <2>2. rpc[r] = "none"
      BY <2>1, <1>a DEF StageTruth
    <2> QED
      BY <1>4, <1>b, <2>1, <2>2, EndTruth DEF ResolveFails, BeginFails
  <1>5. ASSUME NEW r \in Requests, CancelEarly(r) \/ Crash(r) PROVE OutcomeInv'
    <2>1. UNCHANGED <<row, rpc>> /\ Finished(r, NoReply) /\ NoReply.status = "none"
      BY <1>5 DEF CancelEarly, Crash, NoReply
    <2> QED
      BY <2>1, EndTruth
  <1>6. ASSUME NEW r \in Requests, Reserve(r) PROVE OutcomeInv'
    <2> DEFINE k == cmd[r].key
    <2>1. pc[r] = "received" /\ rpc[r] = "none"
      BY <1>6, <1>a DEF Reserve, Executes, PassesGate, At, StageTruth, Unsent, Early
    <2>2. /\ \A q \in Requests : q # r => pc'[q] = pc[q] /\ reply'[q] = reply[q]
          /\ \/ pc'[r] = "preparing" /\ reply'[r] = reply[r]
             \/ pc'[r] = "done" /\ reply'[r] = NotAttempted(r, "before_write")
          /\ rpc' = rpc
      BY <1>6 DEF Reserve, Goto, Finished, TypeOK
    <2>3. Onward(pc, rpc, pc', rpc')
      BY <2>1, <2>2 DEF Onward
    <2>4. StageTruth(pc', rpc')
      BY <1>a, <2>1, <2>2 DEF StageTruth, Unsent, Early
    <2>5. row' = [row EXCEPT ![k] = NewRow(r)] /\ NewRow(r).state = "in_progress"
      BY <1>6 DEF Reserve, NewRow
    <2>6. \A j \in Keys : row'[j] = row[j] \/ RowTruth(row'[j], pc', rpc')
      BY <2>5 DEF RowTruth, TypeOK
    <2>7. pc'[r] = "done" => TruthfulTo(r, NotAttempted(r, "before_write"), pc', rpc')
      BY <2>1, <2>2 DEF TruthfulTo, Truthful, Named, NotAttempted, Failure
    <2> QED
      BY <2>2, <2>3, <2>4, <2>6, <2>7, TruthStep
  <1>7. ASSUME NEW r \in Requests, PrepareNeedsInput(r) \/ PreWriteFails(r)
        PROVE  OutcomeInv'
    <2>1. rpc' = rpc /\ pc[r] \in Unsent
      BY <1>7 DEF PrepareNeedsInput, PreWriteFails, At, Unsent
    <2>2. rpc[r] = "none"
      BY <2>1, <1>a DEF StageTruth
    <2>3. MaySay(r, Response(r, "needs_input", "not_attempted"))
      BY DEF MaySay, Response
    <2>4. CASE PrepareNeedsInput(r)
      BY <2>1, <2>2, <2>3, <2>4, FinishTruth DEF PrepareNeedsInput
    <2>5. CASE PreWriteFails(r)
      BY <1>b, <2>1, <2>2, <2>5, FinishTruth DEF PreWriteFails
    <2> QED
      BY <1>7, <2>4, <2>5
  <1>8. ASSUME NEW r \in Requests, SendMutation(r) PROVE OutcomeInv'
    <2>1. /\ pc[r] = "executing" /\ rpc[r] = "none"
          /\ pc'[r] = "mutating"
          /\ \A q \in Requests : q # r => pc'[q] = pc[q] /\ rpc'[q] = rpc[q]
          /\ UNCHANGED <<row, reply>>
      BY <1>8, <1>a DEF SendMutation, At, Goto, TypeOK, StageTruth, Unsent
    <2>2. Onward(pc, rpc, pc', rpc')
      BY <2>1 DEF Onward
    <2>3. StageTruth(pc', rpc')
      BY <1>a, <2>1 DEF StageTruth, Unsent, Early
    <2> QED
      BY <2>1, <2>2, <2>3, TruthStep
  <1>9. ASSUME NEW r \in Requests, MutationReturns(r) PROVE OutcomeInv'
    <2>1. /\ pc[r] = "mutating" /\ rpc[r] = "applied" /\ rpc' = rpc
          /\ pc'[r] = "reading_back"
          /\ \A q \in Requests : q # r => pc'[q] = pc[q]
          /\ UNCHANGED <<row, reply>>
      BY <1>9 DEF MutationReturns, At, Goto, TypeOK
    <2>2. Onward(pc, rpc, pc', rpc')
      BY <2>1 DEF Onward
    <2>3. StageTruth(pc', rpc')
      BY <1>a, <2>1 DEF StageTruth, Unsent, Early
    <2> QED
      BY <2>1, <2>2, <2>3, TruthStep
  <1>10. ASSUME NEW r \in Requests, Succeed(r) PROVE OutcomeInv'
    <2>1. rpc[r] = "applied" /\ rpc' = rpc
      BY <1>10, <1>a DEF Succeed, At, StageTruth
    <2>2. /\ MaySay(r, Response(r, "succeeded", "known"))
          /\ Response(r, "succeeded", "known").status = "succeeded"
      BY <2>1 DEF MaySay, Response
    <2> QED
      BY <1>10, <1>c, <2>1, <2>2, FinishTruth DEF Succeed
  <1>11. ASSUME NEW r \in Requests, KnownWriteFailure(r) PROVE OutcomeInv'
    <2>1. PICK cause \in FailureCauses(r) : IsKnownFailure(pc[r], cause)
      BY <1>11 DEF KnownWriteFailure
    <2>2. Adapter = "payroll" => rpc[r] \in {"none", "refused"}
      <3> SUFFICES ASSUME Adapter = "payroll" PROVE rpc[r] \in {"none", "refused"}
        OBVIOUS
      <3>1. PayrollKnownFailure(pc[r], cause)
        BY <2>1 DEF IsKnownFailure
      <3>2. CASE pc[r] = "executing"
        BY <1>a, <3>2 DEF StageTruth, Unsent
      <3>3. CASE pc[r] = "mutating" /\ cause = "denied"
        BY <2>1, <3>3 DEF FailureCauses
      <3> QED
        BY <3>1, <3>2, <3>3 DEF PayrollKnownFailure
    <2>3. MaySay(r, Failure(r, "odoo", "known")) /\ rpc' = rpc
      BY <1>11, <2>2 DEF MaySay, Failure, KnownWriteFailure
    <2> QED
      BY <1>11, <2>2, <2>3, FinishTruth DEF KnownWriteFailure
  <1>12. ASSUME NEW r \in Requests, FinalizeUnknown(r) PROVE OutcomeInv'
    BY <1>12, <1>c, FinishTruth DEF FinalizeUnknown
  <1>13. ASSUME NEW r \in Requests, CancelHolding(r) PROVE OutcomeInv'
    <2>1. Finished(r, NoReply) /\ NoReply.status = "none" /\ rpc' = rpc
      BY <1>13 DEF CancelHolding, NoReply
    <2>2. PICK tx \in TxnOutcome :
             IF pc[r] \in {"preparing", "validating"}
               THEN StoreOutcome(r, "failed", NotAttempted(r, "before_write"), tx)
               ELSE StoreOutcome(r, "unknown", UnknownOutcome(r), tx)
      BY <1>13 DEF CancelHolding
    <2>3. CASE pc[r] \in {"preparing", "validating"}
      <3>1. rpc[r] = "none"
        BY <1>a, <2>3 DEF StageTruth, Unsent
      <3> QED
        BY <1>b, <2>1, <2>2, <2>3, <3>1, CloseTruth
    <2>4. CASE pc[r] \notin {"preparing", "validating"}
      BY <1>c, <2>1, <2>2, <2>4, CloseTruth
    <2> QED
      BY <2>3, <2>4
  <1>14. ASSUME NEW r \in Requests, OdooApplies(r) \/ OdooRefuses(r) PROVE OutcomeInv'
    <2>1. /\ UNCHANGED <<pc, row, reply>>
          /\ rpc[r] = "sent"
          /\ \A q \in Requests : q # r => rpc'[q] = rpc[q]
      BY <1>14 DEF OdooApplies, OdooRefuses, TypeOK
    <2>2. Onward(pc, rpc, pc', rpc')
      BY <2>1 DEF Onward
    <2>3. StageTruth(pc', rpc')
      BY <1>a, <2>1 DEF StageTruth
    <2> QED
      BY <2>1, <2>2, <2>3, TruthStep
  <1>15. CASE Tick \/ UNCHANGED vars
    <2>1. UNCHANGED <<pc, row, reply, rpc>>
      BY <1>15 DEF Tick, vars
    <2> QED
      BY <2>1 DEF OutcomeInv
  <1> QED
    BY <1>1, <1>2, <1>3, <1>4, <1>5, <1>6, <1>7, <1>8, <1>9, <1>10, <1>11, <1>12,
       <1>13, <1>14, <1>15 DEF Next, Proceed

\* Stored and returned responses stay truthful about the mutating call of the
\* request they name, through cancellations, crashes and late answers of Odoo.
THEOREM OutcomeInvariant == Spec => []OutcomeInv
  BY TypeCorrect, InitOutcomeInv, StepOutcomeInv, PTL DEF Spec

(* Nothing reports or stores a success that Odoo did not apply. *)
THEOREM SuccessIsReal == Spec => []SuccessMeansApplied
  <1>1. OutcomeInv => SuccessMeansApplied
    BY DEF OutcomeInv, SuccessMeansApplied, Truthful, TruthfulTo, Named
  <1> QED
    BY <1>1, OutcomeInvariant, PTL

(* Under the payroll classification a stored failure is final, and so is one  *)
(* a client is told of, except by a replay that could not be audited: the     *)
(* mutation was not applied and cannot land any more.                         *)
THEOREM PayrollFailureIsReal ==
  Adapter = "payroll" => (Spec => []FailureMeansNotApplied)
  <1> SUFFICES ASSUME Adapter = "payroll" PROVE Spec => []FailureMeansNotApplied
    OBVIOUS
  <1>1. OutcomeInv => FailureMeansNotApplied
    BY DEF OutcomeInv, FailureMeansNotApplied, Truthful, TruthfulTo, Denies, Landed
  <1> QED
    BY <1>1, OutcomeInvariant, PTL

----------------------------------------------------------------------------
(* The journal and the audit log tell the same story. *)

\* What Append does to the two logs a request can have.
LEMMA AppendFacts ==
  ASSUME NEW status
  PROVE  /\ Append(<<>>, status) = <<status>>
         /\ Append(<<"attempted">>, status) = <<"attempted", status>>
         /\ <<"attempted">> # <<>>
         /\ <<"attempted", status>> # <<>>
  <1>1. Append(<<>>, status) = <<status>>
    OBVIOUS
  <1>2. Append(<<"attempted">>, status) = <<"attempted", status>>
    <2> DEFINE S == {"attempted", status}
    <2> DEFINE s == Append(<<"attempted">>, status)
    <2> DEFINE t == <<"attempted", status>>
    <2>1. <<"attempted">> \in Seq(S) /\ status \in S
      OBVIOUS
    <2>2. s \in Seq(S) /\ Len(s) = 2 /\ s[1] = "attempted" /\ s[2] = status
      BY <2>1
    <2>3. t \in Seq(S) /\ Len(t) = 2 /\ t[1] = "attempted" /\ t[2] = status
      OBVIOUS
    <2>4. s = [i \in 1..2 |-> s[i]]
      BY <2>2
    <2>5. t = [i \in 1..2 |-> t[i]]
      BY <2>3
    <2>6. \A i \in 1..2 : s[i] = t[i]
      BY <2>2, <2>3
    <2> HIDE DEF s, t
    <2>7. s = t
      BY <2>4, <2>5, <2>6
    <2> QED
      BY <2>7 DEF s, t
  <1>3. <<"attempted">> # <<>> /\ <<"attempted", status>> # <<>>
    OBVIOUS
  <1> QED
    BY <1>1, <1>2, <1>3

\* The journal invariant holds before the first call.
LEMMA InitJournalInv == Init => JournalInv
  <1> SUFFICES ASSUME Init PROVE JournalInv
    OBVIOUS
  <1>1. \A r \in Requests : audit[r] = <<>> /\ rpc[r] = "none"
    BY DEF Init
  <1>2. \A k \in Keys : row[k].state = "absent"
    BY DEF Init
  <1> QED
    BY <1>1, <1>2 DEF JournalInv, JournalMatchesAudit

(* A step that leaves rows, logs and the set of sent calls alone.             *)
LEMMA QuietJournal ==
  ASSUME JournalInv, UNCHANGED <<row, audit>>,
         \A q \in Requests : pc'[q] \in Early => pc[q] \in Early,
         \A q \in Requests : rpc'[q] # "none" => rpc[q] # "none"
  PROVE  JournalInv'
  BY DEF JournalInv, JournalMatchesAudit, StatusOf

(* A request that ends before it reserved a key: its audit row belongs to no  *)
(* reservation, and it has sent nothing.                                      *)
LEMMA EarlyJournal ==
  ASSUME TypeOK, ReservationInv, JournalInv, NEW r \in Requests, pc[r] \in Early,
         pc' = [pc EXCEPT ![r] = "done"], UNCHANGED <<row, rpc>>,
         NEW status, audit' = audit \/ audit' = Logged(r, status)
  PROVE  JournalInv'
  <1>1. \A q \in Requests : q # r => audit'[q] = audit[q]
    BY DEF Logged, TypeOK
  <1>2. \A q \in Requests : pc'[q] \in Early => q # r /\ pc[q] \in Early
    BY DEF TypeOK, Early
  <1>3. reservedAt[r] = NoTime /\ rpc[r] = "none"
    BY DEF ReservationInv
  <1>4. \A k \in Keys : row[k].state # "absent" => row[k].owner \in Requests \ {r}
    BY <1>3 DEF ReservationInv
  <1>5. (\A q \in Requests : pc[q] \in Early => audit[q] = <<>>)'
    BY <1>1, <1>2 DEF JournalInv
  <1>6. JournalMatchesAudit'
    BY <1>1, <1>3, <1>4 DEF JournalInv, JournalMatchesAudit, StatusOf
  <1> QED
    BY <1>5, <1>6 DEF JournalInv

\* _append_or_fail audits a request that holds nothing.
LEMMA AppendOrFailJournal ==
  ASSUME TypeOK, ReservationInv, JournalInv, NEW r \in Requests, pc[r] \in Early,
         NEW status, NEW response, AppendOrFail(r, status, response),
         UNCHANGED <<row, rpc>>
  PROVE  JournalInv'
  <1>1. pc' = [pc EXCEPT ![r] = "done"]
    BY DEF AppendOrFail, Finished
  <1>2. audit' = audit \/ audit' = Logged(r, status)
    BY DEF AppendOrFail
  <1> QED
    BY <1>1, <1>2, EarlyJournal

(* A request that closes its reservation, or fails to: the second audit row   *)
(* and the state of the row are those of one transaction.                     *)
LEMMA CloseJournal ==
  ASSUME TypeOK, ReservationInv, JournalInv, NEW r \in Requests, pc[r] \in Holding,
         pc' = [pc EXCEPT ![r] = "done"], UNCHANGED rpc,
         NEW state \in {"succeeded", "failed", "unknown"}, NEW response, NEW tx,
         StoreOutcome(r, state, response, tx)
  PROVE  JournalInv'
  <1> DEFINE k == cmd[r].key
  <1>1. k \in Keys /\ OwnsReservation(r)
    BY DEF ReservationInv, HolderOwnsItsRow
  <1>2. \A q \in Requests : pc'[q] \in Early => q # r /\ pc[q] \in Early
    BY DEF TypeOK, Early
  <1>3. CASE Durable(tx)
    <2>1. /\ row' = [row EXCEPT ![k] = Closed(k, state, response)]
          /\ audit' = Logged(r, StatusOf(state, response))
      BY <1>1, <1>3 DEF StoreOutcome
    <2>2. audit[r] = <<"attempted">>
      BY <1>1 DEF JournalInv, JournalMatchesAudit, OwnsReservation
    <2>3. /\ audit'[r] = <<"attempted", StatusOf(state, response)>>
          /\ \A q \in Requests : q # r => audit'[q] = audit[q]
      BY <2>1, <2>2, AppendFacts DEF Logged, TypeOK
    <2>4. /\ row'[k].state = state /\ row'[k].owner = r /\ row'[k].response = response
          /\ \A j \in Keys : j # k => row'[j] = row[j]
      BY <1>1, <2>1 DEF Closed, OwnsReservation, TypeOK, Row
    <2>5. \A j \in Keys : j # k /\ row[j].state # "absent" => row[j].owner \in Requests \ {r}
      BY DEF ReservationInv
    <2>6. (\A q \in Requests : pc[q] \in Early => audit[q] = <<>>)'
      BY <1>2, <2>3 DEF JournalInv
    <2>7. (\A j \in Keys :
             row[j].state # "absent" =>
                audit[row[j].owner] =
                   IF row[j].state = "in_progress"
                     THEN <<"attempted">>
                     ELSE <<"attempted", StatusOf(row[j].state, row[j].response)>>)'
      <3> SUFFICES ASSUME NEW j \in Keys, row'[j].state # "absent"
                   PROVE  audit'[row'[j].owner] =
                             IF row'[j].state = "in_progress"
                               THEN <<"attempted">>
                               ELSE <<"attempted", StatusOf(row'[j].state, row'[j].response)>>
        BY DEF StatusOf
      <3>1. CASE j = k
        BY <2>3, <2>4, <3>1
      <3>2. CASE j # k
        BY <2>3, <2>4, <2>5, <3>2 DEF JournalInv, JournalMatchesAudit
      <3> QED
        BY <3>1, <3>2
    <2>8. (\A q \in Requests : rpc[q] # "none" => audit[q] # <<>> /\ audit[q][1] = "attempted")'
      BY <2>3 DEF JournalInv, JournalMatchesAudit
    <2> QED
      BY <2>6, <2>7, <2>8 DEF JournalInv, JournalMatchesAudit
  <1>4. CASE ~Durable(tx)
    <2>1. UNCHANGED <<row, audit>>
      BY <1>4 DEF StoreOutcome
    <2> QED
      BY <1>2, <2>1, QuietJournal
  <1> QED
    BY <1>3, <1>4

\* _finish_after_attempt closes the reservation of the request that holds it.
LEMMA FinishJournal ==
  ASSUME TypeOK, ReservationInv, JournalInv, NEW r \in Requests, pc[r] \in Holding,
         NEW state \in {"succeeded", "failed", "unknown"}, NEW response, NEW fallback,
         FinishAfterAttempt(r, state, response, fallback), UNCHANGED rpc
  PROVE  JournalInv'
  BY CloseJournal DEF FinishAfterAttempt, Finished

\* ExecutionJournal.begin: the row and its first audit row commit together.
LEMMA ReserveJournal ==
  ASSUME TypeOK, ReservationInv, JournalInv, NEW r \in Requests, Reserve(r)
  PROVE  JournalInv'
  <1> DEFINE k == cmd[r].key
  <1>1. k \in Keys
    BY CommandsAssumption DEF Reserve, Executes, TypeOK, Command
  <1>2. pc[r] \in Early /\ audit[r] = <<>> /\ reservedAt[r] = NoTime
    BY DEF Reserve, Executes, PassesGate, At, ReservationInv, JournalInv, Early
  <1>3. /\ row' = [row EXCEPT ![k] = NewRow(r)]
        /\ audit' = Logged(r, "attempted")
        /\ rpc' = rpc
    BY DEF Reserve
  <1>4. /\ audit'[r] = <<"attempted">>
        /\ \A q \in Requests : q # r => audit'[q] = audit[q]
    BY <1>2, <1>3, AppendFacts DEF Logged, TypeOK
  <1>5. /\ row'[k].state = "in_progress" /\ row'[k].owner = r
        /\ \A j \in Keys : j # k => row'[j] = row[j]
    BY <1>1, <1>3 DEF NewRow, TypeOK
  <1>6. \A j \in Keys : row[j].state # "absent" => row[j].owner \in Requests \ {r}
    BY <1>2 DEF ReservationInv
  <1>7. \A q \in Requests : pc'[q] \in Early => q # r /\ pc[q] \in Early
    BY DEF Reserve, Goto, Finished, TypeOK, Early
  <1>8. (\A q \in Requests : pc[q] \in Early => audit[q] = <<>>)'
    BY <1>4, <1>7 DEF JournalInv
  <1>9. (\A j \in Keys :
           row[j].state # "absent" =>
              audit[row[j].owner] =
                 IF row[j].state = "in_progress"
                   THEN <<"attempted">>
                   ELSE <<"attempted", StatusOf(row[j].state, row[j].response)>>)'
    <2> SUFFICES ASSUME NEW j \in Keys, row'[j].state # "absent"
                 PROVE  audit'[row'[j].owner] =
                           IF row'[j].state = "in_progress"
                             THEN <<"attempted">>
                             ELSE <<"attempted", StatusOf(row'[j].state, row'[j].response)>>
      BY DEF StatusOf
    <2>1. CASE j = k
      BY <1>4, <1>5, <2>1
    <2>2. CASE j # k
      BY <1>4, <1>5, <1>6, <2>2 DEF JournalInv, JournalMatchesAudit
    <2> QED
      BY <2>1, <2>2
  <1>10. (\A q \in Requests : rpc[q] # "none" => audit[q] # <<>> /\ audit[q][1] = "attempted")'
    BY <1>3, <1>4, AppendFacts DEF JournalInv, JournalMatchesAudit
  <1> QED
    BY <1>8, <1>9, <1>10 DEF JournalInv, JournalMatchesAudit

\* Every step of the coordinator keeps the journal invariant.
LEMMA StepJournalInv ==
  TypeOK /\ ReservationInv /\ JournalInv /\ [Next]_vars => JournalInv'
  <1> SUFFICES ASSUME TypeOK, ReservationInv, JournalInv, [Next]_vars PROVE JournalInv'
    OBVIOUS
  <1>1. ASSUME NEW r \in Requests,
               \/ \E c \in Commands : Receive(r, c)
               \/ Resolve(r) \/ StartPreview(r) \/ Prepare(r)
               \/ ValidateCurrentState(r) \/ MutationReturns(r)
        PROVE  JournalInv'
    <2>1. /\ UNCHANGED <<row, audit, rpc>>
          /\ pc'[r] \in Early => pc[r] \in Early
          /\ \A q \in Requests : q # r => pc'[q] = pc[q]
      BY <1>1 DEF Receive, Resolve, StartPreview, PassesGate, Prepare, MutationReturns,
                  ValidateCurrentState, At, Goto, TypeOK, Early
    <2> QED
      BY <2>1, QuietJournal
  <1>2. ASSUME NEW r \in Requests,
               RejectAtGate(r) \/ Preview(r) \/ RejectNotExplicit(r) \/ Conflict(r) \/ Replay(r)
        PROVE  JournalInv'
    <2>1. UNCHANGED <<row, rpc>> /\ pc[r] \in Early
      BY <1>2 DEF RejectAtGate, Preview, RejectNotExplicit, Conflict, Replay, Executes,
                  PassesGate, At, Early
    <2>2. \E status, response : AppendOrFail(r, status, response)
      BY <1>2 DEF RejectAtGate, Preview, RejectNotExplicit, Conflict, Replay
    <2> QED
      BY <2>1, <2>2, AppendOrFailJournal
  <1>3. ASSUME NEW r \in Requests, ResolveFails(r) \/ BeginFails(r) \/ CancelEarly(r)
        PROVE  JournalInv'
    <2>1. /\ UNCHANGED <<row, rpc>> /\ pc[r] \in Early
          /\ pc' = [pc EXCEPT ![r] = "done"]
          /\ audit' = audit \/ audit' = Logged(r, "failed")
      BY <1>3 DEF ResolveFails, BeginFails, CancelEarly, Executes, PassesGate, At, Early,
                  Finished
    <2> QED
      BY <2>1, EarlyJournal
  <1>4. ASSUME NEW r \in Requests, Crash(r) PROVE JournalInv'
    <2>1. /\ UNCHANGED <<row, audit, rpc>>
          /\ \A q \in Requests : pc'[q] \in Early => pc[q] \in Early
      BY <1>4 DEF Crash, Finished, TypeOK, Early
    <2> QED
      BY <2>1, QuietJournal
  <1>5. ASSUME NEW r \in Requests, Reserve(r) PROVE JournalInv'
    BY <1>5, ReserveJournal
  <1>6. ASSUME NEW r \in Requests,
               \/ PrepareNeedsInput(r) \/ PreWriteFails(r) \/ Succeed(r)
               \/ KnownWriteFailure(r) \/ FinalizeUnknown(r)
        PROVE  JournalInv'
    <2>1. UNCHANGED rpc /\ pc[r] \in Holding
      BY <1>6 DEF PrepareNeedsInput, PreWriteFails, Succeed, KnownWriteFailure,
                  FinalizeUnknown, FailureCauses, At, Holding
    <2>2. \E state \in {"succeeded", "failed", "unknown"} : \E response, fallback :
             FinishAfterAttempt(r, state, response, fallback)
      BY <1>6 DEF PrepareNeedsInput, PreWriteFails, Succeed, KnownWriteFailure, FinalizeUnknown
    <2> QED
      BY <2>1, <2>2, FinishJournal
  <1>7. ASSUME NEW r \in Requests, CancelHolding(r) PROVE JournalInv'
    <2>1. UNCHANGED rpc /\ pc[r] \in Holding /\ pc' = [pc EXCEPT ![r] = "done"]
      BY <1>7 DEF CancelHolding, Finished
    <2>2. \E state \in {"succeeded", "failed", "unknown"} : \E response, tx :
             StoreOutcome(r, state, response, tx)
      BY <1>7 DEF CancelHolding
    <2> QED
      BY <2>1, <2>2, CloseJournal
  <1>8. ASSUME NEW r \in Requests, SendMutation(r) PROVE JournalInv'
    <2>1. /\ UNCHANGED <<row, audit>> /\ pc[r] \in Holding
          /\ \A q \in Requests : q # r => pc'[q] = pc[q] /\ rpc'[q] = rpc[q]
          /\ pc'[r] \notin Early
      BY <1>8 DEF SendMutation, At, Goto, TypeOK, Holding, Early
    <2>2. cmd[r].key \in Keys /\ OwnsReservation(r)
      BY <2>1 DEF ReservationInv, HolderOwnsItsRow
    <2>3. audit[r] = <<"attempted">>
      BY <2>2 DEF JournalInv, JournalMatchesAudit, OwnsReservation
    <2>4. (\A q \in Requests : pc[q] \in Early => audit[q] = <<>>)'
      BY <2>1 DEF JournalInv
    <2>5. (\A q \in Requests : rpc[q] # "none" => audit[q] # <<>> /\ audit[q][1] = "attempted")'
      BY <2>1, <2>3, AppendFacts DEF JournalInv, JournalMatchesAudit
    <2> QED
      BY <2>1, <2>4, <2>5 DEF JournalInv, JournalMatchesAudit, StatusOf
  <1>9. ASSUME NEW r \in Requests, OdooApplies(r) \/ OdooRefuses(r) PROVE JournalInv'
    <2>1. UNCHANGED <<pc, row, audit>> /\ \A q \in Requests : rpc'[q] # "none" => rpc[q] # "none"
      BY <1>9 DEF OdooApplies, OdooRefuses, TypeOK
    <2> QED
      BY <2>1, QuietJournal
  <1>10. CASE Tick \/ UNCHANGED vars
    <2>1. UNCHANGED <<pc, row, audit, rpc>>
      BY <1>10 DEF Tick, vars
    <2> QED
      BY <2>1, QuietJournal
  <1> QED
    BY <1>1, <1>2, <1>3, <1>4, <1>5, <1>6, <1>7, <1>8, <1>9, <1>10 DEF Next, Proceed

(* The audit rows of the call that owns a reservation always tell the state   *)
(* of its row, and no mutating call is sent before its attempt is on record.  *)
THEOREM JournalIsAudited == Spec => []JournalMatchesAudit
  <1>1. JournalInv => JournalMatchesAudit
    BY DEF JournalInv
  <1>2. Spec => []JournalInv
    BY TypeCorrect, ReservationInvariant, InitJournalInv, StepJournalInv, PTL DEF Spec
  <1> QED
    BY <1>1, <1>2, PTL

----------------------------------------------------------------------------
(* The coordinator implements WriteOnce. *)

\* What a closed reservation is to WriteOnce.
LEMMA ClaimStates ==
  /\ ClaimState("absent") = "none"
  /\ ClaimState("in_progress") = "open"
  /\ ClaimState("unknown") = "blocked"
  /\ ClaimState("succeeded") = "settled"
  /\ ClaimState("failed") = "settled"
  BY DEF ClaimState

(* A step that keeps the clock and the rows, and sends no call for the first  *)
(* time, is a stutter of WriteOnce.                                           *)
LEMMA OnceStutter ==
  ASSUME UNCHANGED <<clock, row>>, UNCHANGED rpc \/ Sent' = Sent
  PROVE  UNCHANGED Once!onceVars
  <1>1. UNCHANGED <<Claimant, ClaimedAt, ClaimOf, Sent>>
    BY DEF Claimant, ClaimedAt, ClaimOf, Sent
  <1> QED
    BY <1>1 DEF Once!onceVars

(* A request that closes its reservation closes the claim; a store that does  *)
(* not commit leaves it open.                                                 *)
LEMMA CloseOnce ==
  ASSUME TypeOK, NEW r \in Requests, UNCHANGED <<clock, rpc>>,
         cmd[r].key \in Keys,
         NEW state \in {"succeeded", "failed", "unknown"}, NEW response, NEW tx,
         StoreOutcome(r, state, response, tx)
  PROVE  [Once!OnceNext]_(Once!onceVars)
  <1> DEFINE k == cmd[r].key
  <1>1. CASE OwnsReservation(r) /\ Durable(tx)
    <2>1. row' = [row EXCEPT ![k] = Closed(k, state, response)]
      BY <1>1 DEF StoreOutcome
    <2>2. /\ row'[k].state = state
          /\ row'[k].owner = row[k].owner
          /\ row'[k].expires = row[k].expires
          /\ \A j \in Keys : j # k => row'[j] = row[j]
          /\ row[k].state = "in_progress"
      BY <1>1, <2>1 DEF TypeOK, Closed, Row, OwnsReservation
    <2>3. UNCHANGED <<Claimant, ClaimedAt, Sent>>
      <3>1. \A j \in Keys : /\ row'[j].owner = row[j].owner
                            /\ row'[j].expires = row[j].expires
                            /\ row'[j].state = "absent" <=> row[j].state = "absent"
        BY <2>2
      <3> QED
        BY <3>1 DEF Claimant, ClaimedAt, Sent
    <2>4. ClaimOf[k] = "open"
      BY <2>2, ClaimStates DEF ClaimOf
    <2>5. ClaimOf' = [ClaimOf EXCEPT ![k] = ClaimState(state)]
      BY <2>2 DEF ClaimOf
    <2>6. ClaimState(state) \in {"settled", "blocked"}
      BY ClaimStates
    <2>7. Once!Close(k)
      BY <2>3, <2>4, <2>5, <2>6 DEF Once!Close
    <2> QED
      BY <2>7 DEF Once!OnceNext
  <1>2. CASE ~(OwnsReservation(r) /\ Durable(tx))
    BY <1>2, OnceStutter DEF StoreOutcome
  <1> QED
    BY <1>1, <1>2

\* _finish_after_attempt closes the claim of its request, or leaves it open.
LEMMA FinishOnce ==
  ASSUME TypeOK, ReservationInv, NEW r \in Requests, pc[r] \in Holding,
         UNCHANGED <<clock, rpc>>,
         NEW state \in {"succeeded", "failed", "unknown"}, NEW response, NEW fallback,
         FinishAfterAttempt(r, state, response, fallback)
  PROVE  [Once!OnceNext]_(Once!onceVars)
  <1>1. cmd[r].key \in Keys
    BY DEF ReservationInv, HolderOwnsItsRow
  <1> QED
    BY <1>1, CloseOnce DEF FinishAfterAttempt

\* ExecutionJournal.begin claims a key that is free.
LEMMA ReserveOnce ==
  ASSUME TypeOK, ReservationInv, NEW r \in Requests, Reserve(r)
  PROVE  Once!Claim(cmd[r].key, r) /\ cmd[r].key \in Keys
  <1> DEFINE k == cmd[r].key
  <1>1. k \in Keys
    BY CommandsAssumption DEF Reserve, Executes, TypeOK, Command
  <1>2. clock \in Nat /\ TTL \in Nat /\ row[k].expires \in Nat
    BY <1>1, WriteSafetyAssumption DEF TypeOK, Row
  <1>3. /\ row' = [row EXCEPT ![k] = NewRow(r)]
        /\ UNCHANGED <<clock, rpc>>
    BY DEF Reserve
  <1>4. /\ row'[k].state = "in_progress" /\ row'[k].owner = r
        /\ row'[k].expires = clock + TTL
        /\ \A j \in Keys : j # k => row'[j] = row[j]
    BY <1>1, <1>3 DEF NewRow, TypeOK
  <1>5. \/ ClaimOf[k] = "none"
        \/ ClaimOf[k] = "settled" /\ ClaimedAt[k] + TTL <= clock
    <2>1. CASE row[k].state = "absent"
      BY <1>1, <2>1, ClaimStates DEF ClaimOf
    <2>2. CASE row[k].state \in {"succeeded", "failed"} /\ row[k].expires <= clock
      <3>1. ClaimedAt[k] = row[k].expires - TTL
        BY <1>1, <2>2 DEF ClaimedAt
      <3>2. ClaimedAt[k] + TTL <= clock
        BY <1>2, <2>2, <3>1
      <3> QED
        BY <1>1, <2>2, <3>2, ClaimStates DEF ClaimOf
    <2> QED
      BY <2>1, <2>2 DEF Reserve, Free
  <1>6. r \notin Sent
    BY DEF Sent, Reserve, Executes, PassesGate, At, ReservationInv, Early
  <1>7. Claimant' = [Claimant EXCEPT ![k] = r]
    BY <1>4 DEF Claimant
  <1>8. ClaimedAt' = [ClaimedAt EXCEPT ![k] = clock]
    <2>1. row'[k].expires - TTL = clock
      BY <1>2, <1>4
    <2> QED
      BY <1>4, <2>1 DEF ClaimedAt
  <1>9. ClaimOf' = [ClaimOf EXCEPT ![k] = "open"]
    BY <1>4, ClaimStates DEF ClaimOf
  <1>10. Sent' = Sent
    BY <1>3 DEF Sent
  <1> QED
    BY <1>1, <1>3, <1>5, <1>6, <1>7, <1>8, <1>9, <1>10 DEF Once!Claim

\* execute() sends the call of a claimant whose claim is open.
LEMMA SendOnce ==
  ASSUME TypeOK, ReservationInv, OutcomeInv, NEW r \in Requests, SendMutation(r)
  PROVE  Once!Send(cmd[r].key, r) /\ cmd[r].key \in Keys
  <1> DEFINE k == cmd[r].key
  <1>1. k \in Keys /\ OwnsReservation(r)
    BY DEF SendMutation, At, Holding, ReservationInv, HolderOwnsItsRow
  <1>2. rpc[r] = "none"
    BY DEF SendMutation, At, OutcomeInv, Unsent
  <1>3. Claimant[k] = r /\ ClaimOf[k] = "open"
    BY <1>1, ClaimStates DEF Claimant, ClaimOf, OwnsReservation
  <1>4. r \notin Sent
    BY <1>2 DEF Sent
  <1>5. Sent' = Sent \cup {r}
    BY DEF SendMutation, Sent, TypeOK
  <1>6. UNCHANGED <<clock, Claimant, ClaimedAt, ClaimOf>>
    BY DEF SendMutation, Claimant, ClaimedAt, ClaimOf
  <1> QED
    BY <1>1, <1>3, <1>4, <1>5, <1>6 DEF Once!Send

\* Before the first call nothing is claimed and nothing is sent.
LEMMA InitOnce == Init => Once!OnceInit
  <1> SUFFICES ASSUME Init PROVE Once!OnceInit
    OBVIOUS
  <1>1. \A k \in Keys : row[k].state = "absent" /\ row[k].owner = NoRequest
    BY DEF Init
  <1>2. /\ Claimant = [k \in Keys |-> NoRequest]
        /\ ClaimedAt = [k \in Keys |-> 0]
        /\ ClaimOf = [k \in Keys |-> "none"]
    BY <1>1, ClaimStates DEF Claimant, ClaimedAt, ClaimOf
  <1>3. Sent = {} /\ clock = 0
    BY DEF Init, Sent
  <1> QED
    BY <1>2, <1>3 DEF Once!OnceInit

\* Every step of the coordinator is a step of WriteOnce or a stutter.
LEMMA StepOnce ==
  TypeOK /\ ReservationInv /\ OutcomeInv /\ [Next]_vars => [Once!OnceNext]_(Once!onceVars)
  <1> SUFFICES ASSUME TypeOK, ReservationInv, OutcomeInv, [Next]_vars
               PROVE  [Once!OnceNext]_(Once!onceVars)
    OBVIOUS
  <1>1. ASSUME NEW r \in Requests,
               \/ \E c \in Commands : Receive(r, c)
               \/ Resolve(r) \/ ResolveFails(r) \/ RejectAtGate(r) \/ StartPreview(r)
               \/ Preview(r) \/ RejectNotExplicit(r) \/ BeginFails(r) \/ Conflict(r)
               \/ Replay(r) \/ Prepare(r) \/ ValidateCurrentState(r) \/ MutationReturns(r)
               \/ CancelEarly(r) \/ Crash(r)
        PROVE  [Once!OnceNext]_(Once!onceVars)
    <2>1. UNCHANGED <<clock, row, rpc>>
      BY <1>1 DEF Receive, Resolve, ResolveFails, RejectAtGate, StartPreview, Preview,
                  RejectNotExplicit, BeginFails, Conflict, Replay, Prepare,
                  ValidateCurrentState, MutationReturns, CancelEarly, Crash
    <2> QED
      BY <2>1, OnceStutter
  <1>2. ASSUME NEW r \in Requests, Reserve(r) PROVE [Once!OnceNext]_(Once!onceVars)
    BY <1>2, ReserveOnce DEF Once!OnceNext
  <1>3. ASSUME NEW r \in Requests, SendMutation(r) PROVE [Once!OnceNext]_(Once!onceVars)
    BY <1>3, SendOnce DEF Once!OnceNext
  <1>4. ASSUME NEW r \in Requests,
               \/ PrepareNeedsInput(r) \/ PreWriteFails(r) \/ Succeed(r)
               \/ KnownWriteFailure(r) \/ FinalizeUnknown(r)
        PROVE  [Once!OnceNext]_(Once!onceVars)
    <2>1. UNCHANGED <<clock, rpc>> /\ pc[r] \in Holding
      BY <1>4 DEF PrepareNeedsInput, PreWriteFails, Succeed, KnownWriteFailure,
                  FinalizeUnknown, FailureCauses, At, Holding
    <2>2. \E state \in {"succeeded", "failed", "unknown"} : \E response, fallback :
             FinishAfterAttempt(r, state, response, fallback)
      BY <1>4 DEF PrepareNeedsInput, PreWriteFails, Succeed, KnownWriteFailure, FinalizeUnknown
    <2> QED
      BY <2>1, <2>2, FinishOnce
  <1>5. ASSUME NEW r \in Requests, CancelHolding(r) PROVE [Once!OnceNext]_(Once!onceVars)
    <2>1. UNCHANGED <<clock, rpc>> /\ cmd[r].key \in Keys
      BY <1>5 DEF CancelHolding, ReservationInv, HolderOwnsItsRow
    <2>2. \E state \in {"succeeded", "failed", "unknown"} : \E response, tx :
             StoreOutcome(r, state, response, tx)
      BY <1>5 DEF CancelHolding
    <2> QED
      BY <2>1, <2>2, CloseOnce
  <1>6. ASSUME NEW r \in Requests, OdooApplies(r) \/ OdooRefuses(r)
        PROVE  [Once!OnceNext]_(Once!onceVars)
    <2>1. UNCHANGED <<clock, row>>
      BY <1>6 DEF OdooApplies, OdooRefuses
    <2>2. Sent' = Sent
      BY <1>6 DEF OdooApplies, OdooRefuses, Sent, TypeOK
    <2> QED
      BY <2>1, <2>2, OnceStutter
  <1>7. CASE Tick
    <2>1. clock' \in Nat /\ clock' > clock /\ UNCHANGED <<row, rpc>>
      BY <1>7 DEF Tick, TypeOK
    <2>2. UNCHANGED <<Claimant, ClaimedAt, ClaimOf, Sent>>
      BY <2>1 DEF Claimant, ClaimedAt, ClaimOf, Sent
    <2> QED
      BY <2>1, <2>2 DEF Once!Pass, Once!OnceNext
  <1>8. CASE UNCHANGED vars
    BY <1>8, OnceStutter DEF vars
  <1> QED
    BY <1>1, <1>2, <1>3, <1>4, <1>5, <1>6, <1>7, <1>8 DEF Next, Proceed

(* Refinement: whatever the coordinator, its storage and Odoo do, a key is    *)
(* claimed by one call at a time, only the claimant sends, at most once, and  *)
(* only a settled claim past its retention period is taken over.              *)
THEOREM Implements == Spec => ImplementsWriteOnce
  BY TypeCorrect, ReservationInvariant, OutcomeInvariant, InitOnce, StepOnce, PTL
     DEF Spec, ImplementsWriteOnce, Once!OnceSpec

----------------------------------------------------------------------------
\* A behaviour of Service is one of its part.

LEMMA PartStays == [AllNext]_allVars => part' = part
  BY DEF AllNext, allVars, WritesNext, AuditNext, RotationNext, FilesNext, LimitNext, CallsNext

LEMMA CallsPart == part = "calls" /\ [AllNext]_allVars => [Calls!Next]_Calls!vars
  BY DEF AllNext, allVars, WritesNext, AuditNext, RotationNext, FilesNext, LimitNext, CallsNext,
         AuditParts, FileParts, callVars, Calls!vars

LEMMA LimitPart == part = "limit" /\ [AllNext]_allVars => [Limit!Next]_Limit!vars
  BY DEF AllNext, allVars, WritesNext, AuditNext, RotationNext, FilesNext, LimitNext, CallsNext,
         limitVars, Limit!vars

LEMMA RotationPart == part = "rotation" /\ [AllNext]_allVars => [Rotation!Next]_Rotation!vars
  BY DEF AllNext, allVars, WritesNext, AuditNext, RotationNext, FilesNext, LimitNext, CallsNext,
         rotationVars, Rotation!vars

LEMMA FilesPart ==
    ASSUME [AllNext]_allVars
    PROVE  /\ part = "recovery" => [Recovery!Next]_Recovery!vars
           /\ part = "opening" => [Opening!Next]_Opening!vars
  BY DEF AllNext, allVars, WritesNext, AuditNext, RotationNext, FilesNext, LimitNext, CallsNext,
         AuditParts, fileVars, Recovery!vars, Opening!vars

LEMMA AuditPart ==
    ASSUME [AllNext]_allVars
    PROVE  /\ part = "appends" => [Appends!Next]_Appends!vars
           /\ part = "proposals" => [Proposals!Next]_Proposals!vars
           /\ part = "one_writer" => [OneWriter!Next]_OneWriter!vars
  BY DEF AllNext, allVars, WritesNext, AuditNext, RotationNext, FilesNext, LimitNext, CallsNext,
         auditVars, Appends!vars, Proposals!vars, OneWriter!vars

----------------------------------------------------------------------------
\* Reading tools.

\* A step before the end answers and records nothing; the steps to the end are
\* judged one by one (accounting_report, capabilities_tool, run).
LEMMA CallStep ==
    ASSUME Calls!CallInv, [Calls!Next]_Calls!vars
    PROVE  Calls!CallInv'
  <1> USE DEF Calls!CallInv, Calls!OpenInv, Calls!Opened, Calls!Resolved, Calls!AnswerOnRecord,
              Calls!FailureOnRecord, Calls!CancelledOnRecord
  <1>1. CASE UNCHANGED Calls!vars
    BY <1>1 DEF Calls!vars
  <1>2. CASE Calls!Resolve
    BY <1>2 DEF Calls!Resolve, Calls!Goto
  <1>3. CASE Calls!CheckPermission
    BY <1>3 DEF Calls!CheckPermission, Calls!Goto
  <1>4. CASE Calls!CheckCompany
    BY <1>4 DEF Calls!CheckCompany, Calls!Goto
  <1>5. CASE Calls!OpenAdapter
    BY <1>5 DEF Calls!OpenAdapter, Calls!Goto
  <1>6. CASE Calls!ReadCompanies
    BY <1>6 DEF Calls!ReadCompanies, Calls!Goto
  <1>7. CASE Calls!ReadCapabilities
    BY <1>7 DEF Calls!ReadCapabilities, Calls!Goto
  <1>8. CASE Calls!Operate
    BY <1>8 DEF Calls!Operate, Calls!Goto
  \* Only the discovery tool answers here.
  <1>9. CASE Calls!CloseAdapter
    BY <1>9 DEF Calls!CloseAdapter, Calls!Goto
  \* The row, the artifact and the answer, or a failure that is still to be recorded.
  <1>10. CASE Calls!RecordSuccess
    <2>1. /\ at = "record" /\ kind # "capabilities" /\ recorded = {} /\ lost = {}
          /\ answer = "none" /\ cancels \in Nat /\ adapter # "open" /\ binding
          /\ UNCHANGED <<kind, binding, adapter, cancels>>
      BY <1>10 DEF Calls!RecordSuccess
    <2>2. recorded' \subseteq {"succeeded"} /\ lost' \subseteq {"succeeded"}
      BY <1>10, <2>1 DEF Calls!RecordSuccess
    <2>3. artifact' <=> kind = "accounting" /\ "succeeded" \in recorded'
      <3>1. ~artifact
        BY <2>1
      <3>2. CASE recorded' = recorded /\ artifact' = artifact
        BY <2>1, <3>1, <3>2
      <3>3. CASE recorded' = recorded \cup {"succeeded"} /\ artifact' = (kind = "accounting")
        BY <3>3
      <3> QED
        BY <1>10, <3>2, <3>3 DEF Calls!RecordSuccess
    <2>4. CASE "succeeded" \in recorded' /\ at' = "done" /\ answer' = "ok"
      BY <2>1, <2>2, <2>3, <2>4
    <2>5. CASE /\ "succeeded" \in lost' /\ at' = Calls!Raised /\ answer' = answer
      BY <2>1, <2>2, <2>3, <2>5 DEF Calls!Raised
    <2> QED
      BY <1>10, <2>4, <2>5 DEF Calls!RecordSuccess
  <1>11. CASE Calls!FailedClose
    BY <1>11 DEF Calls!FailedClose
  \* A failure is on record unless the caller is unknown or storage failed.
  <1>12. CASE Calls!RecordFailure
    <2>1. /\ at \in {"failed_record", "cancelled_record"} /\ at' = "done"
          /\ answer' = Calls!Outcome(at)
          /\ recorded \subseteq {"succeeded"} /\ lost \subseteq {"succeeded"}
          /\ recorded # {} => lost # {}
          /\ lost # {} => at = "failed_record" /\ kind # "capabilities" /\ binding
          /\ artifact <=> kind = "accounting" /\ "succeeded" \in recorded
          /\ cancels \in Nat /\ adapter # "open"
          /\ at = "cancelled_record" => cancels # 0
          /\ UNCHANGED <<kind, binding, adapter, cancels, artifact>>
      BY <1>12 DEF Calls!RecordFailure
    <2>2. \/ recorded' = recorded /\ lost' = lost /\ ~(binding /\ kind # "capabilities")
          \/ /\ recorded' \in {recorded, recorded \cup {"failed"}}
             /\ \/ "failed" \in recorded' /\ lost' = lost
                \/ lost' = lost \cup {"failed"}
      BY <1>12 DEF Calls!RecordFailure
    <2>3. Calls!OpenInv'
      BY <2>1
    <2>4. Calls!AnswerOnRecord'
      <3>1. "succeeded" \in recorded' <=> "succeeded" \in recorded
        BY <2>2
      <3>2. kind # "capabilities" =>
               (answer' = "ok" => recorded' = {"succeeded"})
        BY <2>1 DEF Calls!Outcome
      <3>3. artifact' <=> kind' = "accounting" /\ "succeeded" \in recorded'
        BY <2>1, <3>1
      <3>4. kind # "capabilities" /\ "succeeded" \in recorded' =>
               "succeeded" \in lost' /\ ("failed" \in recorded' \/ "failed" \in lost')
        BY <2>1, <2>2, <3>1
      <3> QED
        BY <2>1, <3>2, <3>3, <3>4
    <2>5. Calls!FailureOnRecord' /\ Calls!CancelledOnRecord'
      BY <2>1, <2>2 DEF Calls!Outcome
    <2> QED
      BY <2>3, <2>4, <2>5
  <1>13. CASE Calls!Raise
    BY <1>13 DEF Calls!Raise, Calls!Raised
  <1>14. CASE Calls!CloseRaises
    BY <1>14 DEF Calls!CloseRaises
  <1>15. CASE Calls!Cancel
    BY <1>15 DEF Calls!Cancel, Calls!Awaits
  <1>16. ASSUME NEW here \in {"permission", "company", "capabilities"}, NEW granted,
               Calls!Denied(here, granted)
        PROVE  Calls!CallInv'
    BY <1>16 DEF Calls!Denied, Calls!Raised
  <1> QED
    BY <1>1, <1>2, <1>3, <1>4, <1>5, <1>6, <1>7, <1>8, <1>9,
       <1>10, <1>11, <1>12, <1>13, <1>14, <1>15, <1>16 DEF Calls!Next, Calls!Step

\* A reading tool that answers, fails or is cancelled has that on record, and a
\* call that was not cancelled leaves no connection open (accounting_report and
\* capabilities_tool of mcp/server.py, run of mcp/payroll.py).
THEOREM CallIsOnRecord == AllSpec => []OnRecord
  <1> DEFINE Inv == part = "calls" => Calls!CallInv
  <1>1. AllInit => Inv
    BY DEF AllInit, CallsInit, Calls!Init, Calls!CallInv, Calls!OpenInv, Calls!Opened,
           Calls!Resolved,
           Calls!AnswerOnRecord, Calls!FailureOnRecord, Calls!CancelledOnRecord
  <1>2. Inv /\ [AllNext]_allVars => Inv'
    BY PartStays, CallsPart, CallStep
  <1>3. Inv => OnRecord
    BY DEF OnRecord, Calls!CallInv, Calls!OnRecord, Calls!OpenInv, Calls!Opened,
           Calls!NothingLeftOpen
  <1> QED
    BY <1>1, <1>2, <1>3, PTL DEF AllSpec

----------------------------------------------------------------------------
\* The rate limiter.

\* The order of the numbers is well founded, so a set of them has a least one.
LEMMA NumberOrder ==
    \E R : IsWellFoundedOn(R, Nat) /\ \A x, y \in Nat : <<y, x>> \in R <=> y < x
  <1>1. IsWellFoundedOn(OpToRel(<, Nat), Nat)
    BY NatLessThanWellFounded
  <1>2. \A x, y \in Nat : <<y, x>> \in OpToRel(<, Nat) <=> y < x
    BY DEF OpToRel
  <1> QED
    BY <1>1, <1>2, Zenon

LEMMA LeastNumber ==
    ASSUME NEW T \in SUBSET Nat, T # {}
    PROVE  \E x \in T : \A y \in T : x <= y
  <1>1. PICK R : IsWellFoundedOn(R, Nat) /\ \A x, y \in Nat : <<y, x>> \in R <=> y < x
    BY NumberOrder
  <1>2. PICK x \in T : \A y \in T : ~ (<<y, x>> \in R)
    BY <1>1, WFMin
  <1>3. ASSUME NEW y \in T PROVE x <= y
    <2>1. x \in Nat /\ y \in Nat
      OBVIOUS
    <2>2. ~(y < x)
      BY <1>1, <1>2, <2>1, Zenon
    <2> QED
      BY <2>1, <2>2
  <1> QED
    BY <1>3

\* The loop stops: popleft has taken the events before the first that counts.
LEMMA PoppedIs ==
    ASSUME Limit!RateLimitAssumption, now \in Nat, NEW s \in Seq(Nat)
    PROVE  /\ Limit!Popped(s) \in 0..Len(s)
           /\ \A k \in 1..Limit!Popped(s) : Limit!Expired(s[k])
           /\ Limit!Popped(s) < Len(s) => ~Limit!Expired(s[Limit!Popped(s) + 1])
  <1> DEFINE stops == {n \in 0..Len(s) : n < Len(s) => ~Limit!Expired(s[n + 1])}
  <1>1. stops \in SUBSET Nat /\ Len(s) \in stops
    OBVIOUS
  <1>2. PICK n \in stops : \A m \in stops : n <= m
    <2> HIDE DEF stops
    <2> QED
      BY <1>1, LeastNumber
  <1>3. ASSUME NEW k \in 1..n PROVE Limit!Expired(s[k])
    <2>1. k - 1 \in 0..Len(s) /\ k - 1 < n /\ (k - 1) + 1 = k
      BY <1>2
    <2>2. n \in Nat /\ k - 1 \in Nat
      BY <1>1, <2>1
    <2>3. k - 1 \notin stops
      <3> HIDE DEF stops
      <3> QED
        BY <1>2, <2>1, <2>2
    <2> QED
      BY <2>1, <2>3
  <1>4. \E p \in 0..Len(s) :
            /\ \A k \in 1..p : Limit!Expired(s[k])
            /\ p < Len(s) => ~Limit!Expired(s[p + 1])
    BY <1>2, <1>3
  <1> QED
    BY <1>4 DEF Limit!Popped

\* What the loop leaves is the rest of the deque.
LEMMA KeptIs ==
    ASSUME Limit!RateLimitAssumption, now \in Nat, NEW s \in Seq(Nat)
    PROVE  /\ Limit!Kept(s) \in Seq(Nat)
           /\ Len(Limit!Kept(s)) = Len(s) - Limit!Popped(s)
           /\ \A k \in 1..(Len(s) - Limit!Popped(s)) : Limit!Kept(s)[k] = s[Limit!Popped(s) + k]
  <1>1. PICK p : p = Limit!Popped(s)
    OBVIOUS
  <1>2. p \in 0..Len(s)
    BY <1>1, PoppedIs
  <1>3. \A k \in 1..(Len(s) - p) : s[p + k] \in Nat
    BY <1>2
  <1>4. PICK l \in Nat : l = Len(s) - p
    BY <1>2
  <1>5. Limit!Kept(s) = [k \in 1..l |-> s[p + k]]
    BY <1>1, <1>4 DEF Limit!Kept
  <1>6. Limit!Kept(s) \in [1..l -> Nat]
    BY <1>3, <1>4, <1>5
  <1>7. Limit!Kept(s) \in Seq(Nat) /\ Len(Limit!Kept(s)) = l
    BY <1>6
  <1> QED
    BY <1>1, <1>4, <1>5, <1>7

\* A client whose record does not change, as the clock goes on or not, keeps
\* its part of the invariant.
LEMMA ClientUnchanged ==
    ASSUME NEW c \in Clients, Limit!RateLimitAssumption, Limit!TypeOK,
           Limit!DequeInv(c), Limit!SpacedInv(c), Limit!RefusedInv(c),
           now' \in Nat, now <= now',
           events'[c] = events[c], admitted'[c] = admitted[c], refused'[c] = refused[c]
    PROVE  Limit!DequeInv(c)' /\ Limit!SpacedInv(c)' /\ Limit!RefusedInv(c)'
  <1>1. PICK a \in Seq(Nat), e \in Seq(Nat) : a = admitted[c] /\ e = events[c]
    BY DEF Limit!TypeOK
  <1>2. a = admitted'[c] /\ e = events'[c] /\ now \in Nat
    BY <1>1 DEF Limit!TypeOK
  <1>3. Limit!DequeInv(c)'
    <2>1. PICK f : f = Len(a) - Len(e)
      OBVIOUS
    <2>2. /\ f \in Nat /\ Len(e) <= MaxRequests
          /\ \A k \in 1..Len(e) : e[k] = a[f + k]
          /\ \A k \in 1..f : a[k] + Window <= now
      BY <1>1, <2>1 DEF Limit!DequeInv
    <2>3. \A k \in 1..f : a[k] + Window <= now'
      <3> TAKE k \in 1..f
      <3>1. a[k] \in Nat /\ a[k] + Window <= now
        BY <2>1, <2>2
      <3> QED
        BY <1>2, <3>1 DEF Limit!RateLimitAssumption
    <2> QED
      BY <1>2, <2>1, <2>2, <2>3 DEF Limit!DequeInv
  <1>4. Limit!SpacedInv(c)'
    BY <1>1, <1>2 DEF Limit!SpacedInv
  <1>5. \A t, m : Limit!UsedUp(c, t, m)' <=> Limit!UsedUp(c, t, m)
    BY DEF Limit!UsedUp
  <1>6. Limit!RefusedInv(c)'
    BY <1>5 DEF Limit!RefusedInv
  <1> QED
    BY <1>3, <1>4, <1>6

\* After the loop the deque holds exactly the admissions of the last window.
LEMMA AfterLoop ==
    ASSUME NEW c \in Clients, Limit!RateLimitAssumption, Limit!TypeOK, Limit!DequeInv(c), Limit!SpacedInv(c)
    PROVE  \E g \in Nat, kept \in Seq(Nat) :
              /\ kept = Limit!Kept(events[c])
              /\ Len(kept) = Len(admitted[c]) - g /\ Len(kept) <= MaxRequests
              /\ \A k \in 1..Len(kept) : kept[k] = admitted[c][g + k]
              /\ \A k \in 1..g : admitted[c][k] + Window <= now
              /\ \A k \in (g + 1)..Len(admitted[c]) : now < admitted[c][k] + Window
  <1>1. PICK a \in Seq(Nat), e \in Seq(Nat), n \in Nat : a = admitted[c] /\ e = events[c] /\ n = now
    BY DEF Limit!TypeOK
  <1>2. PICK f : f = Len(a) - Len(e)
    OBVIOUS
  <1>3. /\ f \in Nat /\ Len(e) <= MaxRequests
        /\ \A k \in 1..Len(e) : e[k] = a[f + k]
        /\ \A k \in 1..f : a[k] + Window <= n
    BY <1>1, <1>2 DEF Limit!DequeInv
  <1>4. \A j, k \in 1..Len(a) : j <= k => a[j] <= a[k]
    BY <1>1 DEF Limit!SpacedInv
  <1>5. PICK p : p = Limit!Popped(e)
    OBVIOUS
  <1>6. /\ p \in 0..Len(e)
        /\ \A k \in 1..p : e[k] + Window <= n
        /\ p < Len(e) => n < e[p + 1] + Window
    <2>1. /\ p \in 0..Len(e)
          /\ \A k \in 1..p : Limit!Expired(e[k])
          /\ p < Len(e) => ~Limit!Expired(e[p + 1])
      BY <1>1, <1>5, PoppedIs
    <2>2. p < Len(e) => e[p + 1] \in Nat
      BY <2>1
    <2> QED
      BY <1>1, <2>1, <2>2 DEF Limit!Expired, Limit!RateLimitAssumption
  <1>7. PICK kept \in Seq(Nat) : kept = Limit!Kept(e)
    BY <1>1, KeptIs
  <1>8. /\ Len(kept) = Len(e) - p
        /\ \A k \in 1..(Len(e) - p) : kept[k] = e[p + k]
    BY <1>1, <1>5, <1>7, KeptIs
  <1>9. PICK g \in Nat : g = f + p
    BY <1>3, <1>6
  <1>10. Len(a) \in Nat /\ Len(e) \in Nat /\ MaxRequests \in Nat /\ Window \in Nat
    BY DEF Limit!RateLimitAssumption
  <1>11. Len(kept) = Len(a) - g /\ Len(kept) <= MaxRequests
    BY <1>2, <1>3, <1>6, <1>8, <1>9, <1>10
  <1>12. ASSUME NEW k \in 1..Len(kept) PROVE kept[k] = a[g + k]
    <2>1. p + k \in 1..Len(e) /\ f + (p + k) = g + k /\ k \in 1..(Len(e) - p)
      BY <1>3, <1>6, <1>8, <1>9, <1>10
    <2> QED
      BY <1>3, <1>8, <2>1
  <1>13. ASSUME NEW k \in 1..g PROVE a[k] + Window <= n
    <2>1. CASE k <= f
      BY <1>3, <2>1
    <2>2. CASE f < k
      <3>1. k - f \in 1..p /\ k - f \in 1..Len(e) /\ f + (k - f) = k
        BY <1>3, <1>6, <1>9, <1>10, <2>2
      <3> QED
        BY <1>3, <1>6, <3>1
    <2> QED
      BY <1>3, <2>1, <2>2
  <1>14. ASSUME NEW k \in (g + 1)..Len(a) PROVE n < a[k] + Window
    <2>1. p < Len(e) /\ p + 1 \in 1..Len(e) /\ f + (p + 1) = g + 1
      BY SMTT(30), <1>2, <1>3, <1>6, <1>9, <1>10
    <2>2. n < a[g + 1] + Window
      BY SMTT(30), <1>3, <1>6, <2>1
    <2>3. g + 1 \in 1..Len(a) /\ k \in 1..Len(a) /\ g + 1 <= k
      BY <1>9, <1>10
    <2>4. a[g + 1] <= a[k] /\ a[g + 1] \in Nat /\ a[k] \in Nat
      BY <1>4, <2>3
    <2> QED
      BY SMTT(30), <1>10, <2>2, <2>4
  <1> QED
    BY <1>1, <1>7, <1>11, <1>12, <1>13, <1>14

\* A refused client has used its limit in the window that ends now.
LEMMA RefusedHasUsed ==
    ASSUME NEW c \in Clients, Limit!RateLimitAssumption, Limit!TypeOK,
           Limit!DequeInv(c), Limit!SpacedInv(c), Limit!RefusedInv(c),
           Limit!Full(Limit!Kept(events[c])), now' = now,
           events'[c] = Limit!Kept(events[c]),
           admitted'[c] = admitted[c],
           refused'[c] = refused[c] \cup {now}
    PROVE  Limit!DequeInv(c)' /\ Limit!SpacedInv(c)' /\ Limit!RefusedInv(c)'
  <1>1. PICK a \in Seq(Nat), n \in Nat : a = admitted[c] /\ n = now
    BY DEF Limit!TypeOK
  <1>2. PICK g \in Nat, kept \in Seq(Nat) :
              /\ kept = Limit!Kept(events[c])
              /\ Len(kept) = Len(a) - g /\ Len(kept) <= MaxRequests
              /\ \A k \in 1..Len(kept) : kept[k] = a[g + k]
              /\ \A k \in 1..g : a[k] + Window <= n
              /\ \A k \in (g + 1)..Len(a) : n < a[k] + Window
    BY <1>1, AfterLoop
  <1>3. a = admitted'[c] /\ kept = events'[c] /\ n = now'
    BY <1>1, <1>2
  <1>4. Len(a) - Len(kept) = g
    BY <1>2
  <1>5. Limit!DequeInv(c)'
    BY <1>2, <1>3, <1>4 DEF Limit!DequeInv
  <1>6. Limit!SpacedInv(c)'
    BY <1>1, <1>3 DEF Limit!SpacedInv
  <1>7. \A t, m : Limit!UsedUp(c, t, m)' <=> Limit!UsedUp(c, t, m)
    BY DEF Limit!UsedUp
  <1>8. Limit!UsedUp(c, n, g)
    <2>1. Len(a) = g + MaxRequests
      <3>1. Limit!Full(kept)
        BY <1>2
      <3>2. PICK la \in Nat, lk \in Nat : la = Len(a) /\ lk = Len(kept)
        OBVIOUS
      <3>3. lk >= MaxRequests
        BY <3>1, <3>2 DEF Limit!Full
      <3>4. lk = la - g /\ lk <= MaxRequests
        BY <1>2, <3>2, Zenon
      <3>5. la = g + MaxRequests
        BY <3>3, <3>4 DEF Limit!RateLimitAssumption
      <3> QED
        BY <3>2, <3>5
    <2>2. \A k \in 1..Len(a) : a[k] <= n
      BY <1>1 DEF Limit!SpacedInv
    <2>3. \A k \in (g + 1)..(g + MaxRequests) : n < a[k] + Window /\ a[k] <= n
      BY <1>2, <2>1, <2>2
    <2>4. \A k \in (g + MaxRequests + 1)..Len(a) : n < a[k]
      BY <1>2, <2>1
    <2>5. g + MaxRequests <= Len(a)
      BY <2>1
    <2> QED
      BY <1>1, <1>2, <2>3, <2>4, <2>5 DEF Limit!UsedUp
  <1>9. Limit!RefusedInv(c)'
    BY <1>1, <1>7, <1>8 DEF Limit!RefusedInv
  <1> QED
    BY <1>5, <1>6, <1>9

\* A client that is let in had room in the window: its admission is a window
\* away from the one as many back as the limit, and it was refused earlier if
\* at all.
LEMMA AdmittedHasRoom ==
    ASSUME NEW c \in Clients, Limit!RateLimitAssumption, Limit!TypeOK,
           Limit!DequeInv(c), Limit!SpacedInv(c), Limit!RefusedInv(c),
           ~Limit!Full(Limit!Kept(events[c])), now' = now,
           events'[c] = Append(Limit!Kept(events[c]), now),
           admitted'[c] = Append(admitted[c], now),
           refused'[c] = refused[c]
    PROVE  Limit!DequeInv(c)' /\ Limit!SpacedInv(c)' /\ Limit!RefusedInv(c)'
  <1>1. PICK a \in Seq(Nat), n \in Nat : a = admitted[c] /\ n = now
    BY DEF Limit!TypeOK
  <1>2. PICK g \in Nat, kept \in Seq(Nat) :
              /\ kept = Limit!Kept(events[c])
              /\ Len(kept) = Len(a) - g /\ Len(kept) <= MaxRequests
              /\ \A k \in 1..Len(kept) : kept[k] = a[g + k]
              /\ \A k \in 1..g : a[k] + Window <= n
              /\ \A k \in (g + 1)..Len(a) : n < a[k] + Window
    BY <1>1, AfterLoop
  <1>3. Len(a) \in Nat /\ Len(kept) \in Nat /\ MaxRequests \in Nat /\ Window \in Nat /\ MaxRequests > 0
    BY DEF Limit!RateLimitAssumption
  <1>4. Len(kept) < MaxRequests
    <2>1. ~Limit!Full(kept)
      BY <1>2
    <2> QED
      BY <1>3, <2>1 DEF Limit!Full
  <1>5. PICK b, e : b = Append(a, n) /\ e = Append(kept, n)
    OBVIOUS
  <1>0. Len(kept) = Len(a) - g /\ g \in Nat
    BY <1>2, Zenon
  <1>6. b = admitted'[c] /\ e = events'[c] /\ n = now'
    BY <1>1, <1>2, <1>5
  <1>7. /\ Len(b) = Len(a) + 1 /\ b[Len(a) + 1] = n
        /\ \A k \in 1..Len(a) : b[k] = a[k]
    BY <1>5
  <1>8. /\ Len(e) = Len(kept) + 1 /\ e[Len(kept) + 1] = n
        /\ \A k \in 1..Len(kept) : e[k] = kept[k]
    BY <1>5
  <1>9. Limit!DequeInv(c)'
    <2>1. Len(b) - Len(e) = g /\ Len(e) <= MaxRequests
      <3>1. PICK la \in Nat, lk \in Nat : la = Len(a) /\ lk = Len(kept)
        BY <1>3
      <3>2. /\ lk = la - g /\ g \in Nat /\ lk < MaxRequests
            /\ Len(b) = la + 1 /\ Len(e) = lk + 1
        BY <1>0, <1>4, <1>7, <1>8, <3>1, Zenon
      <3>3. (la + 1) - (lk + 1) = g /\ lk + 1 <= MaxRequests
        BY SMTT(30), <1>3, <3>1, <3>2
      <3> QED
        BY <3>2, <3>3, Zenon
    <2>2. ASSUME NEW k \in 1..Len(e) PROVE e[k] = b[g + k]
      <3>1. CASE k = Len(kept) + 1
        <4>1. g + k = Len(a) + 1
          BY <1>2, <1>3, <3>1
        <4> QED
          BY <1>7, <1>8, <3>1, <4>1
      <3>2. CASE k \in 1..Len(kept)
        <4>1. g + k \in 1..Len(a)
          BY <1>2, <1>3, <3>2
        <4> QED
          BY <1>2, <1>7, <1>8, <3>2, <4>1
      <3> QED
        BY SMTT(30), <1>3, <1>8, <3>1, <3>2
    <2>3. ASSUME NEW k \in 1..g PROVE b[k] + Window <= n
      <3>1. k \in 1..Len(a)
        BY <1>2, <1>3
      <3> QED
        BY <1>2, <1>7, <3>1
    <2> QED
      BY <1>6, <2>1, <2>2, <2>3 DEF Limit!DequeInv
  <1>10. /\ \A k \in 1..Len(a) : a[k] <= n
         /\ \A j, k \in 1..Len(a) : j <= k => a[j] <= a[k]
         /\ \A j, k \in 1..Len(a) : j + MaxRequests = k => a[j] + Window <= a[k]
    BY <1>1 DEF Limit!SpacedInv
  <1>11. Limit!SpacedInv(c)'
    <2>1. \A k \in 1..Len(b) : b[k] <= n
      <3> TAKE k \in 1..Len(b)
      <3>1. k \in 1..Len(a) \/ k = Len(a) + 1
        BY <1>3, <1>7
      <3>2. k = Len(a) + 1 => b[k] = n
        BY <1>7
      <3>3. k \in 1..Len(a) => b[k] <= n
        BY <1>7, <1>10
      <3> QED
        BY <3>1, <3>2, <3>3
    <2>2. ASSUME NEW j \in 1..Len(b), NEW k \in 1..Len(b), j <= k
          PROVE  b[j] <= b[k]
      <3>1. CASE k = Len(a) + 1
        BY <1>7, <2>1, <3>1
      <3>2. CASE k \in 1..Len(a)
        <4>1. j \in 1..Len(a)
          BY <1>3, <2>2, <3>2
        <4> QED
          BY <1>7, <1>10, <2>2, <3>2, <4>1
      <3>3. k = Len(a) + 1 \/ k \in 1..Len(a)
        <4>1. PICK la \in Nat : la = Len(a)
          BY <1>3
        <4>2. k \in 1..(la + 1)
          BY <1>7, <4>1, Zenon
        <4>3. k = la + 1 \/ k \in 1..la
          BY <4>2
        <4> QED
          BY <4>1, <4>3
      <3> QED
        BY <3>1, <3>2, <3>3
    <2>3. ASSUME NEW j \in 1..Len(b), NEW k \in 1..Len(b), j + MaxRequests = k
          PROVE  b[j] + Window <= b[k]
      <3>1. j \in 1..Len(a)
        BY <1>3, <1>7, <2>3
      <3>2. CASE k = Len(a) + 1
        <4>1. j \in 1..g
          BY <1>2, <1>3, <1>4, <2>3, <3>2
        <4> QED
          BY <1>2, <1>7, <3>1, <3>2, <4>1
      <3>3. CASE k \in 1..Len(a)
        BY <1>7, <1>10, <2>3, <3>1, <3>3
      <3> QED
        BY <1>3, <1>7, <3>2, <3>3
    <2> QED
      BY <1>6, <2>1, <2>2, <2>3 DEF Limit!SpacedInv
  <1>12. ASSUME NEW t \in refused[c], NEW m \in Nat, Limit!UsedUp(c, t, m)
         PROVE  Limit!UsedUp(c, t, m)'
    <2>1. t \in 0..n
      BY <1>1 DEF Limit!TypeOK
    <2>2. /\ m + MaxRequests <= Len(a)
          /\ \A k \in 1..m : a[k] + Window <= t
          /\ \A k \in (m + 1)..(m + MaxRequests) : t < a[k] + Window /\ a[k] <= t
          /\ \A k \in (m + MaxRequests + 1)..Len(a) : t < a[k]
      BY <1>1, <1>12 DEF Limit!UsedUp
    <2>3. t < n
      <3> SUFFICES ASSUME t = n PROVE FALSE
        BY <2>1
      <3>0. m + MaxRequests <= Len(a)
        BY <2>2
      <3>1. m + 1 \in (m + 1)..(m + MaxRequests) /\ m + 1 \in 1..Len(a)
        <4>1. PICK la \in Nat : la = Len(a)
          BY <1>3
        <4>2. m + MaxRequests <= la
          BY <3>0, <4>1
        <4>3. m + 1 \in (m + 1)..(m + MaxRequests) /\ m + 1 \in 1..la
          BY <1>3, <4>2
        <4> QED
          BY <4>1, <4>3
      <3>2. n < a[m + 1] + Window /\ a[m + 1] \in Nat
        <4>1. t < a[m + 1] + Window
          BY <2>2, <3>1
        <4> QED
          BY <3>1, <4>1
      <3>3. ~(m + 1 \in 1..g)
        <4> SUFFICES ASSUME m + 1 \in 1..g PROVE FALSE
          OBVIOUS
        <4>1. a[m + 1] + Window <= n
          BY <1>2
        <4> QED
          BY <1>3, <3>2, <4>1
      <3> QED
        <4>1. PICK la \in Nat, lk \in Nat : la = Len(a) /\ lk = Len(kept)
          BY <1>3
        <4>2. lk = la - g /\ lk < MaxRequests /\ m + MaxRequests <= la
          BY <1>0, <1>4, <3>0, <4>1, Zenon
        <4> QED
          BY SMTT(30), <1>3, <3>3, <4>2
    <2>4. \A k \in 1..m : b[k] + Window <= t
      <3> TAKE k \in 1..m
      <3>1. k \in 1..Len(a)
        BY <1>3, <2>2
      <3> QED
        BY <1>7, <2>2, <3>1
    <2>5. \A k \in (m + 1)..(m + MaxRequests) : t < b[k] + Window /\ b[k] <= t
      <3> TAKE k \in (m + 1)..(m + MaxRequests)
      <3>1. k \in 1..Len(a)
        BY <1>3, <2>2
      <3> QED
        BY <1>7, <2>2, <3>1
    <2>6. \A k \in (m + MaxRequests + 1)..Len(b) : t < b[k]
      <3> TAKE k \in (m + MaxRequests + 1)..Len(b)
      <3>1. CASE k = Len(a) + 1
        BY <1>7, <2>3, <3>1
      <3>2. CASE k # Len(a) + 1
        <4>1. k \in 1..Len(a) /\ k \in (m + MaxRequests + 1)..Len(a)
          <5>1. Len(b) = Len(a) + 1
            BY <1>7
          <5> QED
            BY SMTT(30), <1>3, <3>2, <5>1
        <4> QED
          BY <1>7, <2>2, <4>1
      <3> QED
        BY <3>1, <3>2
    <2>7. m + MaxRequests <= Len(b)
      BY <1>3, <1>7, <2>2
    <2> QED
      BY <1>6, <2>4, <2>5, <2>6, <2>7 DEF Limit!UsedUp
  <1>13. Limit!RefusedInv(c)'
    BY <1>12 DEF Limit!RefusedInv
  <1> QED
    BY <1>9, <1>11, <1>13

\* Every step of the limiter (the middleware's __call__, and time).
LEMMA LimitStep ==
    ASSUME Limit!RateLimitAssumption, Limit!LimitInv, [Limit!Next]_Limit!vars
    PROVE  Limit!LimitInv'
  <1> USE DEF Limit!LimitInv
  <1>1. CASE UNCHANGED Limit!vars
    <2>1. Limit!TypeOK'
      BY <1>1 DEF Limit!TypeOK, Limit!vars
    <2>2. now' \in Nat /\ now <= now'
      BY <1>1 DEF Limit!TypeOK, Limit!vars
    <2>3. ASSUME NEW c \in Clients PROVE Limit!DequeInv(c)' /\ Limit!SpacedInv(c)' /\ Limit!RefusedInv(c)'
      BY <1>1, <2>2, ClientUnchanged DEF Limit!vars
    <2> QED
      BY <2>1, <2>3
  <1>2. CASE Limit!Tick
    <2>1. now \in Nat /\ now' = now + 1 /\ now' \in 0..MaxTime
      BY <1>2 DEF Limit!Tick, Limit!TypeOK, Limit!RateLimitAssumption
    <2>2. now' \in Nat /\ now <= now'
      BY <2>1
    <2>3. 0..now \subseteq 0..now'
      BY <2>1
    <2>4. Limit!TypeOK'
      BY <1>2, <2>1, <2>3 DEF Limit!Tick, Limit!TypeOK
    <2>5. ASSUME NEW c \in Clients PROVE Limit!DequeInv(c)' /\ Limit!SpacedInv(c)' /\ Limit!RefusedInv(c)'
      BY <1>2, <2>2, ClientUnchanged DEF Limit!Tick
    <2> QED
      BY <2>4, <2>5
  <1>3. ASSUME NEW c \in Clients, Limit!Request(c) PROVE Limit!LimitInv'
    <2>1. now' = now /\ now \in Nat /\ now' \in Nat /\ now <= now'
      BY <1>3 DEF Limit!Request, Limit!TypeOK
    <2>2. events[c] \in Seq(Nat)
      BY DEF Limit!TypeOK
    <2>3. Limit!Kept(events[c]) \in Seq(Nat)
      BY <2>1, <2>2, KeptIs
    <2>4. PICK kept \in Seq(Nat) : kept = Limit!Kept(events[c])
      BY <2>3
    <2>5. CASE /\ Limit!Full(kept)
               /\ events' = [events EXCEPT ![c] = kept]
               /\ refused' = [refused EXCEPT ![c] = @ \cup {now}]
               /\ UNCHANGED admitted
      <3>1. Limit!TypeOK'
        BY <2>1, <2>5 DEF Limit!TypeOK
      <3>2. /\ events'[c] = kept /\ refused'[c] = refused[c] \cup {now}
            /\ admitted'[c] = admitted[c]
        BY <2>5 DEF Limit!TypeOK
      <3>3. Limit!DequeInv(c)' /\ Limit!SpacedInv(c)' /\ Limit!RefusedInv(c)'
        BY <2>1, <2>4, <2>5, <3>2, RefusedHasUsed
      <3>4. ASSUME NEW d \in Clients, d # c
            PROVE  Limit!DequeInv(d)' /\ Limit!SpacedInv(d)' /\ Limit!RefusedInv(d)'
        <4>1. events'[d] = events[d] /\ refused'[d] = refused[d] /\ admitted'[d] = admitted[d]
          BY <2>5, <3>4 DEF Limit!TypeOK
        <4> QED
          BY <2>1, <4>1, ClientUnchanged
      <3> QED
        BY <3>1, <3>3, <3>4
    <2>6. CASE /\ ~Limit!Full(kept)
               /\ events' = [events EXCEPT ![c] = Append(kept, now)]
               /\ admitted' = [admitted EXCEPT ![c] = Append(@, now)]
               /\ UNCHANGED refused
      <3>1. Limit!TypeOK'
        <4>1. Append(kept, now) \in Seq(Nat) /\ Append(admitted[c], now) \in Seq(Nat)
          BY <2>1 DEF Limit!TypeOK
        <4> QED
          BY <2>1, <2>6, <4>1 DEF Limit!TypeOK
      <3>2. /\ events'[c] = Append(kept, now) /\ admitted'[c] = Append(admitted[c], now)
            /\ refused'[c] = refused[c]
        BY <2>6 DEF Limit!TypeOK
      <3>3. Limit!DequeInv(c)' /\ Limit!SpacedInv(c)' /\ Limit!RefusedInv(c)'
        BY <2>1, <2>4, <2>6, <3>2, AdmittedHasRoom
      <3>4. ASSUME NEW d \in Clients, d # c
            PROVE  Limit!DequeInv(d)' /\ Limit!SpacedInv(d)' /\ Limit!RefusedInv(d)'
        <4>1. events'[d] = events[d] /\ refused'[d] = refused[d] /\ admitted'[d] = admitted[d]
          BY <2>6, <3>4 DEF Limit!TypeOK
        <4> QED
          BY <2>1, <4>1, ClientUnchanged
      <3> QED
        BY <3>1, <3>3, <3>4
    <2> QED
      BY <1>3, <2>4, <2>5, <2>6 DEF Limit!Request
  <1> QED
    BY <1>1, <1>2, <1>3 DEF Limit!Next

\* Admissions spaced like this leave no window with more than the limit: those
\* of a window are among as many as the limit, from the first of them on.
LEMMA SpacedIsLimited ==
    ASSUME Limit!RateLimitAssumption, NEW a \in Seq(Nat), NEW t \in Nat,
           \A j, k \in 1..Len(a) : j <= k => a[j] <= a[k],
           \A j, k \in 1..Len(a) : j + MaxRequests = k => a[j] + Window <= a[k]
    PROVE  Cardinality({k \in DOMAIN a : t <= a[k] /\ a[k] < t + Window}) <= MaxRequests
  <1> DEFINE within == {k \in DOMAIN a : t <= a[k] /\ a[k] < t + Window}
  <1>1. MaxRequests \in Nat /\ Window \in Nat /\ MaxRequests > 0
    BY DEF Limit!RateLimitAssumption
  <1>2. CASE within = {}
    <2>1. Cardinality(within) = 0
      BY <1>2, FS_EmptySet
    <2> QED
      BY <1>1, <2>1
  <1>3. CASE within # {}
    <2>1. within \in SUBSET Nat
      OBVIOUS
    <2>2. PICK i \in within : \A k \in within : i <= k
      <3> HIDE DEF within
      <3> QED
        BY <1>3, <2>1, LeastNumber
    <2>3. i \in 1..Len(a) /\ a[i] \in Nat /\ t <= a[i]
      BY <2>2
    <2>4. ASSUME NEW k \in within PROVE k \in i..(i + MaxRequests - 1)
      <3>1. k \in 1..Len(a) /\ a[k] \in Nat /\ a[k] < t + Window /\ i <= k
        BY <2>2
      <3>2. ASSUME i + MaxRequests <= k PROVE FALSE
        <4>1. i + MaxRequests \in 1..Len(a)
          BY SMTT(30), <1>1, <2>3, <3>1, <3>2
        <4>2. a[i] + Window <= a[i + MaxRequests] /\ a[i + MaxRequests] \in Nat
          BY <2>3, <4>1
        <4>3. a[i + MaxRequests] <= a[k]
          BY <3>1, <3>2, <4>1
        <4>4. PICK x \in Nat, y \in Nat, z \in Nat : x = a[i] /\ y = a[i + MaxRequests] /\ z = a[k]
          BY <2>3, <3>1, <4>2
        <4>5. t <= x /\ x + Window <= y /\ y <= z /\ z < t + Window
          BY <2>3, <3>1, <4>2, <4>3, <4>4, Zenon
        <4> QED
          BY <1>1, <4>5
      <3> QED
        BY <1>1, <2>3, <3>1, <3>2
    <2>5. IsFiniteSet(i..(i + MaxRequests - 1)) /\ Cardinality(i..(i + MaxRequests - 1)) = MaxRequests
      <3>1. PICK j \in Int : j = i + MaxRequests - 1
        BY <1>1, <2>3
      <3>2. i \in Int /\ ~(i > j) /\ j - i + 1 = MaxRequests
        BY <1>1, <2>3, <3>1
      <3>3. IsFiniteSet(i..j) /\ Cardinality(i..j) = MaxRequests
        BY <3>2, FS_Interval
      <3> QED
        BY <3>1, <3>3
    <2>6. within \in SUBSET (i..(i + MaxRequests - 1))
      BY <2>4
    <2>7. PICK window : window = i..(i + MaxRequests - 1)
      OBVIOUS
    <2>8. Cardinality(within) <= Cardinality(window)
      <3> HIDE DEF within
      <3> QED
        BY <2>5, <2>6, <2>7, FS_Subset
    <2>9. Cardinality(window) = MaxRequests
      BY <2>5, <2>7
    <2> QED
      BY <2>8, <2>9
  <1> QED
    BY <1>2, <1>3

\* A window that was used up held exactly the limit.
LEMMA UsedUpIsLimit ==
    ASSUME Limit!RateLimitAssumption, NEW a \in Seq(Nat), NEW t \in Nat, NEW m \in Nat,
           m + MaxRequests <= Len(a),
           \A k \in 1..m : a[k] + Window <= t,
           \A k \in (m + 1)..(m + MaxRequests) : t < a[k] + Window /\ a[k] <= t,
           \A k \in (m + MaxRequests + 1)..Len(a) : t < a[k]
    PROVE  Cardinality({k \in DOMAIN a : t < a[k] + Window /\ a[k] <= t}) = MaxRequests
  <1> DEFINE within == {k \in DOMAIN a : t < a[k] + Window /\ a[k] <= t}
  <1>1. MaxRequests \in Nat /\ Window \in Nat /\ MaxRequests > 0
    BY DEF Limit!RateLimitAssumption
  <1>2. ASSUME NEW k \in within PROVE k \in (m + 1)..(m + MaxRequests)
    <2>1. k \in 1..Len(a) /\ a[k] \in Nat /\ t < a[k] + Window /\ a[k] <= t
      OBVIOUS
    <2>2. ~(k \in 1..m)
      BY <1>1, <2>1
    <2>3. ~(k \in (m + MaxRequests + 1)..Len(a))
      BY <2>1
    <2> QED
      BY <1>1, <2>1, <2>2, <2>3
  <1>3. ASSUME NEW k \in (m + 1)..(m + MaxRequests) PROVE k \in within
    <2>1. k \in 1..Len(a)
      BY <1>1
    <2> QED
      BY <2>1
  <1>4. within = (m + 1)..(m + MaxRequests)
    BY <1>2, <1>3
  <1>5. PICK i \in Int, j \in Int : i = m + 1 /\ j = m + MaxRequests
    BY <1>1
  <1>6. ~(i > j) /\ j - i + 1 = MaxRequests
    BY <1>1, <1>5
  <1>7. Cardinality(i..j) = MaxRequests
    BY <1>6, FS_Interval
  <1> QED
    BY <1>4, <1>5, <1>7

\* The cardinality RateLimit speaks of is that of the theorems above.
LEMMA SameCardinality == \A S : Limit!Cardinality(S) = Cardinality(S)
  BY Zenon DEF Limit!Cardinality, Cardinality

LEMMA InvariantIsExact ==
    ASSUME Limit!RateLimitAssumption, Limit!LimitInv
    PROVE  Limit!LimitExact
  <1> USE DEF Limit!LimitInv
  <1>1. ASSUME NEW c \in Clients, NEW t \in 0..MaxTime
        PROVE  Limit!AdmittedIn(c, t, t + Window) <= MaxRequests
    <2>1. PICK a \in Seq(Nat) : a = admitted[c]
      BY DEF Limit!TypeOK
    <2>2. /\ \A j, k \in 1..Len(a) : j <= k => a[j] <= a[k]
          /\ \A j, k \in 1..Len(a) : j + MaxRequests = k => a[j] + Window <= a[k]
      BY <2>1 DEF Limit!SpacedInv
    <2>3. t \in Nat
      OBVIOUS
    <2>4. Cardinality({k \in DOMAIN a : t <= a[k] /\ a[k] < t + Window}) <= MaxRequests
      BY <2>2, <2>3, SpacedIsLimited
    <2> QED
      BY <2>1, <2>4, SameCardinality DEF Limit!AdmittedIn
  <1>2. ASSUME NEW c \in Clients, NEW t \in refused[c]
        PROVE  Cardinality({k \in DOMAIN admitted[c] : t < admitted[c][k] + Window
                                                       /\ admitted[c][k] <= t}) = MaxRequests
    <2>1. PICK a \in Seq(Nat) : a = admitted[c]
      BY DEF Limit!TypeOK
    <2>2. PICK m \in Nat : Limit!UsedUp(c, t, m)
      BY DEF Limit!RefusedInv
    <2>3. /\ m + MaxRequests <= Len(a)
          /\ \A k \in 1..m : a[k] + Window <= t
          /\ \A k \in (m + 1)..(m + MaxRequests) : t < a[k] + Window /\ a[k] <= t
          /\ \A k \in (m + MaxRequests + 1)..Len(a) : t < a[k]
      BY <2>1, <2>2 DEF Limit!UsedUp
    <2>4. t \in Nat
      BY DEF Limit!TypeOK
    <2>5. Cardinality({k \in DOMAIN a : t < a[k] + Window /\ a[k] <= t}) = MaxRequests
      BY <2>3, <2>4, UsedUpIsLimit
    <2> QED
      BY <2>1, <2>5
  <1> QED
    BY <1>1, <1>2, SameCardinality DEF Limit!LimitExact, Limit!NeverOverLimit, Limit!RefusedOnlyAtLimit

LEMMA InitLimit ==
    ASSUME Limit!RateLimitAssumption, Limit!Init
    PROVE  Limit!LimitInv
  <1>1. Limit!TypeOK
    <2>1. <<>> \in Seq(Nat)
      OBVIOUS
    <2> QED
      BY <2>1 DEF Limit!Init, Limit!TypeOK, Limit!RateLimitAssumption
  <1>2. ASSUME NEW c \in Clients
        PROVE  Limit!DequeInv(c) /\ Limit!SpacedInv(c) /\ Limit!RefusedInv(c)
    <2>1. events[c] = <<>> /\ admitted[c] = <<>> /\ refused[c] = {}
      BY DEF Limit!Init
    <2>2. Len(events[c]) = 0 /\ Len(admitted[c]) = 0
      BY <2>1
    <2>3. Limit!DequeInv(c)
      BY <2>2 DEF Limit!DequeInv, Limit!RateLimitAssumption
    <2>4. Limit!SpacedInv(c)
      BY <2>2 DEF Limit!SpacedInv
    <2>5. Limit!RefusedInv(c)
      BY <2>1 DEF Limit!RefusedInv
    <2> QED
      BY <2>3, <2>4, <2>5
  <1> QED
    BY <1>1, <1>2 DEF Limit!LimitInv

\* The limit is sliding and exact: no window, wherever it begins, holds more
\* admissions of a client than the limit, and a client is turned away only when
\* the window that ends then holds that many (SharedRateLimitMiddleware).
THEOREM LimitIsExact == AllSpec => []LimitExact
  <1> DEFINE Inv == part = "limit" => Limit!LimitInv
  <1>1. Limit!RateLimitAssumption
    BY ServiceAssumption
  <1>2. AllInit => Inv
    BY <1>1, InitLimit DEF AllInit, LimitInit
  <1>3. Inv /\ [AllNext]_allVars => Inv'
    BY <1>1, PartStays, LimitPart, LimitStep
  <1>4. Inv => LimitExact
    BY <1>1, InvariantIsExact DEF LimitExact
  <1> QED
    BY <1>2, <1>3, <1>4, PTL DEF AllSpec

----------------------------------------------------------------------------
\* Key rotation.

\* The version to be replaced and the one that replaces it are two versions of
\* the keyring (EncryptionKeyring), and a row that is not stored has neither.
LEMMA TwoVersions ==
    ASSUME Rotation!KeyRotationAssumption
    PROVE  /\ Rotation!Old \in KeyVersions /\ Rotation!New \in KeyVersions
           /\ Rotation!Old \in Nat /\ Rotation!New \in Nat
           /\ Rotation!Old # Rotation!New /\ Rotation!Old # 0 /\ Rotation!New # 0
           /\ 0 \notin KeyVersions
  <1>1. PICK v, w \in KeyVersions : v < w /\ \A x \in KeyVersions : v <= x /\ x <= w
    BY DEF Rotation!KeyRotationAssumption
  <1>2. Rotation!Old \in KeyVersions /\ \A x \in KeyVersions : Rotation!Old <= x
    BY <1>1 DEF Rotation!Old
  <1>3. Rotation!New \in KeyVersions /\ \A x \in KeyVersions : x <= Rotation!New
    BY <1>1 DEF Rotation!New
  <1> QED
    BY <1>1, <1>2, <1>3, SMT DEF Rotation!KeyRotationAssumption

\* The keyrings and the rows a process can meet are all that the invariant
\* distinguishes.
LEMMA InitRotation ==
    ASSUME Rotation!KeyRotationAssumption, Rotation!Init
    PROVE  Rotation!RotationInv
  <1> USE TwoVersions
  <1>1. Rotation!TypeOK
    BY DEF Rotation!Init, Rotation!TypeOK, Rotation!Row, Rotation!Task, Rotation!Cipher,
           Rotation!Idle, Rotation!Absent, Rotation!Deleted, Rotation!KeyRotationAssumption
  <1>2. Rotation!RingInv
    BY DEF Rotation!Init, Rotation!RingInv, Rotation!OldKeys
  <1>3. Rotation!RowInv
    BY DEF Rotation!Init, Rotation!RowInv, Rotation!Absent
  <1>4. Rotation!UpdateInv /\ Rotation!LateInv /\ Rotation!CleanRunLeavesNoOld
    BY DEF Rotation!Init, Rotation!UpdateInv, Rotation!LateInv, Rotation!CleanRunLeavesNoOld,
           Rotation!Idle
  <1> QED
    BY <1>1, <1>2, <1>3, <1>4 DEF Rotation!RotationInv

\* Enrollment and discarding (app/shared_lifecycle.py) change one row that no
\* run can be about to write.

LEMMA EnrollInv ==
    ASSUME Rotation!KeyRotationAssumption, Rotation!RotationInv,
           NEW p \in Procs, NEW c \in Connectors, Rotation!Enroll(p, c)
    PROVE  Rotation!RotationInv'
  <1> USE TwoVersions DEF Rotation!RotationInv
  <1> DEFINE made == [version |-> ring[p].active, connector |-> c]
  <1>1. /\ rows[c] = Rotation!Absent /\ rows' = [rows EXCEPT ![c] = made]
        /\ UNCHANGED <<ring, task, runs, audited, operator>>
    BY DEF Rotation!Enroll, Rotation!Encrypt
  <1>2. ring[p] \in {Rotation!OldKeys, Rotation!BothKeys, Rotation!NewKeys}
    BY DEF Rotation!TypeOK, Rotation!RingInv
  <1>3. /\ made \in Rotation!Cipher
        /\ made \in {[version |-> Rotation!Old, connector |-> c],
                     [version |-> Rotation!New, connector |-> c]}
        /\ operator # "selecting" => made.version = Rotation!New
    BY <1>2 DEF Rotation!Cipher, Rotation!OldKeys, Rotation!BothKeys, Rotation!NewKeys,
                Rotation!TypeOK, Rotation!RingInv
  <1>4. /\ made # Rotation!Absent /\ made # Rotation!Deleted
        /\ made.version \in {Rotation!Old, Rotation!New}
    BY <1>3 DEF Rotation!Absent, Rotation!Deleted
  <1>5. audited[c] = 0
    BY <1>1 DEF Rotation!RowInv, Rotation!TypeOK
  <1> HIDE DEF made
  <1>6. Rotation!TypeOK'
    BY <1>1, <1>3 DEF Rotation!TypeOK, Rotation!Row
  <1>7. Rotation!RingInv' /\ Rotation!UpdateInv'
    BY <1>1 DEF Rotation!RingInv, Rotation!UpdateInv
  <1>8. Rotation!RowInv'
    BY <1>1, <1>3, <1>5 DEF Rotation!RowInv, Rotation!TypeOK
  <1>9. Rotation!LateInv' /\ Rotation!CleanRunLeavesNoOld'
    BY <1>1, <1>3 DEF Rotation!LateInv, Rotation!CleanRunLeavesNoOld, Rotation!TypeOK,
                      Rotation!Stored
  <1> QED
    BY <1>6, <1>7, <1>8, <1>9

LEMMA DiscardInv ==
    ASSUME Rotation!KeyRotationAssumption, Rotation!RotationInv,
           NEW p \in Procs, NEW c \in Connectors, Rotation!Discard(p, c)
    PROVE  Rotation!RotationInv'
  <1> USE TwoVersions DEF Rotation!RotationInv
  <1>1. /\ c \in Rotation!Stored /\ rows' = [rows EXCEPT ![c] = Rotation!Deleted]
        /\ UNCHANGED <<ring, task, runs, audited, operator>>
    BY DEF Rotation!Discard
  <1>2. Rotation!Deleted # Rotation!Absent /\ Rotation!Deleted.version = 0
    BY DEF Rotation!Deleted, Rotation!Absent
  <1>3. Rotation!TypeOK'
    BY <1>1 DEF Rotation!TypeOK, Rotation!Row
  <1>4. Rotation!RingInv' /\ Rotation!UpdateInv'
    BY <1>1 DEF Rotation!RingInv, Rotation!UpdateInv
  <1>5. Rotation!RowInv'
    BY <1>1, <1>2 DEF Rotation!RowInv, Rotation!TypeOK
  <1>6. Rotation!LateInv' /\ Rotation!CleanRunLeavesNoOld'
    BY <1>1, <1>2 DEF Rotation!LateInv, Rotation!CleanRunLeavesNoOld, Rotation!TypeOK,
                      Rotation!Stored
  <1> QED
    BY <1>3, <1>4, <1>5, <1>6

\* A step of a run that leaves the rows and the keyrings alone (rotate_tenant)
\* is judged by the task it leaves.

TaskOK(p, t) ==
    /\ t \in Rotation!Task
    /\ t.pc = "update" => /\ t.current \in Connectors
                          /\ t.read = [version |-> Rotation!Old, connector |-> t.current]
                          /\ ring[p].active = Rotation!New
    /\ t.late => /\ operator # "selecting"
                 /\ \A c \in Connectors : rows[c].version = Rotation!Old => c \in t.list

LEMMA IdleOK ==
    ASSUME NEW p \in Procs
    PROVE  TaskOK(p, Rotation!Idle)
  BY DEF TaskOK, Rotation!Idle, Rotation!Task, Rotation!Row

LEMMA OneTask ==
    ASSUME Rotation!RotationInv, NEW p \in Procs, NEW t, TaskOK(p, t),
           task' = [task EXCEPT ![p] = t],
           runs' \in 0..MaxRuns, UNCHANGED <<rows, ring, audited, operator>>
    PROVE  Rotation!RotationInv'
  <1> USE DEF Rotation!RotationInv
  <1>1. Rotation!TypeOK'
    BY DEF Rotation!TypeOK, TaskOK
  <1>2. Rotation!RingInv' /\ Rotation!RowInv' /\ Rotation!CleanRunLeavesNoOld'
    BY DEF Rotation!RingInv, Rotation!RowInv, Rotation!CleanRunLeavesNoOld, Rotation!Stored
  <1>3. ASSUME NEW q \in Procs PROVE task'[q] = IF q = p THEN t ELSE task[q]
    BY DEF Rotation!TypeOK
  <1>4. Rotation!UpdateInv'
    BY <1>3 DEF Rotation!UpdateInv, TaskOK
  <1>5. Rotation!LateInv'
    BY <1>3 DEF Rotation!LateInv, TaskOK
  <1> QED
    BY <1>1, <1>2, <1>4, <1>5

\* SELECT id ... WHERE key_version != active: once every process has the new
\* version active, what it lists are all rows under the old one.
LEMMA ListStaleInv ==
    ASSUME Rotation!KeyRotationAssumption, Rotation!RotationInv,
           NEW p \in Procs, Rotation!ListStale(p)
    PROVE  Rotation!RotationInv'
  <1> USE TwoVersions
  <1> DEFINE stale == {c \in Rotation!Stored : rows[c].version # ring[p].active}
             late == operator = "rotating"
             t == [Rotation!Idle EXCEPT !.pc = "next", !.list = stale, !.late = late]
  <1>1. task' = [task EXCEPT ![p] = t] /\ UNCHANGED <<rows, ring, audited, operator>>
    BY DEF Rotation!ListStale
  <1>2. runs' \in 0..MaxRuns
    BY DEF Rotation!ListStale, Rotation!RotationInv, Rotation!TypeOK,
           Rotation!KeyRotationAssumption
  <1>4. stale \subseteq Connectors /\ late \in BOOLEAN
    BY DEF Rotation!Stored
  <1>5. ASSUME operator = "rotating", NEW c \in Connectors, rows[c].version = Rotation!Old
        PROVE  c \in stale
    BY <1>5 DEF Rotation!Stored, Rotation!RotationInv, Rotation!RingInv, Rotation!BothKeys
  <1> HIDE DEF stale
  <1>3. late => operator = "rotating"
    OBVIOUS
  <1> HIDE DEF late
  <1>6. t \in Rotation!Task /\ t.pc = "next" /\ t.list = stale /\ t.late = late
    BY <1>4 DEF Rotation!Task, Rotation!Row, Rotation!Idle
  <1> HIDE DEF t
  <1>7. TaskOK(p, t)
    BY <1>3, <1>5, <1>6 DEF TaskOK
  <1> QED
    BY <1>1, <1>2, <1>7, OneTask

\* rotate, first half: what is left out of the list, or kept for the UPDATE.
LEMMA RotateReadInv ==
    ASSUME Rotation!KeyRotationAssumption, Rotation!RotationInv,
           NEW p \in Procs, Rotation!RotateRead(p)
    PROVE  Rotation!RotationInv'
  <1> USE TwoVersions
  <1> DEFINE fresh(c) == c \in Rotation!Stored /\ rows[c].version = ring[p].active
             keep(c) == /\ c \in Rotation!Stored /\ ~fresh(c)
                        /\ Rotation!CanDecrypt(p, c, rows[c])
             skipped(c) == [task[p] EXCEPT !.list = task[p].list \ {c}]
             kept(c) == [task[p] EXCEPT !.pc = "update", !.current = c, !.read = rows[c]]
  <1>1. PICK c \in task[p].list :
            task' = [task EXCEPT ![p] = CASE fresh(c) -> skipped(c) [] keep(c) -> kept(c)
                                          [] OTHER -> Rotation!Idle]
    BY DEF Rotation!RotateRead
  <1>2. /\ task[p].pc = "next" /\ UNCHANGED <<rows, ring, audited, operator>>
        /\ runs' \in 0..MaxRuns
    BY DEF Rotation!RotateRead, Rotation!RotationInv, Rotation!TypeOK
  <1>3. task[p] \in Rotation!Task /\ c \in Connectors /\ rows[c] \in Rotation!Row
    BY <1>1 DEF Rotation!RotationInv, Rotation!TypeOK, Rotation!Task
  <1>4. ring[p] \in {Rotation!OldKeys, Rotation!BothKeys, Rotation!NewKeys}
    BY DEF Rotation!RotationInv, Rotation!TypeOK, Rotation!RingInv
  <1>5. CASE ~fresh(c) /\ ~keep(c)
    <2>1. task' = [task EXCEPT ![p] = Rotation!Idle]
      BY <1>1, <1>5
    <2> QED
      BY <1>2, <2>1, IdleOK, OneTask
  <1>6. CASE fresh(c)
    <2> DEFINE t == skipped(c)
    <2>1. task' = [task EXCEPT ![p] = t]
      BY <1>1, <1>6
    <2>2. /\ t \in Rotation!Task /\ t.pc = "next" /\ t.late = task[p].late
          /\ t.list = task[p].list \ {c}
      BY <1>2, <1>3 DEF Rotation!Task
    <2>3. task[p].late => ring[p].active = Rotation!New
      BY DEF Rotation!RotationInv, Rotation!LateInv, Rotation!RingInv, Rotation!TypeOK,
             Rotation!BothKeys, Rotation!NewKeys
    <2> HIDE DEF t
    <2>4. TaskOK(p, t)
      BY <1>6, <2>2, <2>3 DEF TaskOK, Rotation!RotationInv, Rotation!LateInv
    <2> QED
      BY <1>2, <2>1, <2>4, OneTask
  <1>7. CASE keep(c)
    <2> DEFINE t == kept(c)
    <2>1. task' = [task EXCEPT ![p] = t]
      BY <1>1, <1>7
    <2>2. /\ t \in Rotation!Task /\ t.pc = "update" /\ t.late = task[p].late
          /\ t.list = task[p].list /\ t.current = c /\ t.read = rows[c]
      BY <1>3 DEF Rotation!Task
    <2>3. rows[c].version \in ring[p].keys
      BY <1>7 DEF Rotation!CanDecrypt
    <2>4. rows[c] \in {[version |-> Rotation!Old, connector |-> c],
                       [version |-> Rotation!New, connector |-> c]}
      BY <1>3, <1>7 DEF Rotation!RotationInv, Rotation!RowInv, Rotation!Stored,
                        Rotation!Absent, Rotation!Deleted
    <2>5. /\ rows[c] = [version |-> Rotation!Old, connector |-> c]
          /\ ring[p].active = Rotation!New
      BY <1>4, <1>7, <2>3, <2>4 DEF Rotation!OldKeys, Rotation!BothKeys, Rotation!NewKeys
    <2> HIDE DEF t
    <2>6. TaskOK(p, t)
      BY <1>3, <2>2, <2>5 DEF TaskOK, Rotation!RotationInv, Rotation!LateInv
    <2> QED
      BY <1>2, <2>1, <2>6, OneTask
  <1> QED
    BY <1>5, <1>6, <1>7

\* The process dies with its run (rotate_tenant).
LEMMA CrashInv ==
    ASSUME Rotation!RotationInv, NEW p \in Procs, Rotation!Crash(p)
    PROVE  Rotation!RotationInv'
  <1>1. /\ task' = [task EXCEPT ![p] = Rotation!Idle]
        /\ UNCHANGED <<rows, ring, audited, operator>>
        /\ runs' \in 0..MaxRuns
    BY DEF Rotation!Crash, Rotation!RotationInv, Rotation!TypeOK
  <1> QED
    BY <1>1, IdleOK, OneTask

\* rotate, second half: the row under the old version becomes one under the
\* new one, whatever other runs hold of it.
LEMMA RotateWriteInv ==
    ASSUME Rotation!KeyRotationAssumption, Rotation!RotationInv,
           NEW p \in Procs, Rotation!RotateWrite(p)
    PROVE  Rotation!RotationInv'
  <1> USE TwoVersions
  <1> DEFINE c == task[p].current
             cipher == [version |-> Rotation!New, connector |-> c]
             t == [task[p] EXCEPT !.pc = "next", !.list = task[p].list \ {c}]
  <1>1. task[p].pc = "update" /\ UNCHANGED <<ring, runs, operator>>
    BY DEF Rotation!RotateWrite
  <1>2. /\ c \in Connectors /\ ring[p].active = Rotation!New
        /\ task[p].read = [version |-> Rotation!Old, connector |-> c]
    BY <1>1 DEF Rotation!RotationInv, Rotation!UpdateInv
  <1>3. CASE ~Rotation!StillAt(p, c)
    <2>1. task' = [task EXCEPT ![p] = Rotation!Idle] /\ UNCHANGED <<rows, audited>>
      BY <1>3 DEF Rotation!RotateWrite
    <2>2. runs' \in 0..MaxRuns
      BY <1>1 DEF Rotation!RotationInv, Rotation!TypeOK
    <2> QED
      BY <1>1, <2>1, <2>2, IdleOK, OneTask
  <1>4. CASE Rotation!StillAt(p, c)
    <2>1. /\ rows' = [rows EXCEPT ![c] = cipher]
          /\ audited' = [audited EXCEPT ![c] = @ + 1]
          /\ task' = [task EXCEPT ![p] = t]
      BY <1>2, <1>4 DEF Rotation!RotateWrite
    <2>2. rows[c].version = Rotation!Old
      BY <1>2, <1>4 DEF Rotation!StillAt
    <2>3. audited[c] = 0
      BY <1>2, <2>2 DEF Rotation!RotationInv, Rotation!RowInv, Rotation!TypeOK
    <2>4. /\ t \in Rotation!Task /\ t.pc = "next" /\ t.list = task[p].list \ {c}
          /\ t.late = task[p].late
      BY DEF Rotation!RotationInv, Rotation!TypeOK, Rotation!Task
    <2>5. cipher \in Rotation!Row /\ cipher.version = Rotation!New /\ cipher # Rotation!Absent
      BY <1>2 DEF Rotation!Row, Rotation!Cipher, Rotation!Absent
    <2> HIDE DEF t, c
    <2>6. Rotation!RowInv'
      <3> SUFFICES ASSUME NEW d \in Connectors
                   PROVE  /\ rows'[d] \in {Rotation!Absent, Rotation!Deleted,
                                           [version |-> Rotation!Old, connector |-> d],
                                           [version |-> Rotation!New, connector |-> d]}
                          /\ audited'[d] <=
                               IF rows'[d] = Rotation!Absent \/ rows'[d].version = Rotation!Old
                                            THEN 0 ELSE 1
        BY DEF Rotation!RowInv
      <3>1. CASE d = c
        BY <1>2, <2>1, <2>3, <2>5, <3>1 DEF Rotation!RotationInv, Rotation!TypeOK
      <3>2. CASE d # c
        BY <2>1, <3>2 DEF Rotation!RotationInv, Rotation!RowInv, Rotation!TypeOK
      <3> QED
        BY <3>1, <3>2
    <2> HIDE DEF cipher
    <2>7. Rotation!TypeOK'
      BY <1>1, <1>2, <2>1, <2>3, <2>4, <2>5 DEF Rotation!RotationInv, Rotation!TypeOK
    <2>8. Rotation!RingInv'
      BY <1>1 DEF Rotation!RotationInv, Rotation!RingInv
    <2>9. ASSUME NEW q \in Procs PROVE task'[q] = IF q = p THEN t ELSE task[q]
      BY <2>1 DEF Rotation!RotationInv, Rotation!TypeOK
    <2>10. Rotation!UpdateInv'
      BY <1>1, <2>4, <2>9 DEF Rotation!RotationInv, Rotation!UpdateInv
    <2>11. ASSUME NEW d \in Connectors
           PROVE  rows'[d] = IF d = c THEN cipher ELSE rows[d]
      BY <2>1 DEF Rotation!RotationInv, Rotation!TypeOK
    <2>12. Rotation!LateInv'
      BY <1>1, <2>4, <2>5, <2>9, <2>11 DEF Rotation!RotationInv, Rotation!LateInv
    <2>13. Rotation!CleanRunLeavesNoOld'
      BY <1>1, <2>5, <2>11 DEF Rotation!RotationInv, Rotation!CleanRunLeavesNoOld,
                               Rotation!Stored
    <2> QED
      BY <2>6, <2>7, <2>8, <2>10, <2>12, <2>13 DEF Rotation!RotationInv
  <1> QED
    BY <1>3, <1>4

\* rotate_tenant returns: a late run that has come to the end of its list
\* leaves no row under the old version.
LEMMA RotateDoneInv ==
    ASSUME Rotation!KeyRotationAssumption, Rotation!RotationInv,
           NEW p \in Procs, Rotation!RotateDone(p)
    PROVE  Rotation!RotationInv'
  <1> USE TwoVersions DEF Rotation!RotationInv
  <1>1. /\ task' = [task EXCEPT ![p] = Rotation!Idle]
        /\ UNCHANGED <<rows, ring, runs, audited>>
        /\ task[p].list = {}
        /\ operator' = IF task[p].late /\ operator = "rotating" THEN "rotated" ELSE operator
    BY DEF Rotation!RotateDone
  <1>2. Rotation!Idle \in Rotation!Task /\ Rotation!Idle.pc = "idle" /\ ~Rotation!Idle.late
    BY DEF Rotation!Idle, Rotation!Task, Rotation!Row
  <1>3. ASSUME NEW q \in Procs PROVE task'[q] = IF q = p THEN Rotation!Idle ELSE task[q]
    BY <1>1 DEF Rotation!TypeOK
  <1>4. Rotation!TypeOK'
    BY <1>1, <1>2 DEF Rotation!TypeOK
  <1>5. Rotation!RingInv'
    BY <1>1 DEF Rotation!RingInv
  <1>6. Rotation!RowInv'
    BY <1>1 DEF Rotation!RowInv
  <1>7. Rotation!UpdateInv'
    BY <1>1, <1>2, <1>3 DEF Rotation!UpdateInv
  <1>8. Rotation!LateInv'
    BY <1>1, <1>2, <1>3 DEF Rotation!LateInv
  <1>9. Rotation!CleanRunLeavesNoOld'
    <2>1. CASE task[p].late /\ operator = "rotating"
      <3>1. \A c \in Connectors : rows[c].version # Rotation!Old
        BY <1>1, <2>1 DEF Rotation!LateInv
      <3>2. \A c \in Rotation!Stored : rows[c].version = Rotation!New
        BY <3>1 DEF Rotation!RowInv, Rotation!Stored, Rotation!Absent, Rotation!Deleted
      <3> QED
        BY <1>1, <3>2 DEF Rotation!CleanRunLeavesNoOld, Rotation!Stored
    <2>2. CASE ~(task[p].late /\ operator = "rotating")
      BY <1>1, <2>2 DEF Rotation!CleanRunLeavesNoOld, Rotation!Stored
    <2> QED
      BY <2>1, <2>2
  <1> QED
    BY <1>4, <1>5, <1>6, <1>7, <1>8, <1>9

\* The operator's steps (docs/operations.md): a restart ends the run of its
\* process and gives it both keys.

LEMMA SelectNewInv ==
    ASSUME Rotation!KeyRotationAssumption, Rotation!RotationInv,
           NEW p \in Procs, Rotation!SelectNew(p)
    PROVE  Rotation!RotationInv'
  <1> USE TwoVersions DEF Rotation!RotationInv
  <1>1. /\ ring' = [ring EXCEPT ![p] = Rotation!BothKeys]
        /\ task' = [task EXCEPT ![p] = Rotation!Idle]
        /\ operator = "selecting" /\ UNCHANGED <<rows, runs, audited, operator>>
    BY DEF Rotation!SelectNew, Rotation!BothKeys
  <1>2. Rotation!Idle \in Rotation!Task /\ Rotation!Idle.pc = "idle" /\ ~Rotation!Idle.late
    BY DEF Rotation!Idle, Rotation!Task, Rotation!Row
  <1>3. Rotation!BothKeys \in [active : KeyVersions, keys : SUBSET KeyVersions]
    BY DEF Rotation!BothKeys
  <1>4. ASSUME NEW q \in Procs
        PROVE  /\ task'[q] = IF q = p THEN Rotation!Idle ELSE task[q]
               /\ ring'[q] = IF q = p THEN Rotation!BothKeys ELSE ring[q]
    BY <1>1 DEF Rotation!TypeOK
  <1>5. Rotation!TypeOK'
    BY <1>1, <1>2, <1>3 DEF Rotation!TypeOK
  <1>6. Rotation!RingInv'
    BY <1>1, <1>4 DEF Rotation!RingInv
  <1>7. Rotation!RowInv' /\ Rotation!CleanRunLeavesNoOld'
    BY <1>1 DEF Rotation!RowInv, Rotation!CleanRunLeavesNoOld
  <1>8. Rotation!UpdateInv' /\ Rotation!LateInv'
    BY <1>1, <1>2, <1>4 DEF Rotation!UpdateInv, Rotation!LateInv
  <1> QED
    BY <1>5, <1>6, <1>7, <1>8

LEMMA AllSelectedInv ==
    ASSUME Rotation!KeyRotationAssumption, Rotation!RotationInv, Rotation!AllSelected
    PROVE  Rotation!RotationInv'
  <1> USE TwoVersions DEF Rotation!RotationInv
  <1>1. /\ operator = "selecting" /\ operator' = "rotating"
        /\ UNCHANGED <<rows, ring, task, runs, audited>>
        /\ \A p \in Procs : ring[p].active = Rotation!New
    BY DEF Rotation!AllSelected
  <1>2. \A p \in Procs : ring[p] = Rotation!BothKeys
    BY <1>1 DEF Rotation!RingInv, Rotation!OldKeys
  <1>3. Rotation!TypeOK' /\ Rotation!RowInv'
    BY <1>1 DEF Rotation!TypeOK, Rotation!RowInv
  <1>4. Rotation!RingInv'
    BY <1>1, <1>2 DEF Rotation!RingInv
  <1>5. Rotation!UpdateInv' /\ Rotation!LateInv' /\ Rotation!CleanRunLeavesNoOld'
    BY <1>1 DEF Rotation!UpdateInv, Rotation!LateInv, Rotation!CleanRunLeavesNoOld
  <1> QED
    BY <1>3, <1>4, <1>5

LEMMA RetireInv ==
    ASSUME Rotation!KeyRotationAssumption, Rotation!RotationInv,
           NEW p \in Procs, Rotation!Retire(p)
    PROVE  Rotation!RotationInv'
  <1> USE TwoVersions DEF Rotation!RotationInv
  <1>1. /\ operator = "rotated" /\ operator' = "retired"
        /\ ring' = [q \in Procs |-> Rotation!NewKeys]
        /\ task' = [q \in Procs |-> Rotation!Idle]
        /\ UNCHANGED <<rows, runs, audited>>
    BY DEF Rotation!Retire, Rotation!NewKeys
  <1>2. Rotation!Idle \in Rotation!Task /\ Rotation!Idle.pc = "idle" /\ ~Rotation!Idle.late
    BY DEF Rotation!Idle, Rotation!Task, Rotation!Row
  <1>3. Rotation!NewKeys \in [active : KeyVersions, keys : SUBSET KeyVersions]
    BY DEF Rotation!NewKeys
  <1>4. Rotation!TypeOK'
    BY <1>1, <1>2, <1>3 DEF Rotation!TypeOK
  <1>5. Rotation!RingInv' /\ Rotation!RowInv'
    BY <1>1 DEF Rotation!RingInv, Rotation!RowInv
  <1>6. Rotation!UpdateInv' /\ Rotation!LateInv' /\ Rotation!CleanRunLeavesNoOld'
    BY <1>1, <1>2 DEF Rotation!UpdateInv, Rotation!LateInv, Rotation!CleanRunLeavesNoOld,
                      Rotation!Stored
  <1> QED
    BY <1>4, <1>5, <1>6

LEMMA RotationStep ==
    ASSUME Rotation!KeyRotationAssumption, Rotation!RotationInv, [Rotation!Next]_Rotation!vars
    PROVE  Rotation!RotationInv'
  <1>1. CASE UNCHANGED Rotation!vars
    BY <1>1 DEF Rotation!vars, Rotation!RotationInv, Rotation!TypeOK, Rotation!RingInv,
                Rotation!RowInv, Rotation!UpdateInv, Rotation!LateInv,
                Rotation!CleanRunLeavesNoOld, Rotation!Stored
  <1>2. CASE Rotation!Next
    BY <1>2, EnrollInv, DiscardInv, ListStaleInv, RotateReadInv, RotateWriteInv,
       RotateDoneInv, CrashInv, SelectNewInv, RetireInv, AllSelectedInv
    DEF Rotation!Next, Rotation!Rotation
  <1> QED
    BY <1>1, <1>2

\* Under the invariant every keyring with the new version active opens every
\* stored row: it has both versions, or no row is left under the old one.
LEMMA InvariantIsSound ==
    ASSUME Rotation!KeyRotationAssumption, Rotation!RotationInv
    PROVE  Rotation!RotationSound
  <1> USE TwoVersions DEF Rotation!RotationInv
  <1>1. Rotation!AlwaysDecryptable
    <2> SUFFICES ASSUME NEW p \in Procs, NEW c \in Rotation!Stored,
                        ring[p].active = Rotation!New
                 PROVE  Rotation!CanDecrypt(p, c, rows[c])
      BY DEF Rotation!AlwaysDecryptable
    <2>1. c \in Connectors /\ rows[c].version # 0
      BY DEF Rotation!Stored
    <2>2. rows[c] \in {[version |-> Rotation!Old, connector |-> c],
                       [version |-> Rotation!New, connector |-> c]}
      BY <2>1 DEF Rotation!RowInv, Rotation!Absent, Rotation!Deleted
    <2>3. \/ ring[p] = Rotation!BothKeys
          \/ ring[p] = Rotation!NewKeys /\ rows[c].version = Rotation!New
      BY DEF Rotation!TypeOK, Rotation!RingInv, Rotation!OldKeys, Rotation!CleanRunLeavesNoOld
    <2> QED
      BY <2>2, <2>3 DEF Rotation!CanDecrypt, Rotation!BothKeys, Rotation!NewKeys
  <1>2. Rotation!RotatedOnce
    BY DEF Rotation!RotatedOnce, Rotation!RowInv, Rotation!TypeOK
  <1> QED
    BY <1>1, <1>2 DEF Rotation!RotationSound

\* However rotations overlap, stop half way and are run again: no process with
\* its new keyring meets a connector it cannot decrypt, a run that began after
\* the last restart and returned leaves no row under the old version, and no
\* row is rotated twice (EncryptedConnectionRepository.rotate, rotate_tenant,
\* verify_all).
THEOREM RotationHolds == AllSpec => []RotationSound
  <1> DEFINE Inv == part = "rotation" => Rotation!RotationInv
  <1>1. Rotation!KeyRotationAssumption
    BY ServiceAssumption
  <1>2. AllInit => Inv
    BY <1>1, InitRotation DEF AllInit, RotationInit
  <1>3. Inv /\ [AllNext]_allVars => Inv'
    BY <1>1, PartStays, RotationPart, RotationStep
  <1>4. Inv => RotationSound
    BY <1>1, InvariantIsSound DEF RotationSound
  <1> QED
    BY <1>2, <1>3, <1>4, PTL DEF AllSpec

----------------------------------------------------------------------------
\* Audit chain and proposals.

AppendsProved == INSTANCE AuditChain_proofs WITH
    audit <- chain,
    Txns <- Audits.appends.txns, Dialect <- Audits.appends.dialect,
    Operation <- Audits.appends.operation, TenantOf <- Audits.appends.tenant

LEMMA SameAppends ==
    /\ AppendsProved!AuditChainAssumption <=> Appends!AuditChainAssumption
    /\ AppendsProved!Init <=> Appends!Init
    /\ AppendsProved!Next <=> Appends!Next
    /\ AppendsProved!OneChain <=> Appends!OneChain
    /\ AppendsProved!ChainGrows <=> Appends!ChainGrows
  <1>1. AppendsProved!AuditChainAssumption <=> Appends!AuditChainAssumption
    BY Zenon DEF AppendsProved!AuditChainAssumption, Appends!AuditChainAssumption,
                 AppendsProved!Operations, Appends!Operations
  <1>2. AppendsProved!Init <=> Appends!Init
    BY Zenon DEF AppendsProved!Init, Appends!Init, AppendsProved!NewTxn, Appends!NewTxn,
                 AppendsProved!GENESIS_HASH, Appends!GENESIS_HASH, AppendsProved!NoProposal,
                 Appends!NoProposal
  <1>3. AppendsProved!Next <=> Appends!Next
    BY Zenon DEF AppendsProved!Next, Appends!Next, AppendsProved!Finished, Appends!Finished,
                 AppendsProved!vars, Appends!vars, AppendsProved!Step, Appends!Step,
                 AppendsProved!Begin, Appends!Begin, AppendsProved!Lock, Appends!Lock,
                 AppendsProved!ReadLast, Appends!ReadLast, AppendsProved!InsertAudit,
                 Appends!InsertAudit, AppendsProved!RecordReport, Appends!RecordReport,
                 AppendsProved!RecordProposal, Appends!RecordProposal,
                 AppendsProved!UpdateProposal, Appends!UpdateProposal, AppendsProved!Commit,
                 Appends!Commit, AppendsProved!Rollback, Appends!Rollback, AppendsProved!Open,
                 Appends!Open, AppendsProved!LastHash, Appends!LastHash,
                 AppendsProved!HashOfLast, Appends!HashOfLast, AppendsProved!RowsOf,
                 Appends!RowsOf, AppendsProved!HashPayload, Appends!HashPayload,
                 AppendsProved!GENESIS_HASH, Appends!GENESIS_HASH, AppendsProved!Expected,
                 Appends!Expected, AppendsProved!Targets, Appends!Targets,
                 AppendsProved!MatchingProposals, Appends!MatchingProposals,
                 AppendsProved!NoProposal, Appends!NoProposal, AppendsProved!Max, Appends!Max
  <1>4. AppendsProved!OneChain <=> Appends!OneChain
    BY Zenon DEF AppendsProved!OneChain, Appends!OneChain, AppendsProved!VerifyChain,
                 Appends!VerifyChain, AppendsProved!ListedBefore, Appends!ListedBefore,
                 AppendsProved!RowsOf, Appends!RowsOf, AppendsProved!HashOfLast,
                 Appends!HashOfLast, AppendsProved!HashPayload, Appends!HashPayload,
                 AppendsProved!GENESIS_HASH, Appends!GENESIS_HASH, AppendsProved!Tenants,
                 Appends!Tenants
  <1>5. AppendsProved!ChainGrows <=> Appends!ChainGrows
    BY Zenon DEF AppendsProved!ChainGrows, Appends!ChainGrows, AppendsProved!RowsOf,
                 Appends!RowsOf, AppendsProved!Tenants, Appends!Tenants
  <1> QED
    BY <1>1, <1>2, <1>3, <1>4, <1>5

ProposalsProved == INSTANCE AuditChain_proofs WITH
    audit <- chain,
    Txns <- Audits.proposals.txns, Dialect <- Audits.proposals.dialect,
    Operation <- Audits.proposals.operation, TenantOf <- Audits.proposals.tenant

LEMMA SameProposals ==
    /\ ProposalsProved!AuditChainAssumption <=> Proposals!AuditChainAssumption
    /\ ProposalsProved!Init <=> Proposals!Init
    /\ ProposalsProved!Next <=> Proposals!Next
    /\ ProposalsProved!OneTransition <=> Proposals!OneTransition
  <1>1. ProposalsProved!AuditChainAssumption <=> Proposals!AuditChainAssumption
    BY Zenon DEF ProposalsProved!AuditChainAssumption, Proposals!AuditChainAssumption,
                 ProposalsProved!Operations, Proposals!Operations
  <1>2. ProposalsProved!Init <=> Proposals!Init
    BY Zenon DEF ProposalsProved!Init, Proposals!Init, ProposalsProved!NewTxn,
                 Proposals!NewTxn, ProposalsProved!GENESIS_HASH, Proposals!GENESIS_HASH,
                 ProposalsProved!NoProposal, Proposals!NoProposal
  <1>3. ProposalsProved!Next <=> Proposals!Next
    BY Zenon DEF ProposalsProved!Next, Proposals!Next, ProposalsProved!Finished,
                 Proposals!Finished, ProposalsProved!vars, Proposals!vars,
                 ProposalsProved!Step, Proposals!Step, ProposalsProved!Begin, Proposals!Begin,
                 ProposalsProved!Lock, Proposals!Lock, ProposalsProved!ReadLast,
                 Proposals!ReadLast, ProposalsProved!InsertAudit, Proposals!InsertAudit,
                 ProposalsProved!RecordReport, Proposals!RecordReport,
                 ProposalsProved!RecordProposal, Proposals!RecordProposal,
                 ProposalsProved!UpdateProposal, Proposals!UpdateProposal,
                 ProposalsProved!Commit, Proposals!Commit, ProposalsProved!Rollback,
                 Proposals!Rollback, ProposalsProved!Open, Proposals!Open,
                 ProposalsProved!LastHash, Proposals!LastHash, ProposalsProved!HashOfLast,
                 Proposals!HashOfLast, ProposalsProved!RowsOf, Proposals!RowsOf,
                 ProposalsProved!HashPayload, Proposals!HashPayload,
                 ProposalsProved!GENESIS_HASH, Proposals!GENESIS_HASH,
                 ProposalsProved!Expected, Proposals!Expected, ProposalsProved!Targets,
                 Proposals!Targets, ProposalsProved!MatchingProposals,
                 Proposals!MatchingProposals, ProposalsProved!NoProposal,
                 Proposals!NoProposal, ProposalsProved!Max, Proposals!Max
  <1>4. ProposalsProved!OneTransition <=> Proposals!OneTransition
    BY Zenon DEF ProposalsProved!OneTransition, Proposals!OneTransition,
                 ProposalsProved!Expected, Proposals!Expected
  <1> QED
    BY <1>1, <1>2, <1>3, <1>4

OneWriterProved == INSTANCE AuditChain_proofs WITH
    audit <- chain,
    Txns <- Audits.one_writer.txns, Dialect <- Audits.one_writer.dialect,
    Operation <- Audits.one_writer.operation, TenantOf <- Audits.one_writer.tenant

LEMMA SameOneWriter ==
    /\ OneWriterProved!AuditChainAssumption <=> OneWriter!AuditChainAssumption
    /\ OneWriterProved!Init <=> OneWriter!Init
    /\ OneWriterProved!Next <=> OneWriter!Next
    /\ OneWriterProved!OneChain <=> OneWriter!OneChain
    /\ OneWriterProved!ChainGrows <=> OneWriter!ChainGrows
    /\ OneWriterProved!OneTransition <=> OneWriter!OneTransition
  <1>1. OneWriterProved!AuditChainAssumption <=> OneWriter!AuditChainAssumption
    BY Zenon DEF OneWriterProved!AuditChainAssumption, OneWriter!AuditChainAssumption,
                 OneWriterProved!Operations, OneWriter!Operations
  <1>2. OneWriterProved!Init <=> OneWriter!Init
    BY Zenon DEF OneWriterProved!Init, OneWriter!Init, OneWriterProved!NewTxn,
                 OneWriter!NewTxn, OneWriterProved!GENESIS_HASH, OneWriter!GENESIS_HASH,
                 OneWriterProved!NoProposal, OneWriter!NoProposal
  <1>3. OneWriterProved!Next <=> OneWriter!Next
    BY Zenon DEF OneWriterProved!Next, OneWriter!Next, OneWriterProved!Finished,
                 OneWriter!Finished, OneWriterProved!vars, OneWriter!vars,
                 OneWriterProved!Step, OneWriter!Step, OneWriterProved!Begin, OneWriter!Begin,
                 OneWriterProved!Lock, OneWriter!Lock, OneWriterProved!ReadLast,
                 OneWriter!ReadLast, OneWriterProved!InsertAudit, OneWriter!InsertAudit,
                 OneWriterProved!RecordReport, OneWriter!RecordReport,
                 OneWriterProved!RecordProposal, OneWriter!RecordProposal,
                 OneWriterProved!UpdateProposal, OneWriter!UpdateProposal,
                 OneWriterProved!Commit, OneWriter!Commit, OneWriterProved!Rollback,
                 OneWriter!Rollback, OneWriterProved!Open, OneWriter!Open,
                 OneWriterProved!LastHash, OneWriter!LastHash, OneWriterProved!HashOfLast,
                 OneWriter!HashOfLast, OneWriterProved!RowsOf, OneWriter!RowsOf,
                 OneWriterProved!HashPayload, OneWriter!HashPayload,
                 OneWriterProved!GENESIS_HASH, OneWriter!GENESIS_HASH,
                 OneWriterProved!Expected, OneWriter!Expected, OneWriterProved!Targets,
                 OneWriter!Targets, OneWriterProved!MatchingProposals,
                 OneWriter!MatchingProposals, OneWriterProved!NoProposal,
                 OneWriter!NoProposal, OneWriterProved!Max, OneWriter!Max
  <1>4. OneWriterProved!OneChain <=> OneWriter!OneChain
    BY Zenon DEF OneWriterProved!OneChain, OneWriter!OneChain, OneWriterProved!VerifyChain,
                 OneWriter!VerifyChain, OneWriterProved!ListedBefore, OneWriter!ListedBefore,
                 OneWriterProved!RowsOf, OneWriter!RowsOf, OneWriterProved!HashOfLast,
                 OneWriter!HashOfLast, OneWriterProved!HashPayload, OneWriter!HashPayload,
                 OneWriterProved!GENESIS_HASH, OneWriter!GENESIS_HASH,
                 OneWriterProved!Tenants, OneWriter!Tenants
  <1>5. OneWriterProved!ChainGrows <=> OneWriter!ChainGrows
    BY Zenon DEF OneWriterProved!ChainGrows, OneWriter!ChainGrows, OneWriterProved!RowsOf,
                 OneWriter!RowsOf, OneWriterProved!Tenants, OneWriter!Tenants
  <1>6. OneWriterProved!OneTransition <=> OneWriter!OneTransition
    BY Zenon DEF OneWriterProved!OneTransition, OneWriter!OneTransition,
                 OneWriterProved!Expected, OneWriter!Expected
  <1> QED
    BY <1>1, <1>2, <1>3, <1>4, <1>5, <1>6

\* Whatever order transactions run and fail in, on either database, the audit
\* log of a tenant is one chain at every moment, and a commit only adds entries
\* behind those a reader may have seen (AuditRepository.append_in_transaction).
THEOREM ChainsAreOne == AllSpec => OneChain
  <1>1. AppendsProved!AuditChainAssumption /\ OneWriterProved!AuditChainAssumption
    BY ServiceAssumption, SameAppends, SameOneWriter
  <1>2. AppendsProved!Spec => []AppendsProved!OneChain
                              /\ [][AppendsProved!ChainGrows]_AppendsProved!vars
    BY <1>1, AppendsProved!ChainIsOne
  <1>3. OneWriterProved!Spec => []OneWriterProved!OneChain
                                /\ [][OneWriterProved!ChainGrows]_OneWriterProved!vars
    BY <1>1, OneWriterProved!ChainIsOne
  <1>4. AllInit => /\ part = "appends" => AppendsProved!Init
                   /\ part = "one_writer" => OneWriterProved!Init
    BY SameAppends, SameOneWriter DEF AllInit, AuditInit, AuditParts
  <1>5. [AllNext]_allVars => /\ part = "appends" => (part = "appends")'
                             /\ ~(part = "appends") => ~(part = "appends")'
                             /\ part = "one_writer" => (part = "one_writer")'
                             /\ ~(part = "one_writer") => ~(part = "one_writer")'
    BY PartStays
  <1>6. part = "appends" /\ [AllNext]_allVars => [AppendsProved!Next]_AppendsProved!vars
    BY AuditPart, SameAppends DEF AppendsProved!vars, Appends!vars
  <1>7. part = "one_writer" /\ [AllNext]_allVars => [OneWriterProved!Next]_OneWriterProved!vars
    BY AuditPart, SameOneWriter DEF OneWriterProved!vars, OneWriter!vars
  <1>8. /\ AppendsProved!OneChain => Appends!OneChain
        /\ OneWriterProved!OneChain => OneWriter!OneChain
    BY SameAppends, SameOneWriter
  <1>9. [AppendsProved!ChainGrows]_AppendsProved!vars
          => [part = "appends" => Appends!ChainGrows]_allVars
    <2>1. AppendsProved!ChainGrows => Appends!ChainGrows
      BY SameAppends
    <2>2. UNCHANGED AppendsProved!vars => Appends!ChainGrows
      BY DEF AppendsProved!vars, Appends!ChainGrows, Appends!RowsOf, Appends!Tenants
    <2> QED
      BY <2>1, <2>2
  <1>10. ~(part = "appends") => [part = "appends" => Appends!ChainGrows]_allVars
    OBVIOUS
  <1> QED
    BY <1>2, <1>3, <1>4, <1>5, <1>6, <1>7, <1>8, <1>9, <1>10, PTL
       DEF AllSpec, OneChain, AppendsProved!Spec, OneWriterProved!Spec

\* Of the callers racing to move a proposal out of one state, one is told it
\* did, and what has expired is never executed, on either database
\* (ProposalRepository.transition).
THEOREM TransitionsAreOne == AllSpec => []OneTransition
  <1>1. ProposalsProved!AuditChainAssumption /\ OneWriterProved!AuditChainAssumption
    BY ServiceAssumption, SameProposals, SameOneWriter
  <1>2. ProposalsProved!Spec => []ProposalsProved!OneTransition
    BY <1>1, ProposalsProved!TransitionIsOne
  <1>3. OneWriterProved!Spec => []OneWriterProved!OneTransition
    BY <1>1, OneWriterProved!TransitionIsOne
  <1>4. AllInit => /\ part = "proposals" => ProposalsProved!Init
                   /\ part = "one_writer" => OneWriterProved!Init
    BY SameProposals, SameOneWriter DEF AllInit, AuditInit, AuditParts
  <1>5. [AllNext]_allVars => /\ part = "proposals" => (part = "proposals")'
                             /\ ~(part = "proposals") => ~(part = "proposals")'
                             /\ part = "one_writer" => (part = "one_writer")'
                             /\ ~(part = "one_writer") => ~(part = "one_writer")'
    BY PartStays
  <1>6. part = "proposals" /\ [AllNext]_allVars => [ProposalsProved!Next]_ProposalsProved!vars
    BY AuditPart, SameProposals DEF ProposalsProved!vars, Proposals!vars
  <1>7. part = "one_writer" /\ [AllNext]_allVars => [OneWriterProved!Next]_OneWriterProved!vars
    BY AuditPart, SameOneWriter DEF OneWriterProved!vars, OneWriter!vars
  <1>8. /\ (part = "proposals" => ProposalsProved!OneTransition)
        /\ (part = "one_writer" => OneWriterProved!OneTransition)
        => OneTransition
    BY SameProposals, SameOneWriter DEF OneTransition
  <1> QED
    BY <1>2, <1>3, <1>4, <1>5, <1>6, <1>7, <1>8, PTL
       DEF AllSpec, ProposalsProved!Spec, OneWriterProved!Spec

----------------------------------------------------------------------------
\* Database files.

RecoveryProved == INSTANCE StorageFiles_proofs WITH
    Programs <- Files.recovery.programs, CodeVersion <- Files.recovery.version,
    Role <- Files.recovery.role, PathOf <- Files.recovery.path,
    Source <- Files.recovery.source, Waits <- Files.recovery.waits,
    Paths <- Files.recovery.paths, Keys <- Files.recovery.keys,
    MaxStarts <- Files.recovery.starts

LEMMA SameRecovery ==
    /\ RecoveryProved!StorageFilesAssumption <=> Recovery!StorageFilesAssumption
    /\ RecoveryProved!RestoresAwaited <=> Recovery!RestoresAwaited
    /\ RecoveryProved!SnapshotsUnopened <=> Recovery!SnapshotsUnopened
    /\ RecoveryProved!SnapshotsOwn <=> Recovery!SnapshotsOwn
    /\ RecoveryProved!Init <=> Recovery!Init
    /\ RecoveryProved!Next <=> Recovery!Next
    /\ RecoveryProved!SchemaMatchesHistory <=> Recovery!SchemaMatchesHistory
    /\ RecoveryProved!OpenedIsMigrated <=> Recovery!OpenedIsMigrated
    /\ RecoveryProved!SnapshotRemembers <=> Recovery!SnapshotRemembers
    /\ RecoveryProved!NothingTaken <=> Recovery!NothingTaken
  <1>1. RecoveryProved!StorageFilesAssumption <=> Recovery!StorageFilesAssumption
    BY Zenon DEF RecoveryProved!StorageFilesAssumption, Recovery!StorageFilesAssumption
  <1>2. RecoveryProved!RestoresAwaited <=> Recovery!RestoresAwaited
    BY Zenon DEF RecoveryProved!RestoresAwaited, Recovery!RestoresAwaited
  <1>3. RecoveryProved!SnapshotsUnopened <=> Recovery!SnapshotsUnopened
    BY Zenon DEF RecoveryProved!SnapshotsUnopened, Recovery!SnapshotsUnopened
  <1>10. RecoveryProved!SnapshotsOwn <=> Recovery!SnapshotsOwn
    BY Zenon DEF RecoveryProved!SnapshotsOwn, Recovery!SnapshotsOwn
  <1>4. RecoveryProved!Init <=> Recovery!Init
    BY Zenon DEF RecoveryProved!Init, Recovery!Init, RecoveryProved!AllPaths,
                 Recovery!AllPaths, RecoveryProved!Absent, Recovery!Absent,
                 RecoveryProved!Idle, Recovery!Idle
  <1>5. RecoveryProved!Next <=> Recovery!Next
    BY Zenon DEF RecoveryProved!Next, Recovery!Next, RecoveryProved!AllPaths,
                 Recovery!AllPaths, RecoveryProved!Absent, Recovery!Absent,
                 RecoveryProved!Damaged, Recovery!Damaged, RecoveryProved!Empty,
                 Recovery!Empty, RecoveryProved!Usable, Recovery!Usable, RecoveryProved!Past,
                 Recovery!Past, RecoveryProved!CopyOf, Recovery!CopyOf,
                 RecoveryProved!Unfinished, Recovery!Unfinished, RecoveryProved!Idle,
                 Recovery!Idle, RecoveryProved!Versions, Recovery!Versions,
                 RecoveryProved!IsPrefix, Recovery!IsPrefix, RecoveryProved!Goto,
                 Recovery!Goto, RecoveryProved!Stops, Recovery!Stops, RecoveryProved!Fails,
                 Recovery!Fails, RecoveryProved!Succeeds, Recovery!Succeeds,
                 RecoveryProved!EnsureTable, Recovery!EnsureTable, RecoveryProved!KnownPrefix,
                 Recovery!KnownPrefix, RecoveryProved!ReadHistory, Recovery!ReadHistory,
                 RecoveryProved!Migrated, Recovery!Migrated, RecoveryProved!Migrate,
                 Recovery!Migrate, RecoveryProved!Opens, Recovery!Opens,
                 RecoveryProved!PathsAsExpected, Recovery!PathsAsExpected,
                 RecoveryProved!Start, Recovery!Start, RecoveryProved!Serve, Recovery!Serve,
                 RecoveryProved!Verify, Recovery!Verify, RecoveryProved!VerifyIntegrity,
                 Recovery!VerifyIntegrity, RecoveryProved!Backup, Recovery!Backup,
                 RecoveryProved!BackupCopy, Recovery!BackupCopy, RecoveryProved!BackupFails,
                 Recovery!BackupFails,
                 RecoveryProved!Copy, Recovery!Copy, RecoveryProved!SourceValid,
                 Recovery!SourceValid, RecoveryProved!CheckSource, Recovery!CheckSource,
                 RecoveryProved!Replace, Recovery!Replace, RecoveryProved!Reject,
                 Recovery!Reject, RecoveryProved!Kill, Recovery!Kill
  <1>6. RecoveryProved!SchemaMatchesHistory <=> Recovery!SchemaMatchesHistory
    BY Zenon DEF RecoveryProved!SchemaMatchesHistory, Recovery!SchemaMatchesHistory,
                 RecoveryProved!AllPaths, Recovery!AllPaths, RecoveryProved!Usable,
                 Recovery!Usable, RecoveryProved!Versions, Recovery!Versions,
                 RecoveryProved!IsPrefix, Recovery!IsPrefix
  <1>7. RecoveryProved!OpenedIsMigrated <=> Recovery!OpenedIsMigrated
    BY Zenon DEF RecoveryProved!OpenedIsMigrated, Recovery!OpenedIsMigrated,
                 RecoveryProved!Usable, Recovery!Usable
  <1>8. RecoveryProved!SnapshotRemembers <=> Recovery!SnapshotRemembers
    BY Zenon DEF RecoveryProved!SnapshotRemembers, Recovery!SnapshotRemembers
  <1>9. RecoveryProved!NothingTaken <=> Recovery!NothingTaken
    BY Zenon DEF RecoveryProved!NothingTaken, Recovery!NothingTaken, RecoveryProved!Usable,
                 Recovery!Usable
  <1> QED
    BY <1>1, <1>2, <1>3, <1>4, <1>5, <1>6, <1>7, <1>8, <1>9,
       <1>10

OpeningProved == INSTANCE StorageFiles_proofs WITH
    Programs <- Files.opening.programs, CodeVersion <- Files.opening.version,
    Role <- Files.opening.role, PathOf <- Files.opening.path,
    Source <- Files.opening.source, Waits <- Files.opening.waits,
    Paths <- Files.opening.paths, Keys <- Files.opening.keys,
    MaxStarts <- Files.opening.starts

LEMMA SameOpening ==
    /\ OpeningProved!StorageFilesAssumption <=> Opening!StorageFilesAssumption
    /\ OpeningProved!RestoresAwaited <=> Opening!RestoresAwaited
    /\ OpeningProved!SnapshotsUnopened <=> Opening!SnapshotsUnopened
    /\ OpeningProved!Init <=> Opening!Init
    /\ OpeningProved!Next <=> Opening!Next
    /\ OpeningProved!SchemaMatchesHistory <=> Opening!SchemaMatchesHistory
    /\ OpeningProved!OpenedIsMigrated <=> Opening!OpenedIsMigrated
  <1>1. OpeningProved!StorageFilesAssumption <=> Opening!StorageFilesAssumption
    BY Zenon DEF OpeningProved!StorageFilesAssumption, Opening!StorageFilesAssumption
  <1>2. OpeningProved!RestoresAwaited <=> Opening!RestoresAwaited
    BY Zenon DEF OpeningProved!RestoresAwaited, Opening!RestoresAwaited
  <1>7. OpeningProved!SnapshotsUnopened <=> Opening!SnapshotsUnopened
    BY Zenon DEF OpeningProved!SnapshotsUnopened, Opening!SnapshotsUnopened
  <1>3. OpeningProved!Init <=> Opening!Init
    BY Zenon DEF OpeningProved!Init, Opening!Init, OpeningProved!AllPaths, Opening!AllPaths,
                 OpeningProved!Absent, Opening!Absent, OpeningProved!Idle, Opening!Idle
  <1>4. OpeningProved!Next <=> Opening!Next
    BY Zenon DEF OpeningProved!Next, Opening!Next, OpeningProved!AllPaths, Opening!AllPaths,
                 OpeningProved!Absent, Opening!Absent, OpeningProved!Damaged, Opening!Damaged,
                 OpeningProved!Empty, Opening!Empty, OpeningProved!Usable, Opening!Usable,
                 OpeningProved!Past, Opening!Past, OpeningProved!CopyOf, Opening!CopyOf,
                 OpeningProved!Unfinished, Opening!Unfinished, OpeningProved!Idle,
                 Opening!Idle, OpeningProved!Versions, Opening!Versions,
                 OpeningProved!IsPrefix, Opening!IsPrefix, OpeningProved!Goto, Opening!Goto,
                 OpeningProved!Stops, Opening!Stops, OpeningProved!Fails, Opening!Fails,
                 OpeningProved!Succeeds, Opening!Succeeds, OpeningProved!EnsureTable,
                 Opening!EnsureTable, OpeningProved!KnownPrefix, Opening!KnownPrefix,
                 OpeningProved!ReadHistory, Opening!ReadHistory, OpeningProved!Migrated,
                 Opening!Migrated, OpeningProved!Migrate, Opening!Migrate, OpeningProved!Opens,
                 Opening!Opens, OpeningProved!PathsAsExpected, Opening!PathsAsExpected,
                 OpeningProved!Start, Opening!Start, OpeningProved!Serve, Opening!Serve,
                 OpeningProved!Verify, Opening!Verify, OpeningProved!VerifyIntegrity,
                 Opening!VerifyIntegrity, OpeningProved!Backup, Opening!Backup,
                 OpeningProved!BackupCopy, Opening!BackupCopy, OpeningProved!BackupFails,
                 Opening!BackupFails,
                 OpeningProved!Copy, Opening!Copy, OpeningProved!SourceValid,
                 Opening!SourceValid, OpeningProved!CheckSource, Opening!CheckSource,
                 OpeningProved!Replace, Opening!Replace, OpeningProved!Reject, Opening!Reject,
                 OpeningProved!Kill, Opening!Kill
  <1>5. OpeningProved!SchemaMatchesHistory <=> Opening!SchemaMatchesHistory
    BY Zenon DEF OpeningProved!SchemaMatchesHistory, Opening!SchemaMatchesHistory,
                 OpeningProved!AllPaths, Opening!AllPaths, OpeningProved!Usable,
                 Opening!Usable, OpeningProved!Versions, Opening!Versions,
                 OpeningProved!IsPrefix, Opening!IsPrefix
  <1>6. OpeningProved!OpenedIsMigrated <=> Opening!OpenedIsMigrated
    BY Zenon DEF OpeningProved!OpenedIsMigrated, Opening!OpenedIsMigrated,
                 OpeningProved!Usable, Opening!Usable
  <1> QED
    BY <1>1, <1>2, <1>3, <1>4, <1>5, <1>6, <1>7

\* Whoever races to open a file, of whatever release, and is killed: the schema
\* of every file is what its history says, and a program that has opened a file
\* finds every migration its code relies on (apply_migrations, Storage.open).
THEOREM FilesAreMigrated == AllSpec => []OpenedIsMigrated
  <1>1. /\ RecoveryProved!StorageFilesAssumption /\ RecoveryProved!RestoresAwaited
        /\ RecoveryProved!SnapshotsUnopened
        /\ OpeningProved!StorageFilesAssumption /\ OpeningProved!RestoresAwaited
        /\ OpeningProved!SnapshotsUnopened
    BY ServiceAssumption, OperatorAssumption, SameRecovery, SameOpening
  <1>2. RecoveryProved!Spec
            => [](RecoveryProved!SchemaMatchesHistory /\ RecoveryProved!OpenedIsMigrated)
    BY <1>1, RecoveryProved!FilesAreMigrated
  <1>3. OpeningProved!Spec
            => [](OpeningProved!SchemaMatchesHistory /\ OpeningProved!OpenedIsMigrated)
    BY <1>1, OpeningProved!FilesAreMigrated
  <1>4. AllInit => /\ part = "recovery" => RecoveryProved!Init
                   /\ part = "opening" => OpeningProved!Init
    BY SameRecovery, SameOpening DEF AllInit, FilesInit, FileParts
  <1>5. [AllNext]_allVars => /\ part = "recovery" => (part = "recovery")'
                             /\ ~(part = "recovery") => ~(part = "recovery")'
                             /\ part = "opening" => (part = "opening")'
                             /\ ~(part = "opening") => ~(part = "opening")'
    BY PartStays
  <1>6. part = "recovery" /\ [AllNext]_allVars => [RecoveryProved!Next]_RecoveryProved!vars
    BY FilesPart, SameRecovery DEF RecoveryProved!vars, Recovery!vars
  <1>7. part = "opening" /\ [AllNext]_allVars => [OpeningProved!Next]_OpeningProved!vars
    BY FilesPart, SameOpening DEF OpeningProved!vars, Opening!vars
  <1>8. /\ (part = "recovery" =>
               RecoveryProved!SchemaMatchesHistory /\ RecoveryProved!OpenedIsMigrated)
        /\ (part = "opening" =>
               OpeningProved!SchemaMatchesHistory /\ OpeningProved!OpenedIsMigrated)
        => OpenedIsMigrated
    BY SameRecovery, SameOpening DEF OpenedIsMigrated
  <1> QED
    BY <1>2, <1>3, <1>4, <1>5, <1>6, <1>7, <1>8, PTL
       DEF AllSpec, RecoveryProved!Spec, OpeningProved!Spec

\* A restored file remembers every key sent until its backup, and what a
\* database remembers is never taken from it, when the operator keeps to the
\* documented procedure and gives every backup a destination of its own
\* (Storage.backup, Storage.restore).
THEOREM RestoredFilesRemember == AllSpec => WritesRemembered
  <1>1. /\ RecoveryProved!StorageFilesAssumption /\ RecoveryProved!RestoresAwaited
        /\ RecoveryProved!SnapshotsUnopened /\ RecoveryProved!SnapshotsOwn
    BY ServiceAssumption, OperatorAssumption, SameRecovery
  <1>2. RecoveryProved!Spec => /\ []RecoveryProved!SnapshotRemembers
                               /\ [][RecoveryProved!NothingTaken]_RecoveryProved!vars
    BY <1>1, RecoveryProved!SnapshotsAreComplete
  <1>3. AllInit => (part = "recovery" => RecoveryProved!Init)
    BY SameRecovery DEF AllInit, FilesInit, FileParts
  <1>4. [AllNext]_allVars => /\ part = "recovery" => (part = "recovery")'
                             /\ ~(part = "recovery") => ~(part = "recovery")'
    BY PartStays
  <1>5. part = "recovery" /\ [AllNext]_allVars => [RecoveryProved!Next]_RecoveryProved!vars
    BY FilesPart, SameRecovery DEF RecoveryProved!vars, Recovery!vars
  <1>6. RecoveryProved!SnapshotRemembers => Recovery!SnapshotRemembers
    BY SameRecovery
  <1>7. [RecoveryProved!NothingTaken]_RecoveryProved!vars
            => [part = "recovery" => Recovery!NothingTaken]_allVars
    <2>1. RecoveryProved!NothingTaken => Recovery!NothingTaken
      BY SameRecovery
    <2>2. UNCHANGED RecoveryProved!vars => Recovery!NothingTaken
      BY DEF RecoveryProved!vars, Recovery!NothingTaken, Recovery!Usable
    <2> QED
      BY <2>1, <2>2
  <1>8. ~(part = "recovery") => [part = "recovery" => Recovery!NothingTaken]_allVars
    OBVIOUS
  <1> QED
    BY <1>2, <1>3, <1>4, <1>5, <1>6, <1>7, <1>8, PTL
       DEF AllSpec, WritesRemembered, RecoveryProved!Spec

=============================================================================
