------------------------------ MODULE Service -------------------------------
(***************************************************************************)
(* The request path and the storage layer under it: WriteSafety,           *)
(* ReadCalls, RateLimit, AuditChain, KeyRotation and StorageFiles.  A      *)
(* behaviour is one of one part, with the variables of the others at rest. *)
(***************************************************************************)
EXTENDS WriteSafety

CONSTANTS
    Audits,       \* what the transactions of each audit part are to do
    Files,        \* the programs of each file part
    Procs, Connectors, KeyVersions, MaxRuns,               \* KeyRotation
    Clients, MaxRequests, Window, MaxTime, MaxArrivals,    \* RateLimit
    Kinds, MaxCancels                                      \* ReadCalls

VARIABLES
    part,                                                \* the part that runs
    chain, artifacts, proposals, sequence, txn,          \* AuditChain
    rows, ring, task, runs, audited, operator,           \* KeyRotation
    file, prog, starts, done, sent,                      \* StorageFiles
    now, events, admitted, refused,                      \* RateLimit
    kind, permitted, at, binding, adapter, answer, recorded, artifact, cancels,
    lost                                                 \* ReadCalls

auditVars == <<chain, artifacts, proposals, sequence, txn>>
rotationVars == <<rows, ring, task, runs, audited, operator>>
fileVars == <<file, prog, starts, done, sent>>
limitVars == <<now, events, admitted, refused>>
callVars == <<kind, permitted, at, binding, adapter, answer, recorded, artifact, cancels, lost>>
allVars == <<part, vars, auditVars, rotationVars, fileVars, limitVars, callVars>>

AtRest == "at rest"

----------------------------------------------------------------------------
\* Transactions that append to chains, that move a proposal, and both.
Appends == INSTANCE AuditChain WITH
    audit <- chain,
    Txns <- Audits.appends.txns, Dialect <- Audits.appends.dialect,
    Operation <- Audits.appends.operation, TenantOf <- Audits.appends.tenant

Proposals == INSTANCE AuditChain WITH
    audit <- chain,
    Txns <- Audits.proposals.txns, Dialect <- Audits.proposals.dialect,
    Operation <- Audits.proposals.operation, TenantOf <- Audits.proposals.tenant

OneWriter == INSTANCE AuditChain WITH
    audit <- chain,
    Txns <- Audits.one_writer.txns, Dialect <- Audits.one_writer.dialect,
    Operation <- Audits.one_writer.operation, TenantOf <- Audits.one_writer.tenant

Rotation == INSTANCE KeyRotation WITH Versions <- KeyVersions, NoVersion <- 0

\* Backup, restore and what serves before and after; programs that open one file.
Recovery == INSTANCE StorageFiles WITH
    Programs <- Files.recovery.programs, CodeVersion <- Files.recovery.version,
    Role <- Files.recovery.role, PathOf <- Files.recovery.path,
    Source <- Files.recovery.source, Waits <- Files.recovery.waits,
    Paths <- Files.recovery.paths, Keys <- Files.recovery.keys,
    MaxStarts <- Files.recovery.starts

Opening == INSTANCE StorageFiles WITH
    Programs <- Files.opening.programs, CodeVersion <- Files.opening.version,
    Role <- Files.opening.role, PathOf <- Files.opening.path,
    Source <- Files.opening.source, Waits <- Files.opening.waits,
    Paths <- Files.opening.paths, Keys <- Files.opening.keys,
    MaxStarts <- Files.opening.starts

Limit == INSTANCE RateLimit WITH Requests <- MaxRequests

Calls == INSTANCE ReadCalls WITH pc <- at, rows <- recorded

ASSUME ServiceAssumption ==
    /\ Appends!AuditChainAssumption /\ Proposals!AuditChainAssumption
    /\ OneWriter!AuditChainAssumption /\ Rotation!KeyRotationAssumption
    /\ Recovery!StorageFilesAssumption /\ Opening!StorageFilesAssumption
    /\ Limit!RateLimitAssumption /\ Calls!ReadCallsAssumption

\* The operator waits for a restore before starting anything on its
\* destination, opens a backup only by restoring it (docs/operations.md), and
\* gives every backup a destination of its own.
ASSUME OperatorAssumption ==
    /\ Recovery!RestoresAwaited /\ Recovery!SnapshotsUnopened /\ Recovery!SnapshotsOwn
    /\ Opening!RestoresAwaited /\ Opening!SnapshotsUnopened

----------------------------------------------------------------------------
AuditParts == {"appends", "proposals", "one_writer"}
FileParts == {"recovery", "opening"}

AuditInit ==
    \/ part = "appends" /\ Appends!Init
    \/ part = "proposals" /\ Proposals!Init
    \/ part = "one_writer" /\ OneWriter!Init
    \/ /\ part \notin AuditParts
       /\ chain = AtRest /\ artifacts = AtRest /\ proposals = AtRest
       /\ sequence = AtRest /\ txn = AtRest

RotationInit ==
    \/ part = "rotation" /\ Rotation!Init
    \/ /\ part # "rotation"
       /\ rows = AtRest /\ ring = AtRest /\ task = AtRest
       /\ runs = AtRest /\ audited = AtRest /\ operator = AtRest

FilesInit ==
    \/ part = "recovery" /\ Recovery!Init
    \/ part = "opening" /\ Opening!Init
    \/ /\ part \notin FileParts
       /\ file = AtRest /\ prog = AtRest /\ starts = AtRest /\ done = AtRest /\ sent = AtRest

LimitInit ==
    \/ part = "limit" /\ Limit!Init
    \/ /\ part # "limit"
       /\ now = AtRest /\ events = AtRest /\ admitted = AtRest /\ refused = AtRest

CallsInit ==
    \/ part = "calls" /\ Calls!Init
    \/ /\ part # "calls"
       /\ kind = AtRest /\ permitted = AtRest /\ at = AtRest /\ binding = AtRest
       /\ adapter = AtRest /\ answer = AtRest /\ recorded = AtRest /\ artifact = AtRest
       /\ cancels = AtRest /\ lost = AtRest

AllInit ==
    /\ part \in AuditParts \cup FileParts \cup {"rotation", "limit", "calls", "writes"}
    /\ Init /\ AuditInit /\ RotationInit /\ FilesInit /\ LimitInit /\ CallsInit

AuditNext ==
    /\ \/ part = "appends" /\ Appends!Next
       \/ part = "proposals" /\ Proposals!Next
       \/ part = "one_writer" /\ OneWriter!Next
    /\ UNCHANGED <<part, vars, rotationVars, fileVars, limitVars, callVars>>

RotationNext ==
    /\ part = "rotation" /\ Rotation!Next
    /\ UNCHANGED <<part, vars, auditVars, fileVars, limitVars, callVars>>

FilesNext ==
    /\ \/ part = "recovery" /\ Recovery!Next
       \/ part = "opening" /\ Opening!Next
    /\ UNCHANGED <<part, vars, auditVars, rotationVars, limitVars, callVars>>

LimitNext ==
    /\ part = "limit" /\ Limit!Next
    /\ UNCHANGED <<part, vars, auditVars, rotationVars, fileVars, callVars>>

CallsNext ==
    /\ part = "calls" /\ Calls!Next
    /\ UNCHANGED <<part, vars, auditVars, rotationVars, fileVars, limitVars>>

WritesNext ==
    /\ part = "writes" /\ Next
    /\ UNCHANGED <<part, auditVars, rotationVars, fileVars, limitVars, callVars>>

AllNext == WritesNext \/ AuditNext \/ RotationNext \/ FilesNext \/ LimitNext \/ CallsNext

\* The fairness of WriteSafety, AuditChain and ReadCalls.
AllSpec ==
    /\ AllInit /\ [][AllNext]_allVars
    /\ \A r \in Requests : WF_vars(part = "writes" /\ Proceed(r))
    /\ \A t \in Audits.appends.txns : WF_auditVars(part = "appends" /\ Appends!Step(t))
    /\ WF_callVars(part = "calls" /\ Calls!Step)
----------------------------------------------------------------------------
\* The properties of the parts; what each says in full is where it is defined.

\* Whatever must come to an end does: a write call, also when Odoo never
\* answers (execute_write); a transaction, also when all of them wait for one
\* chain (append_in_transaction); a read call, cancelled or not
\* (accounting_report, run).
EverythingEnds ==
    /\ EveryCallEnds
    /\ part = "appends" ~>
          part = "appends" /\ \A t \in DOMAIN txn : txn[t].pc \in {"committed", "aborted"}
    /\ part = "calls" ~> part = "calls" /\ at = "done"

\* Whatever order transactions run and fail in, verify_chain succeeds at every
\* moment, and a commit only adds entries behind those a reader may have seen
\* (AuditRepository.append_in_transaction).
OneChain ==
    /\ [](part = "appends" => Appends!OneChain)
    /\ [](part = "one_writer" => OneWriter!OneChain)
    /\ [][part = "appends" => Appends!ChainGrows]_allVars

\* Of the callers racing to move a proposal out of one state, one is told it
\* did (ProposalRepository.transition).
OneTransition ==
    /\ part = "proposals" => Proposals!OneTransition
    /\ part = "one_writer" => OneWriter!OneTransition

\* However rotations overlap, stop half way and are run again, no process meets
\* a connector it cannot decrypt, a run that returns leaves no row under the
\* old version, and no row is rotated twice (rotate_tenant, verify_all).
RotationSound == part = "rotation" => Rotation!RotationSound

\* Whoever races to open a file or is killed, its schema is what its history
\* says, and a program that has opened it finds every migration its code
\* relies on (apply_migrations, Storage.open).
OpenedIsMigrated ==
    /\ part = "recovery" => Recovery!SchemaMatchesHistory /\ Recovery!OpenedIsMigrated
    /\ part = "opening" => Opening!SchemaMatchesHistory /\ Opening!OpenedIsMigrated

\* A restored file remembers every key sent until its backup, and what a
\* database remembers is never taken from it, when the operator waits for the
\* restore before starting the server on its destination and no two backups
\* share one (Storage.backup, Storage.restore).
WritesRemembered ==
    /\ [](part = "recovery" => Recovery!SnapshotRemembers)
    /\ [][part = "recovery" => Recovery!NothingTaken]_allVars

\* In no window is a client let in more than its limit, and it is turned away
\* only when it has used it (_RateLimiter).
LimitExact == part = "limit" => Limit!LimitExact

\* What a read call answers, how it failed, and that it was cancelled are on
\* record, and no connection is left open by a call that was not cancelled
\* (accounting_report, run).
OnRecord == part = "calls" => Calls!OnRecord
=============================================================================
