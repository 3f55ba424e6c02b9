# Verification of odoo-mcp

TLA+ models of odoo-mcp: the write boundary and the accounting and Payroll writes
behind it, the reports and Payroll tools that read Odoo in pages while its users work,
the Shared Hosted enrollment and OAuth provider, and the storage below: audit chain,
proposals, encrypted connections, migrations, backup and restore. TLC checks the
models on small instances; TLAPS proves the safety properties of the write boundary, of
both kinds of writes, of Shared Hosted, of the storage, of the stable reads, and what the
accounting and Payroll reads say of moments, pages and refusals, for every instance. Paths below are relative to the
repository; `odoo_mcp/` stands for `src/odoo_mcp/`.

## The system

odoo-mcp is an MCP server. A client calls a tool; the server resolves the caller's
Odoo connection, reads from Odoo over JSON-RPC or JSON-2, and for write tools sends
exactly one mutating call. Durable state is a SQLite file or a PostgreSQL database.

| Part | State it keeps | Operations | Talks to |
|---|---|---|---|
| Write safety coordinator (`policy/write_safety.py`) | none of its own; one suspended coroutine per call | gate, preview, reserve, prepare, validate, execute, finish | execution journal, the tool's prepare/validate/execute callbacks |
| Execution journal (`storage/execution.py`, `storage/repositories.py`) | `idempotency_keys`, `audit_log` | begin, finish, each one transaction | database |
| Accounting write wrapper (`mcp/server.py`) | none | resolve identity, call the coordinator, classify failures | coordinator, accounting workflows |
| Payroll write wrapper (`mcp/payroll_writes.py`) | the payslip lock registry of the process | the same, under the lock | coordinator, Payroll workflow |
| Payroll writes (`workflows/payroll/writes.py`, `adapters/odoo/payroll/reader.py`) | none; the payslip is Odoo's | plan, validate, checkpoint twice, mutate, read back | Odoo |
| Shared enrollment (`app/shared_lifecycle.py`, `app/shared.py`) | `erp_connections`, the writer lease | prepare, bind, discard, commit, expire | OAuth provider, Odoo (validation) |
| OAuth provider (`app/shared_auth.py`) | `oauth_authorization_sessions`, `oauth_grants`, `oauth_tokens` | authorize, activate, exchange, refresh, revoke, replace | database |
| Audit chain, proposals, artifacts (`storage/audit.py`, `proposals.py`, `reporting.py`) | `audit_log`, `proposals`, `artifacts` | append, record, transition, verify | database |
| Encrypted connections (`storage/connections.py`) | `erp_connections`, a keyring per process | encrypt, decrypt, rotate, verify | database |
| Storage service and migrations (`storage/service.py`, `storage/migrations.py`, `app/operations.py`) | the database file, `schema_migrations` | open, migrate, back up, verify, restore | files |
| Accounting writes (`workflows/accounting/invoicing.py`, `journals.py`, `adapters/odoo/accounting.py`) | none; the documents are Odoo's | create, post, reverse, pay: prepare, validate, execute, read back | Odoo |
| Accounting reports (`reports.py`, `cashbook.py`, listings of `invoicing.py` and `journals.py`) | none | read in id pages, compute, answer one page | Odoo |
| Bank reconciliation (`reconcile_bank.py`) and currency rates (`currency_rates.py`) | proposals | score, build twice, persist; list rates | Odoo, proposals |
| Payroll evidence and analysis (`workflows/payroll/evidence.py`, `analysis.py`) | none | join several stable reads, page by fingerprint; compare periods, detect anomalies, explain | Odoo |
| Reading tools (`mcp/server.py`, `mcp/payroll.py`) | none; one coroutine per call | check, open adapter, operate, close, record | everything above |
| Rate limiter (`app/shared.py`) | the times of the recent requests of a client | admit or refuse | |
| Transports, registry, schemas, settings | none that lives on | | |

What is hard about it:

* **Failure around the mutation.** The call may time out, be cancelled, or the
  process may die at every `await`; Odoo may still apply the mutation afterwards;
  storing the outcome may fail or may succeed without an acknowledgement.
* **Concurrency.** Calls with one idempotency key overlap; Odoo users edit the
  payslip a write was planned from; with PostgreSQL several application processes
  share the database.
* **Several steps that should be one.** Commit and activation of an enrollment are
  two transactions; a read-back is five separate reads; a checkpoint is compared
  before and not during the mutation.
* **Reads that are no snapshot.** Every page and every model is read in a transaction
  of its own in Odoo; a report, a proposal or a payslip is put together from several
  of them, and a client puts pages together that were computed one call apart.
* **Files.** Backup, migration and restore are sequences of steps on files and
  transactions that may stop after any of them.
* **Time.** Keys expire after 24 hours, sessions and tokens on their own clocks, and
  expired enrollments are swept only at startup.

The properties that make each part correct: a key reaches Odoo at most once per
retention period, a reported outcome is true, an unresolved outcome blocks, and the
audit log tells the same story as the table (write boundary); a success was not
affected by anybody else's change, a failure left nothing behind, writes of one
payslip are serial, locks are given back (Payroll writes); a result read in pages is
one state of the source, and a quiet source is never called changed (Payroll reads); codes and refresh tokens work
once, one pair of tokens per grant is accepted, replacement is atomic, an active
connector is fully authorized, a consented selection stays (Shared Hosted); each
tenant's audit log is one chain and a proposal leaves a state once; every stored
credential can be decrypted until and after the old key is retired; a schema carries
exactly what its history says and a restore forgets no key (storage); a write meets in
Odoo what its preview showed unless somebody was faster than the last check
(accounting writes); a report, a match, a history or a comparison read in peace says
what Odoo says, by a definition of its own, and one read in turmoil is refused or of
one moment where the code promises so (reads); an answer is on record before it is
given, and a failed or cancelled call leaves no connection open (reading tools).

## Modules

| Module | Models |
|---|---|
| `WriteSafety` | `WriteSafetyCoordinator.run` over the journal and table, called by either wrapper |
| `WriteOnce` | what that boundary promises, without its mechanism: claims, at most one send per claim |
| `PayrollWrites` | the Payroll writes of one payslip: lock, snapshots, mutation, read-back, Odoo users |
| `StableRead` | one read of an Odoo model in pages, under concurrent edits |
| `CollectPages` | the collector above it: page calls bound by cursors (extends `StableRead`) |
| `AccountingWrites` | the six accounting write tools with their workflows, adapter and Odoo users |
| `IdPages` | the id-cursor pages of the accounting adapter (used by the next three) |
| `LedgerReports` | the accounting reports and listings, from the pages read to the page answered |
| `BankMatching` | scoring, ties and conflicts, and the proposal that is built twice and persisted |
| `RateHistory` | the currency rate history and its cursors |
| `Sorting` | Python's `sorted` (used by the lists and pages) |
| `PayrollEvidence` | periods, batches, payslips and rules joined from several reads, with paging |
| `PayrollContext` | contract segments of Odoo 18 and 19, work entries, attendance |
| `PayrollAnalysis` | the comparison of periods, findings and explanations |
| `ReadCalls` | one call of a reading tool: checks, adapter, record, failure, cancellation |
| `AuditChain` | transactions that append audit rows, record reports and proposals, and move proposals |
| `KeyRotation` | encrypted connections while a key is replaced |
| `StorageFiles` | database files: migrations, backup, verification, restore |
| `RateLimit` | the sliding window of the Shared Hosted rate limiter |
| `SharedAuth` | Shared Hosted enrollment, OAuth sessions, grants, tokens, the writer lease |
| `PayrollWrites_proofs`, `SharedAuth_proofs`, `AccountingWrites_proofs`, `AuditChain_proofs`, `StorageFiles_proofs` | the TLAPS proofs about the module each is named for |
| `MCWriteSafety`, `MCSharedAuth`, `MCBackups` | instances of one module (`MCBackups` of `StorageFiles`) |
| `MCPayrollWrites`, `MCAccountingWrites` | several scenes of one module: other requests, documents, Odoo versions |
| `Service` | the request path and the storage under it: `WriteSafety`, `ReadCalls`, `RateLimit`, `AuditChain`, `KeyRotation`, `StorageFiles` |
| `Service_proofs` | the TLAPS proofs about `Service`, with those about `WriteSafety` (and its refinement of `WriteOnce`), `RateLimit`, `ReadCalls` and `KeyRotation` |
| `AccountingReads` | the accounting tools that read: `LedgerReports`, `BankMatching` twice, `RateHistory` |
| `AccountingReads_proofs` | the TLAPS proofs about `AccountingReads` and its parts |
| `PayrollReads` | the Payroll tools that read: `PayrollEvidence`, `PayrollContext`, `PayrollAnalysis` |
| `PayrollReads_proofs` | the TLAPS proofs about `StableRead` and `CollectPages`, and about `PayrollReads` and its parts |
| `MCService`, `MCAccountingReads` | instances of `Service` and `AccountingReads` |
| `MCPayrollReads` | several scenes of `PayrollReads`, and one of `CollectPages` |

`Service`, `AccountingReads` and `PayrollReads` are sums, not products: a variable
`part` says which of the parts a behaviour belongs to, the variables of the others are at
rest, and a property of the sum is the conjunction of the parts' properties, each under
`part = ...`. The parts share no state in the code either, beyond the tables each has to
itself. Where a module leaves its assumption on the constants to its instances
(`RateLimitAssumption` and the like), the sum asserts it. `Service` runs `AuditChain` with
three sets of transactions and `StorageFiles` with two sets of programs (`Audits`, `Files`);
`AccountingReads` has two instances of `BankMatching`: `Matching`, with every choice of
statements and candidates and nobody else about, and `Racing`, with users who act while a
proposal is made. The scenes of `MCPayrollReads` are one collected model, lists, one payslip, contracts,
attendance, comparisons, comparisons among users who write, and statistics.

### WriteSafety

A request is a coroutine; `pc` names the await it is suspended at, and every action
is the code from one await to the next. `row` is the idempotency row of each key,
`audit` the final statuses of the audit rows of each request, `reply` what the client
received. `rpc` is the mutating call as a message: once sent, Odoo applies or refuses
it on its own (`OdooApplies`, `OdooRefuses`), whether or not the caller still waits.
`reservedAt` is history. Every storage call chooses one of three ends: committed,
rolled back, or committed without the caller learning of it. `begin` and `finish` are
atomic because both run in one transaction, and on PostgreSQL `reserve` takes an
advisory lock before it reads while `finish` is one guarded UPDATE.

A response names a request (`by`). A replay returns the persisted response of the
reservation's owner, under the owner's `request_id`; if its audit append fails,
`_append_or_fail` keeps that `request_id` and says `not_attempted`. That answer is false of
a request that was applied; it is what the run `failed_replay` finds
(`FailedBeforeOdooWasChanged`), and the only one `FailureMeansNotApplied` and
`OutcomeInv` leave out (`Denies`, `TruthfulTo`).

`Adapter` selects who classifies a failing `execute`: `accounting_write` calls every
permission denial a known failure, the Payroll adapter only a refusal of the mutating
call or a checkpoint conflict. The accounting workflows and the Payroll workflow
themselves are the steps `executing`, `mutating` and `reading_back`.

`ImplementsWriteOnce` maps the row to the claim and the sent calls to `sent`, and says
that every step of the coordinator is a step of `WriteOnce` or none.

### PayrollWrites

One payslip with its input rows, executing requests (`Ask` says what each wants), one
lock registry per process (`active`), and Odoo users who edit inputs, confirm or reset
the payslip, or compute it anew. A request reads payslip and inputs in four or five passes
(prepare once or twice, validate, and the two reads of
`_validated_write_checkpoint`), each read a step of its own, keeps what the first
pass saw as its plan and fails if a later pass differs. After the mutation it reads
back in the order of the adapter and of `execute_payroll_write_plan` (`ReadBack`,
`Agrees`). A call may be given up at any await; its mutation may land later, also in
the middle of the next write.

Rows carry `write_date`. The model numbers Odoo's writes, so two versions of a row
never share a date; this is an assumption about Odoo, and the mutant
`UntouchedUndated` shows that `SuccessIsolated` needs it. Employee, contract,
structure and input type are read and compared with the payslip and are folded into
it. Previews take no lock and send nothing and are left to `WriteSafety`.

### StableRead and CollectPages

`table` is one Odoo model; each write of a row numbers its `write_date`, and a row that
does not match the domain has the value `Outside`, so one action covers changing,
creating and removing rows. `_stable_rows` counts (`CountRows`), reads pages
(`FetchRows`), counts again (`RecountRows`) and reads ids and dates again
(`FetchAnchors`), each Odoo call a step; pages are slices of the table as it is at that
moment, ordered by a value an edit may change. `atRecount`, the table at the second
count, is history: it is the state a successful read turns out to have read.

`CollectPages` composes this read with `_page` and `_collect_pages`: every page call
runs the whole read again, sorts, checks that its cursor carries the fingerprint of the
same ids and dates, and returns a slice. Fingerprints are taken to be injective, and
records to pass the field parsers and filter checks. `_complete_write_children` of the
reader is the same loop with the same checks.

Both modules assume that two writes of one row carry different dates. Odoo reports
`write_date` in seconds, so a row written twice within a second, once before and once
after the first pass read it, is beyond what the code can notice.

### SharedAuth

Tables as in `storage/migrations.py`: `session`, `connectors`, `grants`, `pairs` (an
access and a refresh token are always issued together). A worker is an application
process; `frame` is the handler it is in and what that handler has read. Handlers run
their transactions without yielding, so a worker interleaves with itself only while
`EnrollmentValidator.validate` is awaited (`verifying`). With `StorageKind = "local"`
the writer lease admits one worker; with `"postgresql"` several run at READ COMMITTED,
and a transaction that reads and then writes takes two steps. `from_code` and
`from_refresh` are history. Revocation by `/revoke` and replacement by
`/enroll/replacement` are one step each.

### AccountingWrites

`moves` are the documents of Odoo, each a header and the sums of its lines: what they
debit and credit in the company's currency (`Home`), and what they come to in the
document's own. `prepare_validation` compares the first two with each other and the third
with the header's total, each at the rounding of its currency (`Increment[c]`); a foreign
document balances at home and adds up abroad, and no amount of the one currency is one of
the other. The untaxed part and the tax are compared as the total is and are folded into
it; that each line's debit less its credit is its balance is Odoo's doing and part of
`sound`, as are lines without an account or with several currencies. `active`
the partners, accounts and other references that exist, `codes` the payment method of
each journal's route. `call` is one executing call per process: its phase (prepare,
validate, execute), the step it is at, what prepare saw (`snap`), and, as history,
what Odoo held when its write landed (`acted`), whether anybody had touched that since
the call's last look (`landed` is `"fresh"` or `"stale"`) and which document the write
made (`own`). Every read and every method call of Odoo is a step. A call whose
request to write times out, or that is cancelled then, is `unknown` and its request may
land later (`GiveUp`); any failure inside `execute` is unknown as well unless it is a
permission denied (`FailureResults`), also one before the write. The six tools are
records: where prepare begins, whether validate refuses findings, where execute begins
(`Tool`); `Concluded` is the end of `prepare_op` and `validate_op`. Nothing in the code
locks a document, so an edit after the last check is met blindly; the properties say
how far the code's checks reach and no further. Reservation, replay and the audit are
`WriteSafety`'s, whose `executing`, `mutating` and `reading_back` these steps refine in
detail; the two are not composed in one run, because a call here owns its key.

### IdPages, LedgerReports, BankMatching, RateHistory

A page is the rows of the domain above the cursor, by id; a page that repeats a row or
exceeds the cap ends the collection. `LedgerReports` has a fixed set of journal items;
`posted` and `applied` (partial reconciliations) are what users change. A report reads
`Stages(kind)` in order, page by page, computes (`Computed`), checks (`Accepted`) and
answers the slice its cursor asks for (`Slice`); the client asks on until the end, each
time for a report computed anew. A line has an amount in the company's currency and one in
its document's; open documents are listed with the sizes of both residuals, also when only
the foreign one is left, and `overdue_only` leaves out what is not late. `moments` are the ledgers there were while the report
was read, `session` those of the client's whole paging: history. Analytic shares are
hundredths and rounding is `RoundedTo`, half away from zero as `ROUND_HALF_UP` does.
The properties compare with definitions of their own (`Expected...`, `Nearly...`): what
a balance, a residual on a day or a bucket is, straight from the ledger. The cursors
into the lines of one journal entry are left out.

Three things the code does not try to notice. A report of a whole company takes the sum of
the lines for the sign that it has seen every move whole; a move posted while the report is
read, whose lines after a page border balance by themselves (the cost of the goods behind
the invoice), is accepted half seen. `PostingSeenBalanced` says exactly that: nothing of the
move, all of it, or a balanced tail of its lines; only a move without such a tail is seen
whole or not at all. About the other two nothing is claimed: an aged
balance or a list of open documents takes residuals and later reconciliations in two
reads (`reports.py:879`), so a reconciliation between the two is undone on residuals that
never had it, and the answer is that of no moment; and `list_journal_entries` reads every
selected entry again by id (`journals.py:243`), so an entry may be shown in a state the
request excluded. `QuietReportExact` says what holds of both when nothing happens.

`BankMatching` enumerates statements and candidate lines; scores are in 3000ths so that
date proximity is exact. `MatchesJustified` states what a match is without the grouping
by rounded amount that `_decisions` uses: the amounts cancel, everything it is scored
by agrees, no other candidate is as good and no other statement claims it. Statements and
candidates are read in pages. In the runs
with users, statements and candidates are read apart, and the proposal is built to
prepare and again to validate. `RateHistory` lets the client come back with any cursor
it was given, for the same request or another one; ids of rates are given once
(`lastRate`), and `HistoryOfAMoment` asks only that rates were added, not removed.

### PayrollEvidence, PayrollContext, PayrollAnalysis

Each read is one stable read (`StableRead` and `CollectPages` are about what that
takes), so here it is one step, or a refusal if something was written meanwhile
(`ReadRefused`); users write between the reads. What a line stores of its rule (code,
sequence, category) is its `edition`: that of the rule when the payslip was calculated, so
a revised rule divides the lines of one batch. `_validate_line_metadata` refuses such lines,
in peace too (`OneEdition`, `Divided`), in the evidence and in every snapshot of an analysis.
`PayrollEvidence` has payslips with
lines, worked days, inputs and types, and a clock in seconds: `blurred` says that a row
was written twice within one. A cursor is the fingerprint of the request and of every
row's write date; `basis`, history, keeps the rows it was made of. Payslips are listed the
latest first, children and rules by id (`Sorting`). `PayrollContext` has contracts and work
entries by day; `version` selects how the reader makes segments of them: an `hr.contract` ends by itself, an
`hr.version` also on the eve of the next one. `PayrollAnalysis` loads one snapshot per
period, with the lines of the payslips selected and of no other (`LinesOf`: a cancelled
payslip of the same employee has no part in it), and computes totals by payslip, rule and
category, changed employees, and findings; amounts and medians are integers (`Median2` is twice the median), and the
reference in `DeviationJustified` is the definition of a median, not its computation.
A conflict finding states a baseline of 0 without counting the baseline's conflicts
(`analysis.py:1244`); the model keeps only that there is a finding.

Two things escape these checks and nothing is claimed of them. Renaming an employee or a
rule does not date the rows that show the name; names are abstracted. And a payslip that is
recalculated after it was read and before its lines are joins an old header with new lines:
the first page of the answer does not notice it, later ones do by their fingerprint.

### ReadCalls

The tools that read share one shape, and differ in what they record and in whether
they catch cancellation: only `run` of `mcp/payroll.py` does. `pc` is the await; every
await may raise, be cancelled, and storage may fail, before the commit or after it. A
success whose commit is not acknowledged stays on record while the caller is told of a
failure, and `RecordFailure` then adds a row of its own; `AnswerOnRecord` says that this is
the one way to have an error beside a recorded success (`lost` are the records whose
transaction raised). `NothingLeftOpen` is
about the calls nobody cancelled (`cancels = 0`): a cancellation may leave the adapter
to the caller's context. `CancelledOnRecord` is about payroll calls cancelled once.

### AuditChain, KeyRotation, StorageFiles, RateLimit

`AuditChain` has one record per transaction and the committed tables; a row becomes
visible at its commit, and its id is taken from the sequence before. With `Dialect =
"sqlite"` `BEGIN IMMEDIATE` lets in one transaction at a time; with `"postgresql"` the
advisory lock of the tenant is what orders appends, and an UPDATE waits for the row. A
hash is the previous hash with the event appended to it, which makes it injective.

`KeyRotation` follows the operator's procedure of `docs/operations.md`: select the new
key everywhere, rotate, verify, retire. A rotation reads its list once, then reads and
writes each connector; on PostgreSQL others commit between the two. There is an older
and a newer key; what lies between them is never selected. `StorageFiles` has
files with a history, a schema and the keys on record, and programs of different
releases that open, migrate, serve, back up, verify and restore, and may be killed
after every step; the checks of `_verify_integrity` are one verdict. `past` is history:
the writes that were reserved in the database a file was copied from, before it was
copied. Three things are left to the operator and are named as
conditions on the constants. `RestoresAwaited`: the server is started on a restored file
after the restore has ended (`Waits`); `restore` checks that its destination is free when
it begins, and its `os.replace` at the end (`service.py:282`) does not check again, so a
server started on the destination meanwhile would lose what it wrote there.
A backup looks whether its destination exists (`Backup`), copies later (`BackupCopy`) and
unlinks what is there when the copy fails (`BackupFails`). Two backups to one destination
so overwrite or remove each other's file: the run `two_backups` shows it, and
`SnapshotsOwn`, a destination for every backup, is a condition of the theorems about
snapshots.
`SnapshotsUnopened`: a backup is opened only by restoring it; a backup that was killed may
leave an empty database at its destination, which a restore refuses for want of
`schema_migrations`, but a `verify` or a server started on that file would give it the
table. `RateLimit` counts time in ticks, with every
boundary of the window within reach; the loop of `popleft` is the number of events it
takes (`Popped`).

## Runs

| Run | Checks | Shows |
|---|---|---|
| `payroll_writes_once` | `WriteSafety_payroll.cfg`: `TypeOK`, `AtMostOncePerRetention`, `FailureMeansNotApplied`, `SuccessMeansApplied`, `JournalMatchesAudit`, `UnresolvedStaysBlocked`, `ImplementsWriteOnce` | Three calls contend for one key, two payloads, clock 0..3 with a retention of 2, all failures, under the Payroll classification |
| `service` | `Service.cfg`: `EverythingEnds`, `OnRecord`, `LimitExact`, `OneChain`, `OneTransition`, `RotationSound`, `OpenedIsMigrated`, `WritesRemembered` | The request path and the storage under it: every kind of write call under the accounting classification, every kind of read call, the limiter, transactions on one chain and one proposal in both dialects, two processes and a key being replaced, old and new releases on one file, backup and restore |
| `denied_read_back` | `FailureMeansNotApplied` | *violation*: with the accounting classification an applied write whose read-back is denied is reported as a known failure |
| `failed_replay` | `FailedBeforeOdooWasChanged` | *violation*: a request was applied; the replay of it whose audit append fails is answered, in its name, "The write request failed before Odoo was changed." |
| `two_backups` | `Backups.cfg`: `OneBackupThere` | *violation*: two backups to one destination both find it free and both succeed, one over the other |
| `payroll_writes` | `PayrollWrites.cfg`: `SuccessIsolated`, `SerialSuccess`, `FailedNeverLands`, `LockReleased` | Five scenes of writes on one payslip: create and remove, update and recalculation among users who edit, either alone among users who edit and undo, three writes that contend for the lock |
| `payroll_two_processes` | `SerialSuccess` | *violation*: with two processes, each with its own registry, two updates of one row both succeed |
| `shared_sessions` | `SharedAuth_local.cfg`: `SingleUse`, `OneAcceptedPair`, `ReplacementAtomic`, `ActiveAuthority`, `SelectionStable` | Two sessions over SQLite |
| `pooled_exchange` | `SingleUse` | *violation*: two processes over PostgreSQL exchange one code at the same time |
| `accounting_writes` | `AccountingWrites.cfg`: `WrittenAsValidated`, `CreditNoteOwn`, `OverpaidOnlyStale` | Two calls, which may be given up, and two edits by users in three scenes (creating and posting, in two currencies, reversing one invoice, paying one invoice): a write whose last check nobody overtook meets what was prepared, what is posted balances at home and adds up in its own currency, a credit note is one's own, an invoice is overpaid only past a stale check |
| `accounting_reads` | `AccountingReads.cfg`: `QuietReportExact`, `PostingSeenBalanced`, `PagesCover`, `MatchesJustified`, `OfOneMoment` | Every report exact when read in peace; one posting seen whole, as a part that balances, or not at all in company-wide reports; pages cover; matches are the justified ones; a recorded pair was open, and a rate history held, at one moment |
| `payroll_reads` | `PayrollReads.cfg`: `SnapshotRead`, `CollectedSnapshot`, `QuietCollectionSucceeds`, `PagesOfOneSnapshot`, `QuietAnswerExact`, `NoFalseRefusal`, `TotalsAgree`, `ChangesFound` | Four rows of a model in pages of two, a cap of three, collected one per page call, two edits: what is returned is one state of the model, and nothing is refused for nothing. Lists, one payslip, contracts and attendance in Odoo 18 and 19, comparisons and statistics: pages of one snapshot, exact when undisturbed, nothing refused without one of the listed reasons, totals that agree, every move found once |

The five violations are findings in `PROJECT.json`, each with the sentence of the
documentation or code it contradicts.

**Bounds.** Two calls suffice for a conflict and a third is needed for "expired,
reserved again, and the first owner returns"; the clock runs past one retention
period. Two payslip inputs give a target and a bystander; two edits are what it takes
to change a row and change it back, or to take one row out of a result and another one
in without changing its size; a cap of three and pages of two give a full and a short page
and a result that is too large.
Two sessions are needed for a replacement, three
token pairs for one refresh token used twice; times to live of one and two ticks
under a clock of two let every expiry happen before and after every step. `MaxClock`,
`MaxEdits` (in `PayrollWrites`, `StableRead` and `AccountingWrites`), `MaxConnectors`
and `MaxPairs` bound guards there, and `MaxChanges`, `MaxWrites`, `MaxTime`, `MaxRuns`,
`MaxStarts`, `MaxArrivals` and `MaxCancels` the environment of the other modules. Two
edits let a user act between prepare and validate and again before
the write; four documents leave room for two credit notes and a user's own. Pages of
two or one and answers of one row make every report take several pages; two changes put
one
posting between two pages and a reconciliation between two models; one of the four moves
has two halves that balance, and one is in another currency. Amounts lie on
both sides of a rounding half; contract dates at, before and after both ends of a period
of three days; histories have five to seven values around the minimum of six. Two connectors and
three runs of two processes let one be enrolled behind a list, one be discarded ahead of
it, and two runs overlap; two starts per program let each be killed and run again; a
window of two ticks with a limit of two under five ticks holds every alignment of two
windows. Requests are
interchangeable in `WriteSafety`, workers and sessions in `SharedAuth` (symmetry, in
runs without liveness). Runs that check no deadlock are those whose system may stop:
every request is done and the clock or the edits are used up.

**Fairness.** Weak fairness on the steps of a running call only (`Proceed` of
`WriteSafety`, `Advance` of `PayrollWrites`, `Step` of `ReadCalls` and of `AuditChain`):
between awaits the code runs on, every await of an Odoo call ends because the transports
set a timeout, and a database grants a lock that is free. Nothing is assumed of Odoo, of
clients or of the clock. `EverythingEnds` and `LockReleased` are the liveness properties;
they are checked without symmetry.

## Proofs

Every theorem holds for all values of the constants that satisfy the named assumption of
its module (an `ASSUME` there, or a hypothesis of the theorem where the module leaves it
to its instances) and the further hypotheses given here, if any. Most properties speak of
pairs of steps and are not inductive; each gets an invariant that says what an actor
holds between two steps. These invariants stand at the end of the component's module, and
TLC checked them on the bounds of the runs before they were proved.

`PayrollWrites_proofs`, for all requests, processes, inputs and edits:

* `TypeCorrect`, `StageInvariant` (the stage of a request bounds its mutation) and from
  it `FailureIsFinal`.
* `SuccessWasIsolated`: what a request planned from is not dated in the future
  (`IsolationInv`), and a row written again has a new date, so an input that is as planned
  at the read-back was there at the mutation, also past a change that was undone.
* `LockInvariant`: one running write per process and payslip. `SerialInvariant`, and
  `OneProcessIsSerial` under the hypothesis that one process makes all the writes; the run
  `payroll_two_processes` shows that the hypothesis is needed.

`SharedAuth_proofs`, for all sessions, workers, connectors, times to live and clocks:

* `TypeCorrect`, on both databases: references between the tables resolve, and so do those
  a handler has read and not yet used.
* `LocalInvariant`: `LocalInv` is inductive with `StorageKind = "local"`. Its core is
  `FrameInv`: with the writer lease there is one worker, so what a handler has read still
  holds when it writes; the rest says how sessions, handles, connectors, grants and tokens
  belong together. `CodesAreSingleUse`, `AcceptedPairUnique`, `ReplacementIsAtomic`,
  `AuthorityIsActive` and, as an action property, `SelectionIsStable` follow, all for the
  local database; `pooled_exchange` shows that the first of them fails on the other.

`AccountingWrites_proofs`, for all documents with totals of no negative residual, all
calls and edits, and all currencies and rounding increments:

* `TypeCorrect`: every call is at a step of its tool and holds the reads it needs there
  (`ControlOK`).
* `WritesAreValidated`, `CreditNoteIsOwn`, `OverpaymentIsStale`: `CallOK` says of one call
  that while its look is fresh, Odoo has what it holds (`FreshOK`), that findings ended it
  before it could write (`PreparedOK`), that the reversals it saw first and its own are
  kept apart (`CreditOK`), and that the amount it pays is within the residual (`PaymentOK`).
  Somebody else's write either leaves the document alone or makes the look stale.

`AuditChain_proofs` (`AuditChainAssumption`), on both databases:

* `ChainIsOne`: `OneChain`, and that commits add only behind what is visible. `ChainInv`
  says that the transactions of a tenant that have the lock are one, and that the row a
  transaction is about to commit continues the chain as it is (`TailInv`): its hash is
  that of the last entry, its id above all. The order of the ids is the chain.
* `TransitionIsOne`: an open transaction that moved a proposal is alone with it, and the
  committed status is still what its WHERE clause asked for (`HeldInv`).

`StorageFiles_proofs` (`StorageFilesAssumption`, with `RestoresAwaited`), for all programs,
releases, roles, paths and keys:

* `FilesAreMigrated`: `SchemaMatchesHistory` and `OpenedIsMigrated`. `StorageInv` says that
  a program works on the file of its role (`PlaceInv`); that from its first look on the
  file stays a database and its history only grows, so what the program has read of it is
  a beginning of what is there (`OpenInv`); and that a restore that has succeeded is over
  (`DoneInv`), so nobody who waited for it is there when the file is replaced. A program
  that finds its next migration's statements already applied fails; if it does not, the
  history is what it has read.
* `SnapshotsAreComplete`, with `SnapshotsUnopened` and `SnapshotsOwn` as well: `SnapshotRemembers`, and as an
  action property `NothingTaken`. `MemoryInv` says that a database with its table of
  migrations has the keys of every write of its past and of its own (`KeysInv`), that only
  a killed backup leaves a database without that table, or a copy of one that no restore
  accepts (`TableInv`), that the destination of a restore stays free until the
  accepted copy is moved there (`RestoreInv`), and that of a backup until it copies
  (`BackupInv`).

`Service_proofs`. Of `WriteSafety`, for all requests, keys and commands and every retention period:

* `TypeCorrect`: `Spec => []TypeOK`.
* `ReservationInvariant`: `ReservationInv` is inductive. `AtMostOncePerRetention`
  speaks of pairs of requests and is not: the invariant adds that whoever works with
  a reservation owns an in-progress row (`HolderOwnsItsRow`), that the row of a key
  records its latest reservation and its expiry, and that every earlier one is a
  retention period older. `AtMostOnce` follows.
* `Blocked`: no step takes over an in-progress or unknown row (an action property,
  from the guards of `Reserve` and of `finish`).
* `OutcomeInvariant`: `OutcomeInv` is inductive: the stage of a request bounds what
  became of its call, and every closed row and every reply is truthful about the
  request it names, but for the failure of a replay of somebody else's call. `SuccessIsReal` (either adapter) and `PayrollFailureIsReal` (the
  payroll classification) follow.
* `JournalIsAudited`: a call that has reserved nothing has no audit row (`JournalInv`),
  so the rows of the owner of a reservation are those its state asks for.
* `Implements`: the refinement. An initial state maps to one of `WriteOnce`; reserving a
  key claims it, sending and Odoo's answer move the sent calls, settling closes the claim,
  and every other step maps to a stutter. That only a claimant sends, once, and that a
  claim is taken over only when it is settled and old, comes from `ReservationInv` and
  `OutcomeInv`.

Of the whole `Service` (`ServiceAssumption`: the assumptions of the parts, and
`OperatorAssumption`: the operator's procedure): `PartStays` and
the lemmas `CallsPart`, `LimitPart`, `RotationPart`, `FilesPart` and `AuditPart` say that a
step of the sum is a step of the one part that runs, or none of its.

* `LimitIsExact`, for every number of clients, limit and window: the deque is the end of
  the admissions and what it lost had left the window (`DequeInv`); admissions as far apart
  as the limit are as far apart as the window (`SpacedInv`), so those in any window lie
  among as many in a row as the limit; each refusal names the admissions that used the
  window up (`RefusedInv`), which stay the same because later ones are later than the
  refusal.
* `CallIsOnRecord`, for every kind of reading tool and number of cancellations: nothing
  is answered before the end, nor recorded but a success nobody confirmed, and an adapter is open exactly between the steps
  `companies` and `cancelled_close`, or after a cancelled call (`OpenInv`).
* `RotationHolds`, for every number of processes, connectors, versions and runs:
  `RotationInv` says which keyrings the operator's progress implies, that a process between
  its read and its write holds both keys and a row under the old one, and that a run begun
  after the last restart still lists every old row.
* `ChainsAreOne`, `TransitionsAreOne`, `FilesAreMigrated`, `RestoredFilesRemember`: the
  theorems of `AuditChain_proofs` and `StorageFiles_proofs` carried over to the instances in
  `Service`, for all its constants.

`PayrollReads_proofs`. Of `StableRead` and `CollectPages`, for every finite set of ids, all
values, page sizes, caps and numbers of edits (`StableReadAssumption`, and of `CollectPages`
that no cursor is the empty one):

* `TypeCorrect`: `Spec => []TypeOK`.
* `ReadInvariant`: `ReadInv` is inductive. Every row of the first pass is still in the
  table or has a later date there, so by the second count the table's dates are at
  least those of the first pass; the second pass can only see dates at least those of
  the second count.
* `ReadsOneState`: where both passes agree, the dates in between are equal too, so the
  rows are an injection of `1..count` into the matching rows at the second count, of
  which there are `count`: `SnapshotRead`. The order of the pages plays no role.
* `CollectsOneState`: the items are the beginning of one listing of the first table, which
  the cursor names (`CollectInv`). Tables only move forward in their dates, so the last
  read, which has the same fingerprint, had the same contents, and so had every table
  between: `CollectedSnapshot`, under the specification of the collector.
* `QuietCollectionHolds`: a collection among nobody's edits is refused only for a result
  beyond a cap. Rows sorted by value and id have one listing (of two listings, the first
  place where they differ would have a row out of order), so while nobody writes every page
  call finds the rows (`QuietReadInv`) and the cursor (`QuietCollectInv`) of the one before.

Of `PayrollReads` (`PayrollReadsAssumption`: the assumptions of the parts), for all payslips,
lines, contracts, work entries and requests, page sizes and numbers of writes. The parts
`PayrollEvidence` and `PayrollContext` each have an inductive invariant at the end of their
modules, and `PayrollReadsInv` states the conjunction of all of them:

* `SourceInv`: ids are given once, and no row is dated in the future. `StageInv`: which stage
  serves which tool, and what has not been read yet. `QuietInv`: what a call that nobody
  disturbed has read so far is what its request asks of Odoo (`SlipsAsked`, `LinesAsked`,
  ...), also past the filtering of a batch by a period and after every chunk of lines.
* `PagesInv`: the page a client has begins where the pages before it ended, in the list made
  of the rows its cursor names (`basis`). Rows that were read have only become older since
  (`Older`): the row Odoo has under an id has a later date, or it is the same row. So when
  the rows of the next page carry the same ids and dates they are the same rows
  (`Agree`), and the list made of them is the same list: `PayrollPagesOfOneSnapshot`. A line
  carries the currency of its payslip without its date; that the check of parents
  (`Parented`) ties it to the payslip read is what makes lines with equal dates equal.
* `PayrollQuietAnswerExact`: the lists enumerate what `QuietInv` says was read
  (`SlipItemsEnumerate`, `PeriodItemsEnumerate`, `RuleItemsEnumerate`,
  `InputItemsEnumerate`: sorting loses and doubles nothing), and that is what the property
  asks for; a day lies in one contract's segment, the one in force (`ContractHolds`).
* `PayrollNoFalseRefusal`: a refused call was disturbed, had a cursor, or stopped at a check
  that names its reason; rows read in peace pass the checks of parents (`AskedParented`), as
  do segments that do not overlap, and lines read in peace disagree on a rule only if
  Odoo's do (`DividedIs`). The number of lines read never exceeds Odoo's.

`AccountingReads_proofs` (`AccountingReadsAssumption`: the assumptions of the parts), for all
ledgers, statements, candidates, rates, requests and page sizes. A collection page by page is
a beginning of the rows in order for any finite set of them, by the well-foundedness of
the natural numbers. `ReadsInv` says of each part, while it runs, that its invariant holds.

* `ReadsOfOneMoment`: a recorded pair was open on both sides at one moment, and the rates of
  an answer held together. `RaceInv`: unless a reconciliation was undone, a statement line
  that is still open was open together with every candidate that was read, in the first
  building of the proposal and in the second (`TogetherInv`). Rates that are added have
  higher ids, so the pages read so far are the rates up to the cursor (`SeenInv`), and a
  cursor that carries on where the client is carries its request (`FollowsInv`).
* `ReadsMatchesJustified`: `MatchInv`. The index of `_decisions` groups candidates by rounded
  amount; a counterpart whose amount cancels exactly is in the group looked at, so nothing
  as good is hidden by the rounding.
* `ReadsPagesCover`: while nothing changes, a stage that has been left was read whole and the
  stage in hand up to the cursor (`RowsInv`), and what a client has been shown is a beginning
  of the one report there is to get (`ShownInv`).

Only model-checked:

* liveness, which is out of the prover's reach: `EverythingEnds`, `LockReleased`;
* what is a sum or a median over a set, whose theory is induction over data: the figures of
  the reports (`QuietReportExact`, `PostingSeenBalanced`), the totals of a batch and of an
  analysis (`TotalsAgree`), and what a comparison or a statistic finds (`ChangesFound`).
  `PayrollQuietAnswerExact` includes rule totals only as the same sum of the same lines.

## Not modelled

Left out for good: HTML, cookies and CSRF, request schemas and the tool registry,
settings, the outbound address policy (pure checks), message texts and Markdown, the
contents of persisted responses beyond what they say of the mutation. The transports
are network I/O: a call answers, raises or is late, which is how every module treats
it. The parsing of single Odoo fields is abstracted to rows that are well-formed or
refused. The capability cache is one upsert.
