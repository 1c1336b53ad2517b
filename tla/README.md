# A TLA+ model of Invariant-Core

Invariant-Core is a payment switch with a double-entry ledger. A client posts a
transfer; `switchd` debits the source account into a suspense (SETTLEMENT)
account, asks an external rail to pay, and then either credits the destination or
refunds the source. Everything after the request is driven by a transactional
outbox, so that crashes, timeouts and lost answers are survived. A batch job,
`reconcile`, compares the ledger with the rail's settlement file.

This directory holds TLA+ models of that code, the TLC configurations that check
them on small instances, and TLAPS proofs. Paths below are relative to `src/`.

    cd tla
    tlc -workers 2 -config Switch_race.cfg MCSwitch     # a run
    tlapm SwitchMoneyProofs.tla                         # a proof

## 1. Inventory of the system

| component | state it keeps | operations | talks to |
|---|---|---|---|
| transfer store (`internal/switch/store.go`, `statemachine.go`) | lifecycle row: status, debit leg id, reference | create, locked `advance`, requeue, get | PostgreSQL |
| outbox (`internal/switch/outbox`) | outbox rows: type, attempts, published, dead letter, lease | append, claim, mark published, reschedule, dead-letter | store, driver |
| driver (`driver.go`) | none between events | four event handlers, `HandleRailCallback` | store, ledger, rail |
| orchestrator (`orchestrator.go`) | none | create, then debit inline | store, driver |
| recovery (`recovery.go`, `cmd/switchd`) | none | list stuck transfers and re-enqueue, at startup | store, outbox |
| ledger and rail clients | none | three legs with keys; send, status query | ledger, rail |
| gRPC server (`grpc.go`) | none | `RailCallback`, `CorrectiveReversal` | driver, store |
| idempotency (`idempotency.go`, `idempotent.go`) | key rows: status, fingerprint, transfer, lease | reserve, look up, complete | orchestrator |
| REST (`transport`) | none | `POST /transfers`, `GET /transfers/{id}` | idempotency |
| ledger posting (`internal/ledger`) | journal, cached balances, accounts | `PostTransaction` | PostgreSQL |
| ledger reads (`balance.go`, `query.go`) | none | balance, export of a window | journal, lifecycle rows |
| mock rail (`internal/mockrail`) | outcome per reference | send, status query, callback | switch |
| reconciliation (`internal/reconcile`, `cmd/reconcile`) | runs and exceptions | match, classify, persist, feed back | ledger export, switch |
| adapters (`internal/reconcile/adapters`) | place in the file | open, next row | reconciliation |
| service boot (`internal/serviceboot`, `cmd/*`) | listeners, pool, poller's context | start, serve, shut down | all of the above |
| metrics, logging, tracing, message code | none | | |

What is hard here:

* **Deliveries overlap.** The request goroutine drives the debit inline while a
  poller delivers the same event; several `switchd` instances poll one table; a
  worker slower than its lease shares its event with the next one; callbacks and
  corrective requests arrive whenever they like. Every handler decides from a row
  it read without a lock, makes remote calls, and only then writes.
* **Everything can stop between two steps**: between a ledger leg and the status
  that records it, between a status and the acknowledgement of the event, halfway
  through the recovery sweep.
* **Answers are lost after the effect**: ledger legs, rail sends, commits.
* **The ledger recomputes cached balances from a snapshot** while others commit,
  retries serialization failures, and finds existing transactions after its own
  insert was rolled back.
* **Leases run out under a live holder** of an idempotency key.
* **A process is stopped in the middle of its work**: a poller's context is cancelled
  inside a batch, the pool is closed while requests use it.
* **A window is exported while it is still being written.**
* **Reconciliation is run again**: after a failed call, after a lost commit, by two
  operators at once, on files whose rows come in any order.

What makes each component correct is listed with its module below. PROJECT.json
lists the hazards one by one, each at its line, with the properties that watch it.

## 2. Modules

| module | models | EXTENDS / INSTANCE |
|---|---|---|
| `Switch` | lifecycle row, outbox, poller, driver, orchestrator, recovery, clients, callbacks | INSTANCE `TransferSpec` |
| `TransferSpec` | what the switch promises: where the money is and what is reported | |
| `SwitchInvariant` | the inductive invariants `DeliveryInv` and `MoneyInv` | `Switch` |
| `SwitchProofs`, `SwitchMoneyProofs` | theorems about `Switch` | `SwitchInvariant`, TLAPS; INSTANCE `EventQueue` |
| `Idempotency`, `IdempotencyProofs` | the key record and the decorator; theorems | |
| `Ledger`, `LedgerProofs` | `PostTransaction`, query by query; theorems | INSTANCE `SerialLedger` |
| `SerialLedger` | the ledger as whole transactions, one at a time | |
| `Outbox`, `OutboxProofs` | the outbox table and its pollers on a clock; theorems | INSTANCE `EventQueue` |
| `EventQueue` | the rules of delivery that `Switch` and `Outbox` share | |
| `ServiceBoot`, `ServiceBootProofs` | the life of a switchd process; theorems | |
| `Export`, `ExportProofs` | `ExportTransactions` beside the writers of its table; theorems | |
| `Adapters` | the readers of settlement files, as operators | |
| `Reconcile`, `ReconcileProofs` | the reconcile command: matcher, report, feedback, record of the run; theorems | `Adapters` |
| `MCSwitch`, `MCIdempotency`, `MCLedger`, `MCReconcile`, `MCExport` | finite instances for TLC | the module checked |

The detailed modules meet at five interfaces. `Switch!PostLeg` (a leg is
posted at most once per key, or rejected because an account is unknown) is what
`Ledger` shows of `PostTransaction`: `PostedOnce`, `AnswerIsTrue`, `IsSerial`.
`Switch!Create` happens at most once per accepted request, which is
`Idempotency!KeyHeldOnce` for `Idempotency!CreatePending`. `Reconcile!Feed` calls what
`Switch!CorrectiveReversal` serves. `Switch!Claim`, `Return` and `AfterFailure` deliver by
the rules of `EventQueue` (theorem `DeliversByRules`), which `Outbox` is shown to
implement too (`DeliversLikeQueue`). What `Export` answers is what the `internal` file of
`Reconcile` holds.

### 2.1 Switch

State: `status`, `debitLeg`, `latest` (the lifecycle row and the newest row of a
reference), `outbox` (the table, in insertion order), `posted` (how often each leg
is in the ledger; the key makes that 0 or 1), `accounts`, `rail` and `sent` (the
rail's decision, and whether it has processed the reference), `act` (what each
poller and request goroutine is doing and what it has read).

Each stretch of code between two database transactions or remote calls is one
action. A handler is `Load`, then its leg or rail call, then `Advance`, which is
`advance` under the row lock: status, debit leg id and follow-up event in one
transaction, or nothing when the edge is no longer legal. `Return` models the
poller's `tick` around it. `RailCallback` and `CorrectiveReversal` find the row by
reference; the write of the latter (`Requeue`) is a second step, because the code
does not lock in between. `Restart`, `Recover`, `Recovered` are the startup sweep,
whose query and inserts may fail one by one.

Abstractions, and why they lose nothing the properties tell apart:

* Lease, backoff and batches only delay a claim. A live row may be claimed at any
  time, also while another worker has it, and a worker claims one row at a time.
  That this contains every timing of the real outbox is `Outbox!DeliversLikeQueue`:
  a delivery of `EventQueue` is a `Claim` of `Switch` by a worker of its own.
* `queryStatusWithRetry` is one step: its repeated queries have no effect, the first
  definite answer wins, and after the last one the result is inconclusive.
* The rail's decision is fixed per reference from the start; the switch cannot see
  it before the rail answers. A timeout is the *unknown* verdict and not a fault; a
  transport error is a fault.
* `CorrectiveReversal` is bounded by `MaxRows` because each call appends a row.

### 2.2 Idempotency

State: `keys` (the table; `live` says whether the lease is running), `rows` (the
transfers, each named by the request that created it and bound to its key by a
unique column), `pc`, `found`, `answer`. `Reserve` is the INSERT ... ON CONFLICT DO
NOTHING, `Inspect` the read that follows it, `Lookup` the search past the lease,
`CreatePending` and `View` the inner service, `Complete` and `CompleteFailed` the
two ways a key is closed. `Expire` may come at any moment. `FaultSteps`,
`LossSteps` and `CrashSteps` name the steps that may fail, lose their reply or die.

### 2.3 Ledger

State: `journal` (the committed posts), `cached` (for every account the set of
posts its cached balance counts: a balance is the sum over that set, so equality of
sets is stronger than equality of sums), and per call its step, attempts, snapshot
and row locks. The queries of `PostTransaction` are one action each. PostgreSQL is
external and modelled from its use: snapshot at the first query, uncommitted rows
block rivals for a unique index, updated rows stay locked until the end, updating a
row changed since the snapshot fails with 40001, overlapping transactions may be
aborted with 40001 at any time, cycles of waits are broken with 40P01, CHECK and
deferred triggers at their moments. The unique indexes meet two posts with the same key
(`Collide`), or two reversals of one parent; a call without a key is never a
duplicate, so it is not called again after its answer is lost. Amounts are integers up to
`MaxInt` and `Wrap` is the wrap-around of int64, so that the case where `validate`
accepts unbalanced entries exists. `Starts` are the workloads of a run: the calls that
are made and the accounts there are at first. `Serve` is what a call and the
database do of themselves, `Disturb` what may happen to a call besides: an abort
with 40001 and a failure.

### 2.4 Outbox and EventQueue

State: `row` (the marks, the attempts and the time left until `next_attempt_at`,
which the table only ever compares with `now()`), `poller` (the context, the open
deliveries of its batch with the attempts the claim read, what is left of the
lease), and three history variables that the properties read. `Claim` is one
`ClaimOutboxBatch`: the oldest due rows, without any that another poller's statement
may have locked. `Succeed` and `Fail` end the handler of one delivery in any order
and write its row; the write may fail, which the code only logs. `StopPoller` is the
`stopPoller()` of `Cleanup`, after which handlers and writes fail (`Abandon`); `Exit` is
the end of the process, then or by a crash; `Tick` lets one unit of time pass for
everyone. What a handler does is module `Switch`; here it succeeds or fails.

`late` holds the events some worker kept beyond its lease. For those the code makes
no promise (the second worker's reschedule may even shorten the lease of a third),
and `OneHolder` and `OutageSurvived` leave them out; `ParkedForCause`, `EverySettles`
and `DeliversLikeQueue` do not. `EventQueue` has no clock: an event can be taken
while it is live, is parked only by a delivery that read `MaxAttempts - 1` failures,
never becomes deliverable again, and a delivery cut short leaves no trace.

### 2.5 ServiceBoot

State: where `main` is (`phase`), how it ended, the connection pool, the poller's
context and whether it holds a connection, the REST listener, the requests and how
long `Shutdown` has waited. `Connect` and `Recover` are `main`; `BindHTTP`,
`ListenGRPC` and `ServeFails` are the listeners of `serviceboot.Run`, each of which may
fail; `SigTerm` kills the process until `NotifyContext` is installed and is remembered
from then on; `BeginShutdown`, `HTTPStopped`, `GRPCStopped`, `PoolClosed` are `shutdown`
and `Cleanup` in their order. A request runs, takes a connection, gives it back and
ends; when the pool is closing it is refused.

### 2.6 Export

State: the clock, for each transaction its `initiated_at` (the start of the writing
transaction, so a row may become visible long after it), its stage and its lines in
the order of their random ids, the export under way and the answers so far.
`ListTransactionsByWindow` reads the window in one statement, `ReadRow` one of its rows
with its entries in a statement of its own, `SendRecords` answers. `RecordOf` adds up the
debits line by line in an int64 (`DebitTotal`; wrapping once at the end is the same as
at every addition), as the loop does. A leg's metadata
decodes into a map of strings, that of a lifecycle row, which holds a number,
does not (`Decodes`), and then the whole export fails.

### 2.7 Reconcile and Adapters

`Adapters` says which files open (`NewNIBSSReader` wants the exact header,
`NewCSVReader` two of the names), what a row becomes (`nibssNext`, `csvNext`,
`parseStatus`) and which rows are refused; no property of the accounts' names
is used, and they are left out.

State of `Reconcile`: `input` (the two files of each job), `job` (its step, its place in the
external file or in the list of exceptions, what `Match` keeps in `seenExternal`,
`indexEntry.matched`, `matched` and `exceptions`, and the count of failed calls),
`called` (the corrective calls that reached the switch), `runs` (the completed
rows of `recon_runs`). `Open` opens the files and builds the index, `MatchNext` takes one
external record, `BadRow` meets a malformed one, `Leftover` takes one index entry in any
order, `Report` sorts and prints, `Feed` is one turn of the loop of `sendFeedback`,
`EndFeed` its end, `FindByFingerprint` and `Persist` are the two transactions of
`persist`. `Fault` ends a job anywhere; `Rerun` is the operator trying again.

Abstractions: `amount` stands for amount and currency, which are compared together;
references are numbers in the order of their spelling, because only their order
matters to the sort; the fingerprint is the pair of files; a file does not change
while a job works on it; the statuses of an export are those of the database, which
`ExportTransactions` copies. Times are numbers, and their difference is the `Duration` that
`time.Time.Sub` returns: it stops at `MaxDuration` and at `MinDuration`, which has no
opposite (`Sub`, `Absolute`).

The reference definition (`Expected`, `Right`) says what a reconciliation should report
from the two files alone: it uses none of the matcher's operators, neither the
index nor the comparison of times nor the sort. It is written per reference, with the
entries the ledger has of it (`Entries`), its refunds (`Refunded`) and its rows in the
settlement file, of which the first counts and every further one is a duplicate. In two
places the code falls short of what the documentation says, and the definition gives
way there, in the open: of a reference with several entries in the ledger the report
has to be right for one of them, whichever it is (`Choices`), where
`docs/ARCHITECTURE.md:109` would have a duplicate; and a reference whose two dates are
further apart than a `Duration` can say is not judged (`Clear`). Both are items of
section 3.

## 3. Runs

Passing runs:

| run | instance | shows |
|---|---|---|
| `switch_race` | 1 transfer, 2 pollers, 1 request goroutine at a time, 1 fault, 2 deliveries per event; the source exists or not, the destination is opened at any time or never | `OutcomeMatchesLedger`, `SuspenseNeverOverdrawn`, `FollowsRail`, `NoLostEvent`, `LedgerQuietAfterOutcome`, and the refinement `KeepsPromise` |
| `switch_live` | 1 poller, 3 faults, 2 deliveries per event; the destination exists, or never does | `EndsOrParked`, `ParkedOnlyByFaults`, `RestartRevives`, and the inductive invariant `MoneyInv` of the proofs |
| `idempotency_keys` | the same request twice, another body under the same key, an invalid request; 2 faults, lost replies or crashes anywhere | `KeyHeldOnce`, `AcceptedIsOwn`, `SuccessIsFinal`, `IdemInv`, `AnsweredOrBlocked` |
| `ledger_posts` | three workloads: a leg posted twice at once under one key; a leg beside two reversals of it under different keys; debits that balance only modulo the word size, mixed currencies and a payment to an account opened later; 2 tries, 1 fault | `CacheMatchesJournal`, `PostedOnce`, `AnswerIsTrue`, `JournalBalanced`, `LedgerInv`, `EveryCallAnswered`, and the refinement `IsSerial` |
| `reconcile_jobs` | two jobs, one with feedback, each on one of 4 exports and 10 settlement files (the same rows in both orders and in both formats, duplicates that differ, a reference with two entries in the ledger, a settled reversal, late and unknown payments, a date beyond the reach of a `Duration`, malformed rows and headers); 1 fault | `MatchIsRight`, `SameReport`, `FeedbackBeforeRecord`, `MalformedHasNoEffect`, `RerunAddsNothing` |
| `outbox_lease` | 2 events, 2 pollers, batches of 2, lease 2, backoff 2 then 3, 3 deliveries; 1 crash, shutdown or lost write | `OneHolder`, `ParkedForCause`, `OutageSurvived`, `EverySettles`, and the refinement `DeliversLikeQueue` |
| `service_stop` | 2 REST requests, one of which may never end, 2 calls, the poller, failing listeners, a signal at any time | `CallsServedToTheEnd`, `RequestsGetTheirGrace`, `SignalEndsProcess` |
| `export_windows` | a leg that splits the largest amount over two accounts, a leg whose debits exceed it, a lifecycle row, written while 2 exports of any windows run | `SettledWindowIsComplete`, `LaterExportAgrees` |

Why the bounds are enough for the cases that matter: one transfer suffices for every
race, because transfers interact only through a shared reference (checked apart) and the
proofs cover any number; two pollers and a request goroutine give three concurrent
handlers of one event; one fault in `switch_race` is a crash, a lost reply or a failed
call at any step, three in `switch_live` exceed the deliveries of an event, so dead
letters and restarts occur; `MaxRows` (4 in `switch_race`, 5 in `switch_live`) leaves
room for the events of a transfer and a corrective one. In `ledger_posts` `MaxInt = 3`
makes 3+3+3 wrap to 1, and three calls are enough for a lock, one who waits for it and a
third that comes between; with `MaxTries = 2` a call meets a serialization failure and
retries, and gives up at the second. `Disturb` is not part of the fairness, so aborts
and faults never have to come and help nobody: without the action `Deadlock`, TLC finds
two calls that wait for each other for ever and `EveryCallAnswered` fails. In
`export_windows` `MaxInt = 4` is met exactly by 2+2 and exceeded by 3+3, which wraps to
-4; accounts that a leg debits alike are interchangeable (`Alike`). Two rows per
settlement file and up to three per export give every category, two references in
`pending_reversal` in one report (no other category holds two; that the sort orders any
number of them is proved, `ReportsRight`), and every order; `MaxDuration = 8` puts the
date 12 out of reach of the date 2. Two jobs give every overlap of two, and a job that
is run again gives the sequence. In `outbox_lease` a backoff of 2 doubles and meets the
cap of 3, so both branches of `backoff` are taken, a lease of 2 can be kept or overrun,
and a batch of 2 leaves one event waiting behind another; one fault suffices because
every fault only leaves a row leased or unwritten. Two exports are what
`LaterExportAgrees` compares.

Runs that refute what the repository says of itself (each is a finding in
PROJECT.json, with the quotation):

| run | what happens |
|---|---|
| `switch_sharedref` | References are not unique. The callback of one transfer finds the newest row of the reference and posts *its* settlement leg, although that transfer has not been debited and then fails. |
| `switch_review` | A delivery posts the settlement leg and dies; the redelivery's status queries are inconclusive; MANUAL_REVIEW is written though the money has left suspense. |
| `idempotency_failed` | The commit that creates the transfer is not acknowledged; the key is marked failed without its transfer, and every retry fails to decode the empty stored response. |
| `export_lifecycle` | The switch's transfer lies in the window; its metadata holds a number, `unmarshalMetadata` wants strings, and the export that should map "every transaction" (`query.go:35`) answers with an error, every time. |

More were met and have no run of their own. (1) With the source account in
`OpenableAccounts`, the inline debit can be told NotFound, the poller's delivery of the
same event can post the debit once the account is opened, and the request can then write
FAILED: the debit stays in suspense under a status that says no money moved
(`driver.go:138`). `FixedSources` excludes it. (2) An outage as long as `MaxAttempts`
deliveries parks a pending transfer until the next restart, although
`orchestrator.go:59` says the poller posts the debit "or fail[s] the transfer closed";
`EndsOrParked` states what does hold. (3) `cmd/switchd/main.go:87` runs the poller with
a zero `Config`, so that `BaseBackoff` is 0 and the deliveries are used up within
seconds. (4) A holder that dies after reserving an idempotency key leaves it in progress
for ever (`idempotency.go:141`), although line 52 says that past the lease it is "taken
over"; `AnsweredOrBlocked` states what does hold. (5) If a reference has two different
external rows, the first decides and the other is the duplicate: the report then depends
on the order of rows, which the comment of `sortExceptions` denies, and `SameReport`
excludes. (6) Two reconcile jobs at once may both record the same inputs. (7) Equal
amounts outside the time window, or in different currencies, are reported as
`amount_mismatch` with delta 0. (8) A failed corrective call ends the job before it is
recorded, although `cmd/reconcile/main.go:119` gives the order the opposite purpose;
what the order does ensure is `FeedbackBeforeRecord`. (9) A transfer to an account that
does not exist is debited and settled by the rail; the ledger's NotFound for the
settlement leg is returned as a transient error (`driver.go:167`), the event is
dead-lettered and the debit stays in suspense, although `docs/PRD.md:15` says "every
debit must end in either a matching credit or a completed reversal". `EndsOrParked`
states what does hold; both `switch_race` and `switch_live` have the destination that
never exists, and `ParkedOnlyByFaults` is about the others. (10) `updateCachedBalances`
writes balance rows in the random order of a Go map (`internal/ledger/service.go:188`),
so two posts on the same two accounts can deadlock; 40P01 is not 40001, is not retried
and is answered with Internal, where `README.md:80` promises a retry or Unavailable.
`Ledger!Deadlock` is that step, and `EveryCallAnswered` holds in spite of it. (11) A
stranded transfer is exported as `reversal_pending` with a settled debit leg;
`classifyUnmatchedInternal` asks for `failed` or `timed_out` (`exceptions.go:45`) and
reports it as unmatched, so nothing is fed back, although `README.md:81` says that
reconcile detects it. (12) The ledger accepts debits whose sum exceeds an int64, if the
credits wrap alike: `validate` compares wrapped sums and the trigger a difference of
zero. The export adds them up in an int64 (`query.go:69`), so the record's amount is not
"the transaction's total debits" (`query.go:36`); `SettledWindowIsComplete` speaks of
the amount only where an int64 can hold it. (13) `query.go:30` calls the order of
`ListEntries` the posting order; all lines of a post have the same `created_at`, and the
order is that of their random ids. It is fixed, which `LaterExportAgrees` needs, but
which of two debited accounts is exported as the destination is chance. (14) The
exported source is the credited account, which for the switch's debit leg is the
suspense account and not the payer. (15) The matcher ignores the status of an external
row: a declined payment matches a settled transfer of the same amount. (16) Both readers
accept an empty reference. (17) A worker slower than its lease that fails sets
`next_attempt_at` anew and so shortens the lease of the worker that has the event now,
and may park an event that was published meanwhile; `EventQueue` has the state "both"
for it. (18) A second SIGTERM is swallowed while `shutdown` waits, and `GracefulStop`
has no deadline of its own: a callback that never returned would keep the process alive.
(19) When the gRPC address is taken, `Run` returns without `Cleanup` while the poller
and the REST server are at work. (20) The poller's handlers call the ledger without a
deadline. (21) If the internal file has two entries of a reference that are not
reversals, the later one replaces the earlier in the index (`matcher.go:51`) and nothing
is reported of it: not the duplicate, which by `docs/ARCHITECTURE.md:109` is "the same
reference appears more than once on a side", and not the transfer it hides, which may be
owed a reversal. `FeedbackBeforeRecord` therefore promises the reversal only of a
reference all of whose entries are owed. (22) A settlement dated more than 292 years
after its transfer counts as within the window: the difference stops at the smallest
`Duration`, and `d = -d` leaves it negative (`matcher.go:130`); one dated as much
earlier does not.

`CHECK_DEADLOCK FALSE` everywhere: when every transfer has ended, or every client
or call has its answer, the system really rests.

### Fairness

* `Switch!FairSpec`: weak fairness of each poller's loop (claim, handle, acknowledge
  or fail, restart). `Poller.Run` ends only with its process, and a dead process is
  restarted. Nothing is assumed of clients, the rail, operators or of request
  goroutines, and faults are bounded, not unfair.
* `Idempotency!FairSpec`: a running request goes on, leases expire (time passes), and
  a client without a definite answer tries again.
* `Ledger!FairSpec`: strong fairness of `Serve`: a call that has begun goes on, and a lock
  that is given up goes to those who wait for it, in turn, as PostgreSQL's queue
  does. Aborts with 40001 and faults (`Disturb`) are allowed, never assumed.
* `Outbox!FairSpec`: time passes, the ticker fires, every handler returns with or
  without an error (which of them is free), and a process that was told to stop ends and
  is started again. Crashes and shutdowns are bounded, not unfair.
* `ServiceBoot!FairSpec`: `main` goes on, time passes, every statement ends, and a
  handler that keeps using the database ends at last, except for the `Stuck` REST
  requests, which wait for the ledger without a deadline. The gRPC calls end because
  the rail's callbacks have a deadline and a corrective call makes no remote call.

## 4. Proofs

All theorems hold for every value of the constants that the named assumption of
the module allows: any number of transfers, pollers, requests, accounts, files and
faults, any lease, backoff, grace or tolerance. The inductive invariants were checked
with TLC on the instances of section 3 before they were proved.

* **`SwitchProofs`: `TypeSafe`, `NoEventLost`, `ParkedForFaults`, `DeliversByRules`.**
  `NoLostEvent` says that a transfer in progress has an unpublished event that drives
  it. It is not inductive: one must know that a delivery is acknowledged only when the
  status its event belongs to has been left for good. `DeliveryInv` says it with
  `Reached(evt)`, the statuses reachable once the event exists, which is closed under
  `statusTransitions` (`RowInv` for the table, `ActInv` for the running handlers,
  `DrivenInv` for the existence of the event). For `ParkedOnlyByFaults`, `ParkInv` adds
  that every failure of an event, recorded or about to be, is a fault of its own
  (`CountInv`, by cardinality), that the attempts a delivery has read are never too high
  (`StaleInv`), and that a transfer whose destination is known (`Known`, which no step
  changes) has no failure of its own (`ParentInv`). No assumption on references or
  accounts is needed. `DeliversByRules` is the refinement of `EventQueue`, from
  `DeliveryInv`: an event is a row of the outbox (a positive number; rows not yet
  inserted are absent), the deliveries under way are those the pollers hold, a crash or
  a lost update of the row drops one. It has no run, since the set of events is
  infinite; on the instances of `switch_race` and `switch_live` no outbox has more than
  7 rows, and with 7 events TLC agrees. The converse, that a live row may be claimed at
  any time by any idle poller, is the guard of `Claim`.
* **`SwitchMoneyProofs`: `MoneyAgrees`, `MoneyCorrect`, `SuspenseSafe`, `RailFollowed`,
  `QuietLedger`, `PromiseKept`.** Under `UniqueRefs` and `FixedSources`, `MoneyInv` adds
  what the ledger and the rail look like in each status (`LegInv`) and what a handler
  has established before its next step (`WorkInv`): for instance, whoever is about to
  write SETTLED has posted the settlement leg or looks at a terminal row. It implies
  the three invariants on money; that no leg is posted after an outcome is a
  property of its steps. `PromiseKept` is the refinement of `TransferSpec`: each action is
  mapped to a step of the specification or to a stuttering one. (`ReversalHasParent`
  has no run of its own: it is part of `MoneyInv`, which `switch_live` checks.) Dropping
  either assumption makes the properties false (section 3), so the two say exactly what
  the code relies on.
* **`IdempotencyProofs`: `IdemCorrect`, `KeySafety`, `AcceptedOwn`, `SuccessFinal`.**
  `IdemInv`: the owner of a key is alone with it and the row is open; whatever a key or
  a reader refers to is a transfer of that key and body.
* **`LedgerProofs`: `LedgerSound`, `CacheCorrect`, `KeyPostedOnce`, `BooksBalance`,
  `AnswersTrue`, `LedgerIsSerial`.** `LedgerInv`: a snapshot is part of the journal; a
  balance row has one locker, and nothing outside the locker's snapshot has touched
  its account (`FreshInv`, which is first-updater-wins); the holder of a key or of a
  parent is alone. Then the balances written at the commit count exactly the
  journal. `ValidInv` adds that whatever is in the journal or on its way there passed
  `validate` and has its accounts, so that a call that is refused as invalid or
  not_found has posted nothing, in an earlier attempt either. Every step of
  `Ledger` is a step of `SerialLedger` or leaves its variables alone.
* **`OutboxProofs`: `OutboxTyped`, `ParkedByFailures`, `HeldOnce`, `OutagesSurvived`,
  `QueueKept`.** `CountInv` (with `BatchInv`, `FailureInv`): a delivery has read no more
  attempts than the row has, and every attempt on record is a failure that
  happened. `LeaseInv`: while no worker overstays, the row of a delivery waits at least
  as long as its holder's lease runs, so nobody else can claim it, and the attempts
  read are current. `AgeInv`: an event has lived through the backoffs of its attempts,
  or will have when its wait is over, where the sum of the backoffs is the recursive
  function `endured`. That this function and `doubled`, the loop of `backoff`, have the
  values their definitions suggest is proved by induction (`SetInduction`, `Iterated`).
  The refinement of `EventQueue` maps the batches to the deliveries under way.
* **`ServiceBootProofs`: `CallsServed`, `GraceGiven`.** `BootInv` says phase by phase what
  is still open: the pool until `Cleanup`, gRPC calls until `GracefulStop` has returned,
  REST requests until `Shutdown` has waited out its grace.
* **`ExportProofs`: `LaterExports`, `SettledComplete`.** `ExportInv` keeps for every
  answer what makes it comparable with later ones: its records are those of committed
  transactions, which nothing changes (`Keeps`); a quiet answer was given on a window
  that is closed, that is, over and without an open writer; and the export under way has
  read, or will read, what earlier answers oblige it to. `SettledComplete` also says
  that the amount, which the code adds up line by line in an int64 (`DebitTotal`, a fold
  that wraps), is the sum of the debits wherever that sum fits, for every `MaxInt`:
  `AnyOrder` and `SumOfNumbered` show by induction on the subsets of the lines that the
  order of the lines does not matter.
* **`ReconcileProofs`: `ReportsRight`, `FedBack`, `MalformedInert`, `RerunSafe`,
  `ReportsRepeat`.** After each row of the settlement file `Matching` says what `Match`
  holds, in terms of the rows read: the references seen, those whose first row agrees
  with the index, and for each reference and category how many exceptions are listed;
  `Tally` says the same while the leftover entries come out in any order. `Sorting`
  proves that `sortExceptions` is a permutation that puts the list in order, which needs
  that `Before` with the position as the last criterion is a strict total order
  (`WeakOrder`, `TotalOrder`) and that places are counts below an element. The argument
  then has two stages. What `Match` holds at the end of the file is what the index and
  its comparison of times give (`Computes`, by `ReportRight`); and that is what the
  files themselves say (`Right`, by `ComputesRight`): the index holds an entry of the
  ledger and no reversal (`IndexIsLedger`), its times are near by the saturating
  difference exactly if they are near as numbers, provided a `Duration` can hold how far
  apart they are (`WindowNear`), and a reference is matched just when nothing but
  duplicates is reported of it (`MatchesAreRest`). `ReconcileInv` carries it through
  each job, with: everything owed that comes before the place of the feedback has been
  asked for, unless a call failed; a job past its feedback has asked for all of it; a
  recorded run is of a readable file. `RerunSafe` is a property of behaviours: once the
  files of a job are on record and it is not about to record them, that stays so
  (`StaysSettled`). `ReportsRepeat` is about two jobs and whole exceptions.
  `ReportRight` gives both reports equal counts in order, hence the same category and
  reference at each place: the exceptions of the one can be paired off with those of the
  other (`Pairing`), and none can come later in one than in the other, because the
  exceptions before it would have too few partners (`NotLater`, `SameKeys`). For the
  contents, `Detailed` says of every list, from the first row on, that an exception
  holds the entry of the index or the first row of its reference, and the n-th duplicate
  of a reference the row after n others; this survives the sort only because the sort is
  stable (`SortSound`). So category, reference and place determine the exception
  (`FitsOnce`), and for files with the same rows in another order everything this refers
  to is the same (`ReorderedIndex`, `ReorderedRows`, `ReorderedFits`), provided no
  reference has two different rows.

Two kinds of argument recur. Counting: cardinalities are followed one element at a
time with the library's facts on finite sets. Induction: the library's principle
takes a predicate as a parameter, which the provers cannot instantiate, so `CountingUp`
and `SetInduction` state it for a *set* of numbers, from the well-foundedness of the
order, and the predicate becomes membership in a set.

Only model-checked: the liveness properties (`EndsOrParked`, `RestartRevives`,
`AnsweredOrBlocked`, `EveryCallAnswered`, `EverySettles`, `SignalEndsProcess`), since
fairness and ENABLED are out of the proof system's reach.

## 5. Not modelled

* Formatting, routing, JSON, correlation ids, metrics, logging, tracing; the message
  code generated from the proto files, which marshals.
* `GetBalance`, `GetAccount` and `ListEntries`: single reads.
* The layout of the report; the reader of the internal export, which is
  `encoding/json`; the writer of settlement files, which serves tests.
* The hash of the mock rail's chaos configuration; fixtures and seeds.
* A file that is replaced while a job works on it (`cmd/reconcile/main.go:202`).
* One model of `Switch` with `Ledger` inside it: a leg is atomic and deduplicated for
  the switch, which `LedgerIsSerial` and `PostedOnce` justify, and the product of the two
  is beyond TLC.

## 6. Plan

Done, in this order: `Switch` with its invariants and proofs; `Idempotency`;
`Ledger` with its refinement; `Reconcile`; `Outbox` with its refinement;
`ServiceBoot`; `Export`; `Adapters`; then the proofs of every safety property, action
property and refinement the runs check, and of the refinement of `EventQueue` by
`Switch`. What a reader could add:

1. The fact that composes `Export` and `Reconcile`: the answers of the one are inputs of
   the other. Today it is the shape of the records that says so.
2. `Switch` over `Idempotency`: `Create` in `Switch` as the step of
   `Idempotency!CreatePending`, with `KeyHeldOnce` as the reason why it happens once.
