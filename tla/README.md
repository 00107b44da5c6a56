# Verification of the trading component and of the repository's durable stores

TLA+ models of the parts of this repository that keep state while several actors
work on it or while a process may die: the Moomoo simulated trading component
(`apps/moomoo_trading_component/moomoo_component`; paths below without a directory
are relative to it), the prerequisite store, the research registry and the
forward-shadow runner under `scripts/`. `PROJECT.json` maps every definition to the
lines it models, and lists components, runs, hazards, findings and theorems.

## 1. The system

| Part | State | Operations | Talks to | Module |
|---|---|---|---|---|
| `core.py` `Engine`, orders | `state.sqlite3` (orders, order_fills, settings, strategies, paper tables), halt/stop/cancel events, `lock`, the runner thread, the chosen account | halt, stop, reset_halt, import_strategy, switch, set_mode, preview, step, start, reconcile | the broker adapter, called under `lock` | `OrderEngine` |
| `core.py` `Engine`, paper account | paper_batches, paper_fills, paper_marks, paper_nav | paper_rebalance (three routes), paper_mark, paper_record_close | the cohort | `PaperBook` |
| `brokers.py` `MoomooBroker` | client ids tried (`_attempted`) | submit, reconcile, reprice | OpenD, over the network; `cancel_check` back into its owner | `OrderEngine` |
| `best_broker.py` `BestBroker` | a frozen plan, `best_execution`, retry generations; a thread | start, stop, halt, tick | an `Engine` in simulate mode | `BestExecution`, `Maintenance` |
| `cohort.py` `Cohort` | `meta`, `_maintenance`, the chart job; a thread, `lock`, `tick_lock`, `_maintenance_lock` | start, stop, halt, tick; begin, prepare, charts, status, end of a lease | paper engines, BestBroker, the source | `Maintenance` |
| `applied_source.py` | `_WORKER_LOCK`, the quarantine, child processes | `DailySource._call`, `_ExecutionChartsJob` with poll and cancel | child processes | `WorkerLease` |
| `scripts/common/prerequisite_lifecycle.py` | staged and published bundles | resolve, promote, ensure | files | `PrerequisiteBundles`, `PrerequisiteStore` |
| `scripts/maintenance/research_registry.py` | snapshots, event log, `CURRENT.json`, a lock file | apply_patch, the validated reads | files | `ResearchRegistry` |
| `scripts/v22/forward_shadow/` | staging, transactions and lock of a date | run (production, dry-run, resume) | files | `ForwardShadow` |
| `server.py`, `live.py`, `quotes.py`, `imports.py`, `showcase.py`, `strategy.py`, `locking.py` | HTTP sessions, caches, one lock file per data directory | HTTP handlers | the engine, the cohort | as callers only |
| `scripts/daily_recommendation*.py`, `.../selector_maximal_risk_journal.py` | stage files; fit slots | run, resume; begin, finish | files | not yet |
| research code, `fast3/`, `fast6/`, v16 to v22, the demo console | results of batch computations | run by hand | files | no |

What makes each part correct:

- **Engine and adapter.** No order is sent twice; at most one is unresolved; the
  durable rows tell the truth about the broker; stops and halts hold; retries
  never exceed the first attempt; paper ledger and paper orders agree.
- **Paper account.** The ledger is the sum of the committed fills; an attempt is
  all or nothing; a code is not traded past the batch's frozen target.
- **BestBroker.** A quantity once resolved for a signal binds it; sales are finished
  before purchases on the automatic route; a day that ends as executed has done its plan.
- **Cohort.** While a lease holds the owners no tick runs; a user's stop beats the
  restore that ends the lease; a failure leaves everything stopped; no chart job
  outlives a stop unowned.
- **Source.** One heavy process tree at a time; a lost tree closes the slot for good.
- **Files.** After a crash at any point a reader finds the old or the new state, and
  two processes never both publish.

What is hard: `step()` and `start()` hold the engine lock across network calls while
stop requests come in without it; answers get lost and positions lag; every HTTP call
has a thread of its own among the two workers and the chart job; a process may die
between any two writes; several command lines share a directory under a lock file, or
without one. The `hazards` of `PROJECT.json` list each of these at its line.

Composition: `BestExecution` and `PaperBook` use the order and the paper account as
their engine promises them; `Maintenance` composes both owners with the lease and with
the chart job, whose lost tree is `WorkerLease`'s. `OrderEngine` implements
`OrderIntents`, `ResearchRegistry` implements `ResearchHistory`,
`ForwardShadow` implements `ShadowCalendar`.

## 2. The models

### `OrderEngine`

**State.** The durable variables are what `state.sqlite3` holds (`rows` is the
table `orders` joined with `order_fills`; `shares[Paper]` the paper ledger).
`haltEv`, `stopEv`, `cancelEv` are the three events, `acct` the chosen account,
`attempted` the adapter's memory. `wire`, `book`, `seen` and `shares` of the
simulated accounts are Moomoo's and external: requests on their way, the
broker's orders, the positions it shows, and the true ones. `pc` is the engine
lock: `"idle"` when free, otherwise the place the holder has reached, and `job`
its local variables. `asked` is history: a stop or halt was asked since the
current run was begun, and, separately, while `start()` was previewing; and so is the field `turned` of
a row, which was reopened for the other side.

**Actions.** A handler that does not wait under the lock is one action
(`ResetHalt`, `Activate`, `SetMode`, `Reconcile`, ...). `step()` is cut where
something can come between two of its effects:

| place | code in `step()` | actions out of it |
|---|---|---|
| `preview` | the first plan | `Preview`, `PlanRefused` |
| `loop` | the loop over the plan and the fresh plan | `FreshPlan`, `ItemGone`, `LoopEnd`, `PlanRefused` |
| `planned` | stop check, validators | `StopBeforeIntent`, `RecordIntent`, `PlanRefused` |
| `recorded` | the intent is committed; stop check | `StopBeforeSend`, `PaperFill`, `Submit` |
| `preflight` | `_submission_preflight`, ends in `cancel_check` | `Preflight`, `RefusedNotSent`, `OutcomeUnknown` |
| `cleared` | the adapter will send | `PlaceOrder`, `RefusedNotSent`, `OutcomeUnknown` |
| `sending` | `place_order` has been called | `Acknowledged`, `OutcomeUnknown` |
| `closing` | the last snapshot | `StepReturn` |

`halt()` is two actions, because it raises the flags before it waits for the
lock (`Halt`, `HaltLatch`). `stop()` raises two events one after the other; they
are one action, since the request counts as made once both are up. `Reboot` may
come in every state and keeps exactly the durable variables and the broker's.

**Abstractions.** Prices, cash, quotes, deadlines and limits only ever make a
plan or a submission refuse; so any plan may refuse (`PlanRefused`, and in the
partial route single codes through `ItemGone`). An order id is the tuple it
hashes. A manifest keeps only what decides orders: signal, kind of plan, phase,
targets, generations. `reconcile` may read each order correctly or answer
UNKNOWN, and may stop half-way at a read error. The sqlite failure that turns a
paper fill into UNKNOWN is left out. `connect`, `set_limits`, `demo` and `close`
change nothing the model keeps.

**External.** The account takes a request or loses it, fills one share at a
time, cancels or fails what is left, and shows positions late.

### `OrderIntents`

The abstract machine: an intent is none, intended, unsent or settled; one may be
intended at a time; it may fly to the broker once, and may be withdrawn only if
it did not; it settles only after the broker closed it. `IntentsSpec` maps a row's
status to the phase, so `SUBMITTING`, `PENDING_RECONCILE`, `UNKNOWN` and live
statuses are all "intended". `IntentsSpec` is checked in `order_swap` and proved in `OrderEngine_proofs`.

### `PaperBook`

**State.** `cash`, `qty`, `fills`, `batch`, `mark`, `nav` and `haltReason` are what
the account's `state.sqlite3` holds; a batch keeps what its later attempts must not
change (plan, processed codes, frozen targets, sizing basis, fills per code). `day`
and `phase` are the calendar: the execution window, the rest of the session, the
close. `pc` and `job` are an attempt in progress and what it computed; `worker`,
`haltEv`, `cancelEv` are the cohort's thread and the engine's events. `asked` is
history: a stop or halt came since the last attempt began.

**Actions.** `Attempt` is `paper_rebalance` and `_paper_partial_rebalance` up to their
transaction: nothing is written before. `Clear` is the last look at the events inside
the transaction, `Commit` what it writes in one piece, `GiveUp` every rollback,
`AttemptMarks` the `paper_mark` after it, which is a commit of its own. `MarkBook` is
the cohort's valuation, `RecordClose` is `paper_record_close` for this or an earlier
day. `Start`, `Stop`, `Halt`, `HaltLatch`, `WorkerEnds` are the cohort's controls, and
`Reboot` may come at any point and keeps only the database.

The three routes differ in what a batch remembers: `"whole"` is all or nothing,
`"qualified"` takes the codes whose quotes qualify, `"automatic"` also freezes each
code's target and keeps it pending until reached. The cohort uses one route for a day
in the ordinary case, but a policy can be switched on between attempts, so the runs let
the route change.

**Abstractions.** Money is counted in 1/2000 dollar, so that 5bp of a whole price is
exact and the division of `affordable` is the code's. A quote is one price, or
`NoPrice` for all ways not to qualify. Weights are parts of `Parts`. The one-day
permissions that widen a window, the checks of hashes and source references, epochs
and resets of the account are left out; rejected attempts change nothing.

### `BestExecution`

**State.** `exec` is `settings.best_execution` (phase, target quantities, processed
codes, deferred SELLs, skipped rows, resolved SELL targets, the BUY state kept during a
detour); `day` and `weighted` the signal and its plan; `shares` the recorded holdings;
`sent` the session's orders of each code and phase; `pending` the one unsettled order;
`todo` the manifest the tick works on. `first` and `late` are history.

**Actions.** `Tick` is `_tick_partial` with every `_partial_execution` it calls and all
the writes they make; a tick makes all of them or dies after one of the earlier ones;
`FixWhole`, `WorkWhole` and `EndWhole` are the whole route; `Send` and `SendNone` are the
engine's step, `Settle` its reconciliation; `NewSignal` is `_prepare`, which resets nothing
in `best_execution`.

**Abstractions.** A snapshot says how many shares of a code its weight wants at the quoted
price (or that there is no qualified quote), how many the cash reaches, and which failed
codes still cool down; every combination may be met. Exact-hold units, the
full-liquidation reset, catch-up, first-execution and manual permissions and repricing are
left out.

### `Maintenance`

**State.** `stop`, `halted`, `worker`, `tickLock`, `brokerError` are the two owners';
`job` is `_execution_charts_job`; `rec` is `_maintenance` with its phase and flags;
`lease`, `restorer`, `stopper` are `_maintenance_lock` held over several actions and the
two thread ids the code compares with `current_thread()`. `handler` says where each HTTP
thread is. History are `rec.drained`, the lease was found drained, and `over` and `lastStop`, how the
stops that were called met the starts (and, with `Reopens`, a finished lease that became active again).

**Actions.** One per stretch of a handler that a lock, or nothing but the interpreter,
makes atomic. `Cohort.start` is `StartGuard` (no lock), `StartChecks`, `StartClears`, then
`BestBroker.start` as `BrokerGuard`, `BrokerChecks`, `BrokerClears`; `stop` and `halt` are
`SignalStop`, `OverrideLease`, `SignalBroker`, `BrokerOverrides`, `StopReturns`; the stop
nested in a lease operation is `LeaseStops`, `LeaseStopsBroker`, `LeaseStopped`. `Begin` to
`Drain`, `Status`, `Prepare` to `Prepared`, `Charts` with `ChartsAdmitted`, and `End` to
`EndFailed` are the lease; `Request` and `Register` the chart request without one. `Gate`,
`TickBegins`, `TickEnds`, `WorkerExits` are both workers, `JobEnds` the chart job.

**Abstractions.** The manual mode with a broker; dates, windows, receipts and the source's
answers only make a call refuse, which every call may; a tick does nothing but supervise
the job. One cohort lives as long as its process: no crash is modelled, since the lease is
not persisted.

### `WorkerLease`

The module lock of `applied_source.py`, the quarantine, the callers of `DailySource._call`
and the jobs with their threads. The release reads the quarantine, releases, and reads it
again (`Leave`, `Release`, `Recheck`); the publication sets the reason and then takes the
lock if it is free (`Publish`, `Retain`); `poll()` reads the quarantine first and the thread
second (`Poll`, `PollReturns`). A tree may be lost at any child (`ChildIsLost`).

### `PrerequisiteBundles` and `PrerequisiteStore`

State and promises are in the first module, the runs in the second. Two bundles of files under fixed paths, the legacy tree and one staging directory per run.
`Resolve`, `Children`, `Promote`, `Copy`, `Remove`, `Rename` are the file operations of
`ensure()` and `promote()` one by one; `Breaks` is a crash, a child that fails or a file
operation that raises. A bundle is valid when all its files are there; the content of a file is
where it came from, the legacy tree or the run whose bootstrap made it. `overtaken` and `robbed` are
history: runs that replace what another has published since, and bundles taken away from runs under way.

### `ForwardShadow`

The staging directories, the transactions and the lock files of the dates, and the runs of
several processes. Everything from `check_duplicate` to `release_lock` is an action per
file operation; `Crash` ends a process anywhere, `ReviewLock` is the person who removes the
lock file of a dead one. A run identity is a date and a key for all other inputs.

### `ShadowCalendar`

What the runner promises: a calendar whose dates have at most one entry, the work of one run
that was no dry run and had not answered yet; that run alone can commit it, nothing else happens to
it, and every answer is true when it is given. Stages, components, locks and the order of the checks
are gone: under the refinement mapping the entries of a date are its transaction directories with
the attempts that wrote them, `Publish` makes one, `Mark` commits it, an answer is a `Reply`, and all
that happens in a stage or to a lock file is a stutter.

### `ResearchRegistry`

The pointer, the snapshots, the event log (whose last line may be torn) and the lock file.
`apply_patch` is `Submit`, `Lock`, `Check`, `WriteSnapshot`, `AppendEvent`, `WritePointer`,
`Unlock`, with `WriteFails` and `Crash` between any two; a reader takes the pointer and then
the log (`ReadHead`, `ReadChain`). The id of a snapshot, a hash of its parent and content, is
the sequence of contents up to it. Operations are `_apply_operations` on entities and
aliases; the similarity review of a proposal is one nondeterministic verdict.

### `ResearchHistory`

What the registry promises: one history, a patch that is added only to the version its author had
seen, a reader who gets the newest version or the one it asked for. Snapshots, log, pointer and
locks are gone; the refinement mapping takes the history from the last line of the log, so a patch
is committed by `AppendEvent`, and whatever happens before or after that step is a stutter.

## 3. Runs

| run | instance | states | properties |
|---|---|---|---|
| `order_retry` | 2 accounts, 1 code of 2 shares, plan-driven: a first BUY, a smaller one, a retry | 1.73 M | `SentAtMostOnce`, `RowDescribesOrder`, `RetryWithinOriginal`, `OneOutstanding`, `HaltHolds`, `FillsOnlyGrow` |
| `order_swap` | 1 account and paper, 2 codes (sell one, buy one), operator and runner, fair | 0.22 M | `SettledIsTrue`, `PaperLedger`, `StopHonoured`, `IntentsSpec`, `RunnerStops` |
| `order_lost_stop` | as `order_swap` | | violates `StopDuringStart` (section 6) |
| `paper` | 2 codes, 2 plans, 3 routes, 3 price vectors, 2 days | 3.71 M | `TypeOK`, `FreshIds`, `TowardsTarget`, `ExecutedIsReached`, `LedgerIsFills`, `NavOfItsDay`, `ExecutedIsFinal`, `StopHonoured` |
| `best_day` | 2 codes, 3 routes, 2 shares, 2 orders per code and phase, 1 retry; 2 signals on the whole route | 63 k | `QuantitiesAreFixed`, `NoReversal`, `NothingForgotten`, `SellsFinishFirst` |
| `best_leak` | automatic route, 2 signals, no retry order | | violates `ExitsAreSold` (section 6) |
| `maint_owners` | 2 threads; leases from begin to end, chart requests without one, the user's starts and stops | 7.0 M | `UserStopWins`, `NoStrayJob`, `OneOperation`, `QuietInMaintenance`, `FailureStaysPaused` |
| `maint_jobs` | 2 threads; leases, aborts, halts, the broker's stop and chart requests, fair | 0.63 M | `DrainEnds` |
| `lease` | 1 caller, 2 jobs, fair | 0.16 M | `OneHeavyTree`, `QuarantineKeepsSlot`, `CancelIsProof`, `QuarantineIsolates` |
| `prereq_race` | 2 runs at once, 2 files per bundle, 3 troubles, fair | 0.21 M | `EnsuredIsValid`, `ValidIsKept`, `EventuallyEnsured` |
| `shadow_day` | 2 processes, 1 date, 2 keys, 3 runs | 0.41 M | `CalendarSpec` |
| `registry` | 2 writers, 1 reader, 2 entities, 1 alias, 5 patches, 3 heads | 0.89 M | `HistoryIsSound`, `EntitiesAreFinal`, `HistorySpec` |

**Bounds, and why they are enough.**

- *Orders.* `MaxGen` = 1 gives a retry (the code allows 5, or the daily order limit): a
  retry meets its original's late fill, and a second retry would only meet the first in the
  same way. The manifests of `order_retry` reopen a row for another quantity; a row that is
  reopened for the other side takes a partial plan that is not automatic, which is too much beside
  two accounts: that half of `RowDescribesOrder` rests on its theorem (section 5). `MaxQty` = 2 where a partial fill matters, 1 elsewhere. Two codes give "one order
  per cycle", two accounts "the wrong account". Crashes, stops and reconciliations are
  unlimited.
- *Paper.* Two codes, because sales meet purchases and one purchase starves another; two
  prices, so that a code is dearer or cheaper later; cash that is short until a sale succeeds;
  two days, because a late close meets the next day.
- *BestBroker.* Two orders per code and phase, so that a retry fails too; two signals on the
  whole route. On the partial and automatic routes a single signal: two signals meet the
  leak of section 6, which has its own run.
- *Lease.* Two threads: a lease operation and one call that overtakes it. `maint_owners` makes every
  call of the server but abort and halt, which are `maint_jobs`'. The operations of
  three or more threads exclude one another by proof (section 5).
- *Files.* Two processes or writers and one reader race for every file; three runs of
  `ForwardShadow` allow a failed one, its resumption and a rival. `MaxTrouble` = 3 allows a
  crash halfway through a removal, one in the repetition and a failed child. `MaxHeads` = 3
  lets a patch follow the close of an entity; the patches are the ones that would revive it, make
  its count smaller or unknown, or move its alias.

Deadlock is checked except where the configuration says that the system may stop: a blocked
plan stays until the next signal, a quarantined slot stays taken, a date may be left to a
person.

**Fairness.** `OrderEngine`: weak fairness of the lock holder and of the runner thread. The
first is justified because every broker call is bounded by the SDK's timeouts and everything
else is local; the second because the thread is never suspended and nobody else holds the lock
for ever. Nothing is assumed of the broker, the operator or the network. `WorkerLease`: weak
fairness of an admitted thread, whose waits and children all have timeouts. `PrerequisiteStore`:
a run goes on, and the one-click refresh is run again after it broke; troubles are bounded.
`Maintenance`: weak fairness of each handler and of the end of a tick; that a tick begins or a
job ends is not assumed. A client polls the status of its lease again and again: this is strong
fairness, since the model's few threads stand for a server that has one for every call, so that
a poll is possible again and again but not always.

## 4. Properties

The comments in the modules name the code each property is about. Some were left out of the
runs, because a stronger one or a theorem covers them: `UnsentIsTrue`,
`PaperBook`'s `HoldsKept` and `MarksAdvance`, `ForwardShadow`'s `OneTransactionPerDate`,
`PublishedIsOfOneRun` and `AnswersAreHonest`, `ResearchRegistry`'s `ReadsAreOfHistory` and
`PrerequisiteBundles`' `OneSource` are proved only.

## 5. Proofs

For every value of the constants that satisfies the modules' named assumptions:

| module | theorems | assumptions |
|---|---|---|
| `OrderEngine_proofs` | `TypeInvariant`, `SentOnce`, `UnsentHolds`, `SettledHolds`, `OneAtATime`, `FillsGrow`, `HaltIsHeld`, `StopIsHonoured`, `EngineImplementsIntents`, `LedgerIsItsOrders`, `RowsDescribeOrders` | ids are not `NoId`, `Paper` is no account, manifests are well formed |
| | `RetriesStayWithin` | the same, and `OneSided` (below) |
| `PaperBook_proofs` | `TypesHold`, `LedgerIsItsFills`, `OneWayTrades`, `ExecutedMeansReached`, `CloseShowsItsDay`, `FillIdsAreFresh`, `ExactHoldsAreKept`, `FinishedBatchIsFinal`, `StopIsHonoured`, `MarksNeverGoBack` | prices, days and plans are well formed |
| `SharedHost_proofs` | `HeavyTreesAreAlone`, `SlotStaysTaken`, `CancelProvesCleanup` | a job's thread is none of the callers |
| | `BundlesOfOneSource`, `EnsuredBundlesAreValid`, `ValidBundlesStay` | a file's content says where it came from |
| `ForwardShadow_proofs` | `TypeInvariant`, `OnePerDate`, `OneRun`, `Answered`, `RunnerKeepsCalendar` | any dates have a latest one; `Absent` is no directory |
| `ResearchRegistry_proofs` | `History`, `Reads`, `EntitiesStayFinal`, `RegistryIsOneHistory` | `None` is no writer, no content and no entity; a patch is a sequence of operations on known entities |
| `BestExecution_proofs` | `InvHolds`, `NoReversalHolds`, `QuantitiesStayFixed`, `SellsAlwaysFinishFirst`, `NothingIsForgotten` | quantities are bounded by a natural number; `None` is none of the values it stands beside |
| `Maintenance_proofs` | `OneOp`, `QuietLease`, `FailuresStayPaused`, `UserStopsWin`, `JobsNeverStray` | the clients' calls are calls the server has |
| `Sums` | lemmas only | |

**`OrderEngine_proofs`.** `Inv` has four parts. `Typed`: typing is not inductive alone,
because `step()` writes the row of the order in hand; it adds that there is one. `Cycle`: for
each client id, what its durable row may say, given whether its request is on the way and what
the broker has (`Tied`), and that one order at a time is pending. This is what makes "sent once"
inductive: nothing may fly whose row says unsent, and nothing live may have a terminal row.
`Work`: at each place of `step()`, what is already known of the order in hand; from the intent
until the send its row is `SUBMITTING` and the broker knows nothing of it. `Stops`: after a stop
is asked, at each place, which flag still shows it. The refinement adds that an unfilled
order is one whose row says so, and then maps each action to an action of `OrderIntents` or to a
stutter.

The last part says what the rows tell of the orders. `Planned` is what `step()` knows of its order
while it goes on with it: it targets a code of the manifest, and away from the partial route its row
was blank. With it the ledger needs one lemma, that a row is never changed but by `RecordIntent`, its
outcome or a reconciliation (`RowsStep`, `RowStays`), and one sum that grows by one order. The partial
route records an id again, and the `UPDATE` that does so writes the quantity and not the side
(`core.py:1829`). `RowDescribesOrder` says what a row is worth then: its quantity is the order's, and its
side is too unless `turned`, a history field of the row, says that the last `UPDATE` was made for the
other side. The row in hand describes the order in hand so (`Held`), whatever the manifests are. What
needs one-sided plans is the count of attempts, which goes by the side of the rows: under `OneSided`,
a hypothesis about the manifests, every row has the side of its signal's plans (`Sided`). It holds of the
manifests `BestBroker` writes on the automatic route but for a code whose SELL was deferred
(`NoReversal`); section 7 says what becomes of the others.
`RetriesStayWithin` follows a chain of attempts: every sent retry has a first
attempt at the broker (`Rooted`), and what the chain may still fill and the retry that is planned, in
hand or on its way are together within it (`Capped`). The broker's own steps never raise what an order
may have filled in the end (`MostFalls`); an accepted request adds what `Capped` had left room for
(`FitsAccepted`); and a fresh plan counts exactly the chain, because by then every attempt is settled
and its recorded fill is the broker's (`PlanCounts`).

**`PaperBook_proofs`.** `IInv` says why a batch can be resumed: each recorded fill is of a
processed code, or has a number below the count its automatic batch keeps; an attempt in progress
has computed a batch that still records all of them, and fills that are fresh; a worker exists and
the session is open while it does. `LInv` follows the money: the committed ledger is its start and the
committed fills, the attempt in progress is the ledger and the fills it has computed, with no cash
below zero, each code of a batch has fills of one direction and on the automatic route none past its
target, and the book a close has valued is the book of that close until the next day trades.

**`Sums`.** The community module defines a sum over a finite set by choosing one element after
another. That the order does not matter, what one element more or less does, and that sums are
monotone is proved by well-founded induction on the subsets of one finite set, where the induction
hypothesis is a set of subsets and no operator is needed as a parameter (`SetInduction`). The same
induction shows that the function behind any such fold exists (`FoldExists`).

**`SharedHost_proofs`.** `WorkerLease`: a running heavy child owns the slot, a lost tree is published
or about to be, and there is at most one owner or lost tree; the re-check after a release is what
restores the slot. `PrerequisiteStore`, as the instance `Store`: `StoreInv` holds however many runs
race, what a run has staged is of its source (`OwnFiles`) and whole before the target is touched
(`StagedIsWhole`). No lock keeps two refreshes apart, so a run may take away a valid bundle, and the
theorems say exactly when: two history variables name the runs that another one has overtaken, by
publishing the target they are replacing, and the bundles a run has been robbed of. `Knowledge` is what a
run under way knows whatever the others do: unless it was overtaken it moves only an invalid bundle
(`OnlyInvalid`), and what it has resolved (`GotIsSafe`) or promoted first (`FirstIsSafe`) is valid or was
taken away since. A refresh on its own is never overtaken, however the one before it ended.

**`ForwardShadow_proofs`.** The attempts of live runs differ, a lock names its holder, so under the
lock of a date a process is alone; at each place it is known what its stage and the date's
transactions can be. `OneRun` adds that the outputs staged so far by the run in hand carry its own
number, `Answered` that an answer was true when it was given and that commits are not taken back.
The refinement `RunnerKeepsCalendar` needs all of it: the lock leaves the publisher alone with a free
date, the transaction it marks is its own and the only one of the date, the outputs in it bear one
number, and a run that has answered goes nowhere but to its release. `NotDry` adds that a dry run
never reaches `commit()`.

**`ResearchRegistry_proofs`.** The lock file excludes writers as long as a person removes it only
when nobody is inside; every id is its parent and one content, so a snapshot with a line in the log
is never the one a later writer creates; the pointer is the last line or the one before, and a
reader's target was on the chain it validated. `EntitiesStayFinal` is about what the operations of a
patch do to a content. `Follows` says that a later content may follow an earlier one; it is reflexive
and transitive, one allowed operation keeps it (`AppliedIs`), and so does a fold over any sequence of
them: among the sets of operations that give anything else there would be a smallest one, which has a
last operation (`GivenAll`). Under the lock the new content is appended to the present history, each
of whose contents may follow every one before it (`FinalAppend`). The refinement
(`RegistryIsOneHistory`) maps `AppendEvent` to `Commit`, what gives a writer a patch or takes it away
to `Draft`, `ReadHead` and `ReadChain` to a reader's question and answer, and the rest to stutters;
that the writer's base is the whole history when its line is written is what the lock and the test
under it are for.

**`BestExecution_proofs`.** The hard part is what a stored state means, since a tick may write several
and die after any of them. `Sound` says it of one state: it is of the present signal, carries the
quantities first resolved for its BUYs, and is either a BUY, or the first SELL of the signal, before
anything was bought, or a detour, which sells deferred codes only and keeps a sound BUY to come back
to. On the automatic route every code with a SELL order has its resolved target in it (`Marked`):
a SELL resolves its target before the order is sent, and no write of a tick loses one, the kept BUY of
a detour included. `Aims` says of the manifest in hand that a BUY never goes past the first quantity
and, on the automatic route, leaves out every code with a resolved SELL target. Section 1 of the module
computes what one phase resolves (`BasisIs`, `StandingIs`, `OutcomeIs`), section 2 that every state a
tick may write is sound (`BuyWritten`, `SellWritten`, `TurnIs`), section 3 has one step per action. A code whose
SELL was deferred is in `late` from then on; its mark can be lost (section 7), which is where the
exception in `NoReversal` is needed.

`SellsFinishFirst` needs what the fills add up to. `SellInv` says, on the automatic route, that as long
as the SELL orders of a code have filled less than the first one was for, the stored state is one of the
SELL phase, has the resolved target of the code, and what is left is the way from the shares to that
target (`Owing`); that the manifest and the order in flight are for just that (`Aimed`,
`PendingSell`); and that a code whose SELL is finished filled its last order, so it is not retried
(`FinishedSell`). A SELL resolved again keeps the targets it began with (`ResolvedSell`), and
`_tick_partial` goes on to the BUY only when no share is above a target, which is when nothing is left
(`TurnFinishes`).

`NothingForgotten` needs what each stored state knows of the plan (`ForgetInv`). A BUY state, the one a
detour keeps included, is `Kept`: only codes of the plan have a quantity; a processed code has one or a
resolved SELL; what was bought or needed no order is held; no code with a deferred SELL has a
quantity; and, on the partial route, whatever is held outside the plan is among the deferred SELLs. Each of
these but for codes with an order that ended short (`FellShort`) or, for the holdings, that is pending.
A SELL state (`SellKept`) covers every code, or those the interrupted BUY had deferred. What a SELL
skips had an order that ended short or no quote, so it is handed to the BUY as a row of a code that the
BUY cannot decide with the same snapshot (`DeferredRows`); and a BUY that skips nothing and has no target
left has processed the plan (`KeptIsComplete`). `Goes` and `Leads` follow a quantity through the
manifest and the order in flight, whose settlement either reaches it or leaves the order short. That
the retried BUY may go for less (`Retarget`) needs no care of its own: its code has a failed order.

**`Maintenance_proofs`.** A thread inside an operation finds the record active and marked, and no
other thread is inside (`Exclusive`). A step that changes no place into one inside and keeps the
mark keeps this (`Moves`); an operation is entered where the record is not active (`Begin`) or
not marked (`Prepare`, `Charts`, `End`); the mark is taken away only by the thread that leaves.
`QInv` adds what a drained lease has found:
a worker passes its gate only without an active lease, so from the step that finds a lease drained
(`rec.drained`, a history field of the record) until it is finished no tick is past its gate, and the
phases before the charts' exit, the chart job and the places in between are reached only then. The
phase after that exit is left out: the exit of a job requested without a lease may set it on a record
of any phase. `FInv` adds who clears a stop event: only a start does, the user's, which `over`
records, or the restore, which is inside an operation and so excludes the end that failed (`Alone`);
hence what the nested stop of a failed end has reached stays (`Reached`). `UInv` joins both with the
places each call goes through (`Ends`): once a stop has taken away the lease's right to restore
(`Revoke`), the record can only lose it, and either the owners are stopped or a restore is under way
that will find itself revoked and stop them again (`Won`). Only the exit of a job requested
without a lease gives the right back, to a finished lease (section 7, `FinishedIsFinal`): `Reopens` names that
step, and what was stopped before it is not promised any more. `JInv` follows the chart
job: a leased job runs under an active lease that nobody is ending (`Ended`), and once the lease is
revoked a call is on its way that cancels the job before it returns (`Owned`). A job requested without
a lease is registered only while the cohort's event is clear; a stop that met no start finds or leaves
it set, and nobody can clear it but the restore of a lease. A request and an end keep apart
(`Apart`): the end waits for the lock under which the job is registered, and the request refuses an
active lease; so after such a stop no job without a lease is there (`Gone`), as long as `Reopens` has
not happened since. The theorems of this module hold for any mix of calls.

**Only model-checked.** Every safety property of the passing runs is proved. Liveness under fairness (`RunnerStops`, `DrainEnds`, `EventuallyEnsured`, `QuarantineIsolates`) is
beyond the prover.

## 6. Findings

`order_lost_stop`: `stop()` and `halt()` are made to work without the lock, so that
"an in-flight SDK call cannot hide a stop request" (`core.py:246`). `start()` holds the lock
while its preview is on the network and then clears `stop_event` (`core.py:1945`). A `stop()`
raised during the preview is lost: the runner starts, its first step clears `cancel_step`
(`core.py:1796`) and it sends orders. A `halt()` in the same window is not lost, since
`halt_event` stays up. `StopHonoured` is therefore stated of stops asked when a step or the
runner is at work.

`best_leak`: on the automatic route `_partial_execution` takes `resolved_sell_targets` from the
stored `best_execution` before it compares its signal date (`best_broker.py:4550`), and a new
signal resets nothing. A code reduced to one share for one signal and dropped from the next plan
gets its old target back, is found processed, and the second signal ends as executed with the share
still held. Calling `_partial_execution` of the repository on such a state gives the same: a
holding of nine shares of a code whose weight wants one is reported as `EXECUTED`.

## 7. Disagreements seen without a run

Each of these was met while modelling; the definition that states the promise is in its module
and no run checks it.

- `FinishedIsFinal`: `maintenance_status` takes the exit code of any chart job, also of one that was
  requested without a lease, so a finished lease can become `CHARTS_FINISHED` again
  (`cohort.py:2107`), over a tick that is running, and is then active: it blocks the owners until it is
  ended once more, and that end restores what the finished lease had found running, although the user
  may have stopped it since. One thread is enough for a chart job after a stop: the exit of a job, the
  second end, the next request. In the same way such a job's exit gives a lease that is still guarding
  or draining the phase `CHARTS_FINISHED` before it is drained. `UserStopWins` and `NoStrayJob` begin anew
  at a reopening, and `QuietInMaintenance` leaves that phase out.
- `StopIsNotWiped`: a start that passed its tests clears the event of a stop that came since. The
  comment at `cohort.py:2265` wants the stop to win; it does against the restore (`UserStopWins`), not
  against an ordinary start that was under way.
- A broker start that was connecting while a lease began clears the event the lease had set
  (`BrokerClears`): with such calls a lease may never be drained, so `maint_jobs` has none.
- A broker stop cancels a lease but not the chart job that the lease started; only the next status
  call or stop of the cohort does.
- `PollIsProof`: a light metadata call may publish the quarantine between the two reads of `poll()`.
- "Never replace a valid protected asset" (`prerequisite_lifecycle.py:75`): two refreshes at once both
  promote the same missing bundle, and the slower one removes what the faster one has just published
  (`prerequisite_lifecycle.py:78`). `ValidIsKept` says that nobody but such an overtaken run does, and
  `EventuallyEnsured` that both bundles come back each time; that they stay is not so.
- `ChainIsSound`: dates that are run out of their order, or two dates at once, give a manifest a
  predecessor that is not the one of the date before (`protocol.py:179`).
- A stage left by another identity of the same date blocks that date until a person removes it.
- The registry refuses every command after a crash between event and pointer
  (`EVENT_CHAIN_HEAD_MISMATCH`), after an orphan snapshot of the same patch, and behind the lock file of
  a dead process: nothing in the program repairs these.
- A row that is recorded again keeps the side it was first written with (`core.py:1829` updates the
  quantity and not the side): an unsent SELL that a later plan of the same signal wants as a BUY is
  sent as a BUY and kept as a SELL, which the next count of attempts takes at its word.
  `RowDescribesOrder` marks such a row as `turned` and says that nothing else parts a row from its
  order. It takes a partial plan that is not automatic and a quote at which it turns.
- On the automatic route a deferred SELL that is worked on in a detour loses its resolved target when
  the BUY state comes back, so its code can be sold and bought again for the same signal, against
  the comment at `best_broker.py:4704`. `NoReversal` therefore leaves out the codes in `late`.
- A retried BUY that the cash or the price cuts further counts as processed (`best_broker.py:4751`), and so
  does an order the broker deleted or disabled: the day ends as executed, short of its target.
  `NothingForgotten` allows for both.

## 8. Not modelled

- The daily pipeline (`scripts/daily_recommendation.py`) and the fitting journal: planned, see below.
- `BestBroker`'s reset, catch-up and one-time permissions, `reprice`, quote and account parsing.
- The HTTP server's handlers map one to one to the operator's and the client's calls; sessions,
  validation of requests, import of strategy files and presentation hold no protocol.
- The research code, FAST3, FAST6 and the versions 16 to 22 are batch computations and frozen records,
  by far the largest part of the repository by lines: sequential, without shared state, and what they
  compute is data to every model here. Storage tools are one-shot moves run by hand.
- Numbers as the code holds them: prices, weights and money are decimals; only `PaperBook`
  counts money.

## 9. Plan

Done: `OrderEngine`, `OrderIntents`, `PaperBook`, `WorkerLease`, `Maintenance`, `PrerequisiteStore`,
`ForwardShadow`, `ShadowCalendar`, `ResearchRegistry`, `ResearchHistory`, `BestExecution`, and the eight proof modules.

Next, in this order:

1. Proofs: an abstract lease that `Maintenance` implements.
2. `BestExecution`: the full-liquidation reset with its persisted stages, and the catch-up permission.
3. `Reprice`: `MoomooBroker.reprice` against fills and cancels of the account.
4. `DailyRun`: the stage files of the daily pipeline and their recovery.
5. `RiskJournal`: fit slots, begin, enter, finish and block_remaining over crashes.
