# Verification of thytrader

thytrader trades a Coinbase account from strategies: several long-running
processes share one PostgreSQL database, and every one of them reads a row in
one transaction and writes it in another. What can go wrong is seldom inside
one function. It is a stale copy written back, a pass that outlived its lease,
a create whose answer was lost, a fill listed after the order was thought
finished. This directory models those parts in TLA+, checks them with TLC on
small instances and proves the central facts with TLAPS for every instance.

Paths below are relative to `src/src/thytrader/`.

## 1. The system

| Part | State | Operations | Talks to |
|---|---|---|---|
| Execution worker (`execution_worker/`) | the pass in memory; a lease on each book | every cycle, for every running, paused or stopped book: lease it, fence its revision, reconcile orders, decide on closed bars, protect positions, pause or resume | deployments and orders (SQL), Coinbase (REST) |
| Deployments row, `RevisionFencedStore`, `InstrumentScopedStore` (`persistence/postgres_execution*.py`, `execution/leases.py`, `trading/overlay.py`) | status, cash, latches, pending levels, lease holder and expiry, revision | save with or without an expected revision, lease, breaker pause, fill transaction, funding transaction, intent | every writer below |
| Orders, fills, positions (`execution/submit.py`, `reconcile*.py`, `runtime_ops.py`, `trading/fill_ledger.py`) | order rows, fill rows with `economics_applied_at`, positions | submit, reconcile walk, cancel, settle, project a fill | Coinbase |
| API requests (`api/`, `execution/service.py`, `execution/discretionary.py`) | nothing between requests | pause, resume, stop, reset latches, place a discretionary order (and walk its book when the outcome is unknown) | the rows, Coinbase |
| Fleet control (`fleet_control/`) | an operation with receipts per idempotency key, the entry latch of each mode | preview, disarm, rearm, stop or flatten the confirmed books, resume or replay a key | deployments rows, intents |
| Entry admission and adoption (`persistence/postgres_adoption.py`, `postgres_inventory_lock.py`, `postgres_fleet_admission.py`, `trading/inventory_claims.py`) | the base lock, the latch row, the claims of every live book | start a book, insert an entry intent, adopt units the account holds | deployments, intents, Coinbase balances |
| Protection and exits (`execution/live_protection.py`, `exits.py`, `exit_guards.py`, `stopped.py`, `residual.py`) | the position's stop and pending exit, rejection runs | protect, replace, exit, flatten, managed shutdown | orders, Coinbase |
| Portfolio supervisor (`execution_worker/portfolio_supervisor.py`) | sleeves and allocations | pause sleeves, sync allocations | deployments rows |
| Research queue (`persistence/postgres_research_queue.py`, `..._research_jobs.py`, `..._portfolio_jobs.py`) | job rows: status, lease, attempts, cancel flag | create, claim, renew, sweep, release, requeue a lineage, cancel, expire, record | worker pool, API |
| Research worker pool (`research_worker/`) | processes in slots, a heartbeat thread each | spawn, recover the predecessor's rows, claim, run, report, exit | the queue |
| Market data service and worker (`market_data*/`) | candles, datasets, retention, windows | ingest, publish, retain, read windows | execution and research |
| Risk (`risk/`) | policy, day-open evidence, latches | admit an entry, trip a breaker | execution |
| Alerts, strategies, agent desk, operator, chat, memory, credentials | their own tables | create, acknowledge, resolve, deliver; snapshot; session | API |
| Backtest, evaluation, replay (`backtest/`, `evaluation/`, `replay/`) | none | deterministic computation | research |

What makes each part correct, and what is hard about it:

* **The deployments row.** No write is lost, each fill and funding hour is in
  cash once, a stop is final, only the lease's owner records intents. Hard: all
  mutable columns are rewritten from an earlier read, lease columns included;
  leases run out in the middle of a pass; a clean stop clears the lease without
  moving the revision.
* **Orders.** No execution is forgotten or booked twice, a working bracket is
  always tracked, an exit is not booked before its entry, a walk that could not
  read leaves the book paused. Hard: unknown outcomes, listings that lag, cancels
  that race with fills, crashes between two rows, a request and the worker on
  the same book.
* **The research queue.** One attempt at a time, bounded attempts, a stale
  attempt never records, a cancel is not forgotten, orphans are recovered. Hard:
  leases, lost claim answers, check-then-write in two transactions.
* **Fleet control.** A retried request does what is left and nothing twice, its
  receipts say exactly what was done, a finished operation never changes. Hard:
  requests abandoned between two book transactions, two instances serving one
  key, a commit whose answer is lost, a lost session that takes the lock with it.
* **Entry admission and adoption.** No start, entry or strategy adoption is admitted
  past a set latch (a discretionary adoption, which only protects or sells what is
  held, is meant to work under it), no unit
  of the account is owned by two books, nobody waits in a circle. Hard: an
  adoption reads orders, positions and the balance one after the other while
  entries execute and are booked.
* **Protection and exits.** No unit is offered twice, a book that looks flat is
  flat, a pass leaves protection or a recorded fault, a flatten ends. Hard:
  cancels that race with executions, fills listed late, executions that show only
  after the read that found the order canceled, lost answers, crashes
  around a create, commands in the middle of a pass.
* **Alerts, datasets** (not modelled): an alert resolved while it is delivered, a
  dataset retired while it is read.

`PROJECT.json` lists every component with its status, and the hazards at the
line where they bite.

## 2. Modules

Each component has a module; its theorems are in a module of the same name with
`Proofs` appended. Two of them are split: `WalkProofs` extends `OrderReconcileProofs`
with what holds while processes take a book in turn, `InventoryProofs` extends
`EntryAdmissionProofs` with the sums over books.

### AtomicBook, the abstract book
Status, latch and cash, each step one indivisible read-modify-write: movements
are booked once, a stop is final, only the operator's reset clears a latch.

### WorkerLease, one deployments row and everyone who writes it
`row` is the row; `snap`/`fence` what a pass read and the revision its
`RevisionFencedStore` expects; `seen` what a request read; `ledger` the stamps
of applied fills and recorded funding hours. One action per operation:
`AcquireLease`, `BeginPass`, `Reload`, `SaveDeployment` (through the fence or
with the copy's own revision, as the scoped store does), `BreakerPause`,
`ApplyFill`, `ApplyFunding`, `SaveIntent`, `EndPass`, `StopWorker`, `Crash` for
workers; `Read`, then `SetStatus`, `ResetLatches`, `PauseSleeve`, `FleetStop`,
`PausePeer`, `SyncAllocation` or `Abandon` for requests and supervisors. Time is
relative: `left` counts down to the lease's expiry on the row and on every copy.
Cash is a counter per movement, so a lost or doubled booking shows.

The writers of this module compute from the copy whose revision they compare.
Two writes of the code do not, and the results about WorkerLease do not extend to
them: the status a reconcile walk restores (taken before its fills moved the
fence) and a discretionary request's saves without an expected revision.
OrderReconcile models both; see the findings.

### ResearchQueue, both job tables and the worker pool
`row` holds the job rows; `phase`, `job`, `lineage` the processes; `asked`,
`read` the API's cancel between its read and its write; `claimer` and `recorder`
are history variables. A research outcome is one UPDATE fenced on
the lease (`RecordOutcome`); a portfolio outcome is checked in one action
(`RequireLease`) and written in another (`CompletePortfolio`, `FailPortfolio`),
after which `ClearLease` follows. Every error path of the process is there:
`ClaimLost` (committed, answer lost), `LeaseLost`, `CompleteRefused`, `Escape`
(an exception that leaves the job to the sweep), `Release`, `Crash`. The
heartbeat thread (`Renew`, `RequeueExpired`, `ExpireStale`) is concurrent with
the main one, as in the code.

### OrderReconcile, one live book and its entry order
The venue (`venue`, `earlier`: external, modelled from the broker's answers), the
order rows (`row`), applied fills (`applied`), the book (`book`, `pos`), and per
process a program counter and its locals (`mem`). Fills come in units: fill *k*
of an order is its *k*-th executed unit, a listing shows the first `shown` of
them. `seen` and `fence` say whether a process's copy, and its fence, still are
the row's revision: all the code ever asks of revisions is equality.

A walk follows `reconcile_open_orders`: `BeginWalk`, `Open`; list every watched
order (`List`, `Plan`), apply new fills by execution time when two orders have
some (`ApplyListed`, `EndApply`); one turn per order (`Skip`, `NotFound`,
`ReadFailed`, `Read`, `Save`, `FillsFailed`, `Ingest`, `Close`, `Settle`,
`Fault`); after each, the supervision (`Judge`, `Retain`); import a child that
has no row (`Import`, `Rejoin`), clear a disproved read fault (`Finish`). Submits
(`Submit`, `PlaceOk`, `PlacePending`, `PlaceRejected`, `PlaceError`, `Attach`,
`AfterPlace`) are a worker's or a request's; a request with an unknown outcome
walks and then judges its order (`AfterWalk`, `NoLocalFill`). `Cancel`,
`ConfirmCancel`, `Command`, `Crash` complete it. The three stores a save may go
through are three guards: `Accepts` with the fence, `Accepts` for a pass on a
product's scoped store, and none for a request; inside an order's turn it is
always `ScopedAccepts`.

The settlement delay is an assumption about the venue, and the model states it
as one: `Tick` does not let `SettleDelay` pass after a cancel until what the
order executed is listed.

### FleetControl, idempotent fleet commands
`ops` holds the operation of each key with its receipts; `latch` and `row` what
commands change; `guard` the key's advisory lock, `rowLock` the `FOR UPDATE`
locks of the mode rows; `req` and `mem` a request and its copy of the operation;
`sent` and `written` are history, what each key really wrote. A request is what a
preview showed (`Previewed`) or a repetition under its key (`Repeated`). After
`Acquire` it answers a finished key (`Answer`), resumes (`Resume`) or inserts
(`InsertPending`), then writes the latch (`LockMode`, `ApplyLatch`,
`LatchConflict`, `LatchReplayed`) or commands one book at a time (`RecordTarget`;
on an error `RecordFails` or `SessionDropped`, `Reread`, `SaveFailed`), looks for
books nobody confirmed (`Survey`) and finishes. `Abandon` ends a request between
any two transactions. Running and paused books are one state, because a fleet
command treats them alike.

### EntryAdmission, the transactions that add risk on one base
Starts, entry intents and adoptions as transactions with a plan of steps
(`Plan`): base lock, reads, latch row, write. `shared`/`excl` is the advisory
lock of the base, `rowLock` the lock on the latch row. An adoption reads one book
and one table at a time (`ReadOrders`, `ReadPositions`), then the venue balance,
and judges the quantity on what it read. Around it every book's entry travels to
the venue, executes and is booked (the detail is in OrderReconcile) and exits
sell. Quantities are units; an entry buys one. An adoption goes to a book that exists
(`adopt`), starts one for a strategy, which asks the latch (`adopt_start`), or starts
a discretionary one, which does not (`adopt_new`, `respect_entry_latch` left false).
The book of a discretionary sell is stopped from the beginning; that it may enter
afterwards like any other is more than the code does.

### LiveProtection, a live spot book that holds a long position
The worker's pass step by step over the sell orders of the book: the entry's attached
child, the book's own protective order, the marketable exit, and the orders that a
read found canceled (`past`). `wk` is the pass
(its place, the orders still to read or cancel, whether a command made its fence
stale, the status and detail its walk began with), `row` the order rows, `ven` the
orders at the venue, `rej` and `backoff`
the run of identical rejections. A pass walks (`OpenWalk`, `ReadOrder`, `ReadFails`,
`NotFound`, `EndWalk`; after each turn `Turn` keeps the status the walk began with and
its first fault, as `_retain_reconcile_supervision` does), decides (`Manage`, `NewBar`,
the `Flatten` actions,
`NoPrice`), adopts a child, protects (`Protect`, `CancelProtection`,
`AfterCancel`, `Resized`) or exits (`BeginExit`, `CancelResting`, `Canceled`,
`Sell`, `ApplyExitFill`), creates (`Take`, `Reject`, `NotSent`, `Answer`,
`Reply`) and settles (`Cleared`, `FinalWalk`, `Settle`). The account holds
`Spare` units of its own, without which the venue's balance check would hide
every oversell.

A cancel acknowledgement does not say that all executions are visible
(`reconcile.py:642-646`). At the venue an order has what it executed (`done`), what
reads of it report (`shown`) and what its fills cover (`listed`), and a cancel may
hide some of the first from the others (`Cancels`) until `VenueLists`. A canceled
order is therefore read in every walk until `_settle_canceled` ends that (`Kept`);
meanwhile the next order may be placed. All canceled orders are kept as one, with
the units that are not booked of them: what tells them apart no longer matters, and
their number is unbounded. As in OrderReconcile, the settlement delay is an
assumption about the venue: an order settles only when everything it executed is
listed. Late executions that were sold a second time by a later order overdraw the
position; booking them pauses the book (`Overdrawn`) and leaves fills that no
position explains (`pos.over`, `unprojected_inventory_products`), with which the book
places and cancels nothing any more.

Simplifications: an order's turn in the walk is one step, and the fills of two orders
are booked in the order of the turns; a second reconcile or settle that directly
repeats the first is merged with it; levels of canceled orders are not kept, so an
unreadable one may or may not look like protection.

## 3. Runs

Passing runs:

| Run | Shows | Instance |
|---|---|---|
| `worker_lease` | TypeOK, EconomicsOnce, HolderIsLastAcquirer, CopiesCoherent, FencedIntents, OtherPausesKept; WorkerLease implements AtomicBook; a crashed worker's lease passes to a live one | 2 workers, 1 writer, 1 fill, 1 funding hour, TTL 1, 4 writes, fair |
| `research_queue` | TypeOK; stale attempts never record, bounded attempts, cancels not forgotten, live leases kept; every job leaves queued and running | 3 tokens, 2 slots, 1 job, 1 cancel, 2 attempts, fair |
| `portfolio_queue` | an ended portfolio job stays ended; a dead process's row is taken back before the job's day is over | 3 tokens, 2 slots, 1 job, 2 attempts, fair |
| `order_reconcile` | TypeOK, BracketTracked, WalkFailsClosed; every execution is booked in the end | entry with bracket, 1 failure, 1 crash, fair |
| `partial_fills` | NothingLost, BookedOnce, PositionHonest, OnlyOperatorResumes | plain entry of 2 units, delay 2, 2 failures, 1 command, 1 crash |
| `request_race` | NothingLost and NeverTwice with a request on the same book | 1 worker on a scoped store, 1 request, 1 failure |
| `fleet_control` | TypeOK, EffectsReceipted, ReceiptsHonest, AcceptedWhileGuarded, FinalIsFinal | 2 API processes on 1 key, a paper book and a live book still to start, disarm and managed stop, 1 foreign save, 1 lost session |
| `entry_admission` | TypeOK, NothingTwiceOwned, NoDeadlock, DisarmHolds | 2 books, one still to start, 1 entering task, 1 adoption, 1 external unit, 1 late cancel |
| `live_protection` | TypeOK, NeverOversold, FlatIsFlat, PassProtects; a flatten ends flat and stopped | 2 units, 1 spare, 2 stop levels, 2 identical rejections, 1 command, 1 fault or cancel that hides executions, fair |

Violated runs, one for each finding of section 4: `stopped_revived`,
`child_before_entry`, `fill_erased_by_request`.

Why these bounds. A lost update needs a read, a foreign write and a write: two
actors. A stale lease needs an acquirer, an expiry and a second acquirer, and the
worst case a third process, hence three tokens in the queue. Four writes let each
actor write, be overtaken and write again. One fill and one funding hour are
enough for double booking because each is counted apart, and the proofs remove
the bound altogether. For orders, two units give partial fills and a listing
strictly between nothing and all; a delay of two ticks lets a read fall before,
inside and after it; two failures allow a failed read followed by a failed
listing. With a bracket the quantity is one: entry and child already interleave
in every order. Fleet receipts
need two processes on one key, a foreign save to make a revision stale, and one
lost session; an adoption is endangered by one entry and one exit in flight. In
LiveProtection two units give partial executions, and one fault of any kind (a
failed call, a venue rejection, a missing price, a crash) or one cancel that hides an
execution falls at every possible place, together with one command; the proofs cover
any number of both. Other instances were run once: two adoptions (10.2 million states)
or two entering tasks (11.8 million) for `entry_admission`, two keys for
`fleet_control`, and for `live_protection` the safety properties with two faults (5.4
million) and with three units (4.3 million), and the flatten with two faults and no
spare unit (1.5 million), where a hidden execution makes the venue refuse the exit.
`MaxFailures`, `MaxFaults`, `MaxCommands`, `MaxCrashes`, `MaxRevision`,
`MaxIntents`, `MaxSaves`, `MaxDrops`, `MaxLate` and `MaxStop` are the only bounds
on otherwise unbounded behaviour.

Deadlock is checked for WorkerLease, FleetControl, EntryAdmission and
LiveProtection. The queue and the order model may really
stop (tokens are used up; every order is over and nobody has anything to do), so
their configurations switch the check off.

Fairness. The worker's cycle visits every book each interval and catches errors
per book, venue calls have timeouts: acquiring, beginning, continuing and ending
a pass are fair, and beginning a walk strongly so, because a pass that is
overtaken by other work of the same worker comes round again. Time passes; the
supervisor respawns; a heartbeat beats while its process lives; the venue answers
creates and publishes executions. Nothing is assumed to save, submit, cancel,
fill, request, renew, finish a job or crash. In LiveProtection the worker takes
its next step or begins its next pass, a back-off ends, and the venue finishes an
order whose cancel it accepted or that is marketable, and lists what it executed,
also what a cancel hid; a resting bracket need never execute. FlattenSettles names
what waits for an operator by design: a create the venue does not know, an exit
rejected `MAX_IDENTICAL_REJECTIONS` times, and units sold beside ones that could not
be seen, which overdraw the book.

## 4. Findings

Each is a run that must be violated; `PROJECT.json` quotes the line that says
otherwise.

1. `stopped_revived`: a stop given during a walk that began on a paused book is
   written back to paused, once a fill has moved the fence.
2. `child_before_entry`: an entry recovered by client id is not linked to its
   bracket in the pass's plan; the bracket's sell is booked on a flat book and
   opens a short.
3. `fill_erased_by_request`: a discretionary request's pause writes back the cash
   it read before the worker booked the fill.

Two more disagreements are visible in the models, without a run of their own. A
cancel that read a research job as running writes after the job completed, and the
job ends cancelled, although `postgres_research_jobs.py:253` says that completed
jobs cannot be cancelled (`CancelRead`, `CancelWrite` of ResearchQueue). A
discretionary request's late order write erases the child id the worker recovered
meanwhile, and the bracket is never tracked (BracketTracked is therefore checked
without a request).

Limits of the design, which the properties state around.
A NULL holder passes the intent fence, so a pass that outlived its lease may record
an intent once the worker that took the book has stopped cleanly (FencedIntents
says exactly what the fence does give). A clean stop does not move the revision, so
a save computed before it restores the stopped worker's unexpired lease. A stale
portfolio attempt's failure, checked in one transaction and written in another, may
overwrite its successor's completion (PortfolioSettled says what survives: the job
does not run again). The guard of a fleet key is a lock of one database session; when
that session is lost in a book command, the request goes on over a new connection
without it, and a second request may save over its receipts: EffectsReceipted,
AcceptedWhileGuarded and FinalIsFinal are stated for behaviours without a lost
session, ReceiptsHonest for all. A cancel read before the execution that preceded it
hides a unit from an adoption (NothingTwiceOwned excludes it by `late`). The one read
that would reveal an attached child may fail, and the pass goes on without it; with
other units in the account a second sell then rests beside the child. In the same way
a replacement bracket or an exit is sized on the position as booked, and when the
canceled order before it executed more than its reads have shown, those units are
offered twice. The code does not wait for the settlement delay before it places the
next order; it detects the oversell when the late fill is booked. NeverOversold
excludes exactly the behaviours in which an order was placed at such a moment
(`blind`), and FlatIsFlat the states in which something is still hidden (`Hidden`);
FlatIsFlat does cover what follows, since an overdrawn book is not idle.

## 5. Proofs

Checked by TLAPS for every value of the constants. With them every invariant, every
action property and the refinement of the passing runs is proved; what remains with
TLC is named at the end. The proofs start from the named assumptions of the modules:
`LeaseAssumption`, `QueueAssumption`, `ReconcileAssumption`, `FleetAssumption`,
`AdmissionAssumption`, `ProtectionAssumption`. They say that the sentinels are not
processes, books or jobs, that kinds of processes, entries, jobs or books are
disjoint, that delays, limits and quantities are natural numbers (positive where zero
has no meaning) and, for sums over books, that the books are finitely many.
TLC evaluates them on every run. Each inductive invariant was checked by TLC on the
run's instance before it was proved.

**WorkerLeaseProofs.** The inductive invariant is TypeOK, EconomicsOnce,
HolderIsLastAcquirer and CopiesCoherent. EconomicsOnce and HolderIsLastAcquirer do not stand
alone: a save writes what was read earlier, so one has to know what every copy may still
contain. CopiesCoherent says so: a copy is never newer than the row, and one of
the row's revision agrees with it on all columns but the lease's. Every write
moves the revision, which makes all existing copies older (`WriteKeepsCopies`); a
read makes a copy equal (`ReadKeepsCopies`). From the invariant follow
`TypeCorrect`, `EconomicsBookedOnce`, `RevisionsNameVersions`,
`HolderNeverRegresses`, the action properties `IntentsFenced` and `OtherPausesStay`
(the pause reason a save judged is the stored one, because its copy is of the row's
revision), and the refinement `RowImplementsAtomicBook`: each action maps to one step
of AtomicBook or to a stutter (`WorkerStepBook`, `WriterStepBook`).

**ResearchQueueProofs.** Every statement rewrites rows one by one, so the
invariant is stated per row: `RowOK` relates a row to its last claimer and last
recorder. What makes it inductive is the clause that a recorded row may only run
again to be cancelled (the racing cancel of section 4 does that), so it is never
claimed again. With `SlotsExclusive`, one live process per slot, and `PhasesOK`,
which ties a process's phase to the kind of its job, it yields `TypeCorrect`, `OutcomesFenced`,
`AttemptsLimited`, `CancelsSurvive`, and the action properties `LiveLeasesKept`
and `PortfolioStaysSettled`. Each way of rewriting a row is a lemma.

**OrderReconcileProofs.** `Invariance` says what rows, copies and locals may hold
while venue and processes go on: nothing a process knows is ahead of the venue
(`RowOK` of the stored rows and of the rows in its memory), the counts it keeps of
known, listed and booked units are bounded by the applied ones or by the listing, and
a read after the settlement delay reports every executed unit. So a row closed on such
a read has booked everything (`NoExecutionLost`), whatever interleaves, and the cash
never holds more than was applied (`NoFillTwice`); both hold with any number of
workers and requests. The second part is about behaviours in which every writer of
the book compares the revision, that is without requests (`Tickets = {}`): a copy
whose revision is the row's is the row (`Fresh`). The lemma `Effect` sorts the steps
by what they do to the book: keep its cash, book one unit, submit, or carry out a
command. Over these, cash is what was applied and the position is missing or what
the applied units leave (`Kept`); a stored stop waits for the first unit, so only
the first can open a position. `CashExact`, `PositionNoticed` and the action property
`OnlyResumedByOperator` follow. The hypothesis is needed: a request's saves carry no
expected revision, and `fill_erased_by_request` shows the cash they lose.

**WalkProofs** adds what a walk knows while nobody works beside it. Its hypothesis is
`[]OneAtATime`, that processes take the book in turn, which is what the lease and a
pass shorter than it give; order rows carry no revision, so two walks at once may
write each other's rows back, and section 4 tells how a bracket is lost that way. The
invariant `Tracking` has three parts. The rows of the orders still to be visited are
the stored ones (`Current`). Before a unit of the entry is applied, its row names the
bracket or the bracket has a row (`Named`, `Naming`): Save writes the child id before
Ingest books, and fills are applied before the turns only once the bracket has a
row. When the walk imports or ends, nothing is left to visit and the
named bracket has a row (`Ending`). `BracketNeverLost` follows. `FailsClosed` needs
`Closing`: as long as no operator has commanded and the book runs, an order last read
as UNKNOWN is still to be visited (`Seeing`), and the position is what the applied
fills leave, since the only unit that moves them apart is one without a stop, which
faults the book. Every fault pauses it, and `StillUnpaused` shows that nothing else in
a walk sets it running. This theorem is about workers only (`Tickets = {}`).

**FleetControlProofs.** A command needs the book at its confirmed revision and moves it,
so a book that a key commanded is `Spent`: past every revision that key confirmed, and
no copy can command it again. With `ProcOK`, what a request remembers is no more than
what was written, and `KeyOK`, the latch counter of a key is what its operation
records, this is inductive even when sessions are lost (`Invariance`); from it follow
`TypeCorrect` and `Honest`. The exact receipts need the guard: while no session is lost
(`Guarded`), a request works alone on its key, its copy of the operation is the stored
one (`Clean`), and the books with a receipt are those written (`Exact`). That gives
`Receipts`, `Accepted` and the action property `FinalStays`.

**EntryAdmissionProofs.** DisarmHolds and NoDeadlock follow from one invariant,
`TxOK` of every transaction: it is at a step of its plan, and it holds exactly the
locks of the steps it has passed; past the latch step the latch is clear, because
`SetLatch` needs the same row lock; and an adoption that took its book for started
is right. `NothingPastTheLatch` reads DisarmHolds off the writes: the only book that
appears under a set latch is a discretionary adoption's, with its units in it.
`LocksNeverCircle` needs no induction on cycles: the holder of the latch row waits
for nothing and the holder of the base at most for the latch row.

**InventoryProofs.** NothingTwiceOwned is about sums over the books, `Total`. What a sum
does when one book changes is proved from its definition by smallest counterexample
(`SmallestBad`), the form of induction over finite sets that is within reach here. The
invariant says that what rests at the venue is in the account; that an adoption, which
reads one book after the other, has claims that cover what every book already read can
still come to own (`Reach`: its position, its entry on the way or executed and not yet
booked), or has met something it cannot resolve, in which case it adopts nothing; and
that a quantity judged to fit still fits when it is written, because under the
exclusive base lock no other intent or adoption is written and what the books own
grows no faster than the account. `NothingOwnedTwice` holds for behaviours without a
late cancel read, as the property says.

**LiveProtectionProofs.** The invariant is `OrderOK` (no row is ahead of the venue, and
one that says its order is over is right, although a canceled one may have executed
more than it shows), `WorkerOK` (what the pass relies on at each
step: a create is sent only when every other order is `Settled`, over and booked as
far as it is shown, for exactly the
position), `ExitSized`, `Covers` (the account covers every working order),
`Balanced`: position plus sold units is the
quantity plus what is executed and not booked, hidden executions included, until more
is booked than the position held; and, unless an order was placed beside hidden units
(`blind`), `Exposed`: the book is not overdrawn and what all orders may still take is
no more than the position. The balance does not need that condition, which is why
`FlatMeansFlat` holds also after a blind placement, as soon as nothing is hidden;
`NotOversold` needs it, because `Settled` orders are done only when nothing is hidden
(`SettledIsDone`).
`TypeCorrect` needs the invariant too, since a booking that took the position below
zero would leave its type. `PassesProtect` carries what the pass has asked for and
noted so far (`Asked`, `Ending`, `Noted`) to its end; a walk that starts with a detail
or finds a fault keeps it (`Tracks`), and drops a read fault only when no order is
unknown, so an order that was not confirmed stays on record (`OnRecord`).

**Only model-checked.** Liveness: CrashedLeaseTakenOver, JobsSettle, OrphansRecovered,
FillsLand, FlattenSettles; fairness and ENABLED are out of the prover's reach.
BracketTracked and WalkFailsClosed when two processes work on one book are outside the
theorems and outside the run, which has one worker. The three violated properties are
false by their runs.

## 6. What is not modelled

* Execution: indicator decisions, sizing, pyramid adds, futures, the paper broker,
  twin books, several products sharing one deployment.
* In LiveProtection: short positions, prices other than the level of the stop,
  phases shown to the operator, a second position while orders of the first are
  left, the request path (`execution/discretionary.py`) beside the worker.
* In EntryAdmission: short entries, several bases, minimum sizes, the venue's own
  holds other than exits. In FleetControl: the audit record and its retry, the
  copy of the latch in each process (a filter before the durable check), the
  in-memory stores used by tests.
* In OrderReconcile: fills larger than a unit (so no single fill that over-closes
  a position), prices and geometry, reject-reason markers, the replay of stored
  unapplied fills, more than one child, an accepted order that the venue later
  reports as failed, walks that start later in a pass under an older fence. The
  writes of a submit before the create (book, intent, pending row) are one step.
* `execution/service.py:146`, the unconditional save when a futures book's terms
  cannot be stored; `trading/fill_ledger.py:553-583`, the fallback for stores
  without fill transactions; clock skew between hosts.
* In ResearchQueue: slot records, respawn back-off, campaigns, starvation between
  the two queues (an endless supply of jobs).
* Arithmetic of indicators, sizing, fees and portfolios: sequential decimal
  computation with its own unit tests, out of a model checker's reach.
* HTTP, JSON, signing, sockets, logging, storage of notes and credentials: I/O.

## 7. Plan

Order of work, most important behaviour first; items 1 to 8 are done.

1. WorkerLease with AtomicBook, runs, proofs of invariants and refinement.
2. ResearchQueue, runs, proofs.
3. OrderReconcile, runs.
4. FleetControl: confirmation by revision, receipts, latches, retries.
5. EntryAdmission: latch and base lock against starts, entries and adoptions;
   proofs of DisarmHolds and NoDeadlock.
6. LiveProtection: protection, replacement, exits and flatten of a live book.
7. Proofs for FleetControl, LiveProtection and OrderReconcile (OrderReconcileProofs,
   WalkProofs): types, every safety invariant and action property.
8. InventoryProofs: nothing is owned twice.
9. The lease made part of OrderReconcile, so that OneAtATime is derived for passes
   shorter than their lease instead of assumed.
10. An abstract ledger (units executed, units booked) that OrderReconcile and
    LiveProtection both refine, next to the invariants that say the same state by state.
11. CandleWindow and DatasetPublication, AlertLifecycle, the strategy store's
    optimistic update, agent desk sessions; the same-bar exit order of the backtest
    kernel as pure operators.
