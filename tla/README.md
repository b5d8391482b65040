# Verification of the Allocation service

TLA+ modules, TLC runs and TLAPS proofs for the allocation service in this repository: a C++
server that registers batches of goods, allocates order lines to them, and follows changes of a
batch's quantity, on PostgreSQL and Redis.

Paths below are relative to the repository root (`src/...`, `docs/...`, `postgresql/...`).

## 1. The system

| Component | State | Operations | Where |
|---|---|---|---|
| `Batch`, `OrderLine` | purchased quantity, date of arrival, set of lines | `CanAllocate`, `Allocate`, `DeallocateOne`, `SetPurchasedQuantity`, `operator<` | `src/Domain/Product` |
| `Product` (aggregate) | batches by reference, references modified, version, modified flag, messages | `AddBatch(es)`, `Allocate`, `ChangeBatchQuantity`, `ClearMessages`, `SetModified` | `src/Domain/Product` |
| `TrackingRepository` over `SqlRepository` and the mappers | the products of a unit of work with the version they were loaded with | `Get`, `GetByBatchRef`, `Add`, `Update` | `src/Adapters` |
| `SqlUnitOfWork` | a session, a REPEATABLE READ transaction | begin, `Commit`, rollback on destruction, `GetNewMessages` | `src/ServiceLayer/UoW` |
| `MessageBus` | registered handlers; a queue per `Handle` call | `Handle`, `HandleCommand`, `HandleEvent` | `src/ServiceLayer/MessageBus` |
| Handlers | none | `AddBatch`, `Allocate`, `ChangeBatchQuantity`; `PublishAllocatedEvent`, `AddAllocationToReadModel`, `RemoveAllocationFromReadModel`, `Reallocate`, `SendOutOfStockNotification` | `.../Handlers` |
| Parsers | none | `FromJson` of the three commands | `src/Domain/Parsers.cpp` |
| REST entry points | 16 pool threads by default | `POST /add_batch`, `POST /allocate`, `GET /allocations/{id}`, `/ping`, OPTIONS, 404 | `src/Entrypoints/REST` |
| Views | none | `Allocations`, one SELECT of the read model | `src/ServiceLayer/Views.cpp` |
| Redis listener | one reader thread, the table of channel handlers | `Subscribe`, `Start`, `Stop`, the destructor; channel `change_batch_quantity` | `src/Entrypoints/Redis` |
| Redis publisher | one connection for all threads | `PUBLISH line_allocated` | `src/Adapters/Redis` |
| Database | `products`, `batches`, `order_lines`, `allocations`, `allocations_view` | constraints, snapshots, row locks, write conflicts | `postgresql/schemas/db-1.sql` |
| Session and connection pools | pool pointer under a shared mutex | `Configure`, `GetSession`, `Shutdown` | `src/Adapters` |
| Server lifecycle | the order of start and stop | `initialize`, `StartMainCycle`, `uninitialize` | `src/Server.cpp` |
| Configuration, logging, mail stub, dates | none | | |

**How they interact.** An entry point parses a command and calls `MessageBus::Handle`, which opens
a `SqlUnitOfWork`, runs the command's handler and then, in the same call and on the same unit of
work, every event the tracked product raised, first in first out. The entry point answers when the
queue is empty. Threads share nothing but the database and its session pool, Redis, and the bus's
tables of handlers, which the main thread fills while the reader already runs.

**What is hard.** (1) Optimistic locking in two layers, a version number and the snapshot conflicts of
REPEATABLE READ, of which only some commands raise the version. (2) One unit of work spans several
transactions: event handlers work on the object of the first one. (3) The bus swallows the exceptions of
event handlers and goes on with a transaction and an object that failed. (4) Events live in memory
between two commits. (5) Whole batches are deleted and inserted again at each commit, by reference. (6)
Quantities are compared as unsigned numbers and checked nowhere before the database. (7) A commit is a
series of statements, each of which takes a row lock and may wait for another thread. (8) The reader
starts before pool and bus are ready, the start may fail half-way, and stopping waits for no request:
what is destroyed may still be in use. (9) Five layers of `catch` turn exceptions into statuses, the
same exception into different ones.

**What makes the components correct.** The aggregate: no batch oversold, every change marked for the
repository, every allocation announced. The unit of work: what it writes is based on what is stored. The
bus: a cascade ends, an event is about something committed. A flush: it ends, never deadlocks, and
counts as one step. The service: the stock changes by atomic ledger steps; answers, publications and the
read model agree with it. The process: no command runs with half of its subscriptions, no session is
lost, every request gets the answer documented for it, but for named cases.

The hazards behind these properties are listed with their lines in `PROJECT.json`.

## 2. Modules

| Module | What it is |
|---|---|
| `Product` | the domain model as operators on values: batches, the aggregate, events. Every member function is the value it leaves, or the set of values where the iteration order of a hash container decides |
| `ProductAggregate` | one `Product` object under any sequence of calls, with saves, reloads and drained events |
| `AllocationService` | the whole service: threads, bus, unit of work, database, Redis, crashes |
| `CommitFlush` | one commit, statement by statement: row locks, waits, snapshots, rollbacks |
| `AtomicCommit` | the abstract specification of `CommitFlush`, and what `AllocationService` takes a commit to be |
| `RestRequests` | requests as data: routing, what the parsers check, which status each way of ending gets |
| `ServerLifecycle` | start and stop of the process while threads handle requests: registrations, session pool, answers |
| `StockLedger` | the abstract specification: a stock that changes by three atomic steps |
| `ServiceProperties` | the properties of `AllocationService`, and the refinement mapping to `StockLedger` |
| `MCProductAggregate`, `MCService`, `MCCommitFlush`, `MCServerLifecycle` | instances for TLC; one `.cfg` per run |
| `ProductProofs`, `ProductAggregateProofs`, `AllocationServiceProofs`, `AllocationLedgerProofs`, `AllocationHistoryProofs`, `CommitFlushProofs`, `ServerLifecycleProofs` | lemmas and theorems for TLAPS |

### Correspondence

`Product`. `product.batches[r]` is `_referenceByBatches`, `NoBatch` meaning absent; `modifiedRefs`,
`modified`, `version` and `messages` are the members of those names. `AllocateOutcomes` and
`ChangeQuantityOutcomes` are the sets of results of `Allocate` and `ChangeBatchQuantity`; an empty
set means the call throws. `Reload` is what `BatchMapper::Find` makes of a row and its lines.

`AllocationService`. Per thread, `pc` tells what it does next:

| Action | Code |
|---|---|
| `HandleRequest`, `OnRedisMessage` | an entry point takes a command; `SqlUnitOfWork` is constructed |
| `LoadForAddBatch`, `LoadForAllocate`, `LoadForChangeBatchQuantity` | `repo.Get`, `repo.GetByBatchRef` in the command handler: the transaction's first statement, hence its snapshot |
| `RejectUnknownSku`, `RejectUnknownReference` | the handler throws when the repository finds nothing |
| `LoadFails` | the transaction does not begin, or the database refuses a statement of the load |
| `Execute` | the call on the product, `Commit`, `GetNewMessages`, then the queue |
| `ExecuteFails` | the domain or `Commit` throws; the unit of work is destroyed and the entry point answers |
| `PublishAllocatedEvent`, `AddAllocationToReadModel` | the two handlers of `Allocated`, in the order of `InitMessageBus`; the second runs its INSERT at once, which the database may refuse, then commits |
| `RemoveAllocationFromReadModel`, `Reallocate`, `CommitReallocation` | the two handlers of `Deallocated`; the second in two steps, work and commit |
| `SendOutOfStockNotification` | the handler of `OutOfStock` |
| `Finish` | the queue is empty, `Handle` returns, the entry point answers |
| `Crash` | the process dies and starts again |

`snapshot[w]` and `stale[w]` model REPEATABLE READ: `stale[w]` is the set of rows other transactions
committed since w's snapshot. `Commit` fails (`SqlError`) when it writes one of them or breaks a
CHECK, and (`VersionError`) when the UPDATE of `products` finds no row with the old version. A
`products` row is written by every commit of a modified product, also when the version stays the
same.

Any statement may also be refused for a reason of the database's own (a full disk, a cancelled query):
`LoadFails`, the Poco outcome of `Exceptions` in `ExecuteFails`, and in the handlers of events
`StatementFails`. There `Caught` is the `catch (...)` of `HandleEvent`, which logs, rolls nothing back
and goes on with the next handler. In PostgreSQL the transaction is then aborted and refuses every
statement until it ends, which the model says by putting every row into `stale[w]`; `COMMIT` of an
aborted transaction rolls back and lets the next one begin, which is `Commit` of an object that is not
modified. `VersionIsOutdated` is the exception of the repository itself, which aborts nothing. The ghost
variable `unshown` keeps the rows of the read model whose INSERT was refused: the code keeps no trace of
them but a line in the log, and the properties about the read model name them as the exception.

`ProductAggregate` also holds the machine's arithmetic: `GetAvailableQuantity` and `Fits` compute as
`Batch.cpp` does, the sum and the difference as `size_t` (modulo `SizeRange`), the result narrowed to
`int` (modulo `IntRange`), the comparison unsigned. `ArithmeticIsExact` says that this equals the
integer arithmetic every other module uses.

`CommitFlush`. A row is `<<"products", sku>>` or `<<"batches", ref>>`, the latter with its lines.
`Begin` takes the snapshot and fixes what will be written, by command:

| Action | Code |
|---|---|
| `AddNewProduct` | `AddBatch` finds no product: `SqlRepository::Add` inserts its row at once, then the commit writes the batch |
| `ModifyBatch` | `AddBatch` or `Allocate` on a stored product: one batch, then the product's row |
| `ChangeBatches` | the listener: `ChangeBatchQuantity` and the reallocations after it, whose modified set has grown to several batches |
| `Issue`, `Write` | a statement is sent; it takes the row's lock once it is free. `NextInOrder`: `ProductMapper::Update` writes batches first, in the order of a hash set, the product last |
| `Commit`, `SerializationFailure`, `RollBack` | the three ways a transaction ends; a row committed by another since the snapshot is "could not serialize access" or a unique violation |

`ServerLifecycle`. The main thread runs `Program`, the 17 steps of `initialize`, the main cycle,
`uninitialize` and the destructor, and waits for no request. `StartupFails` is an exception of one of
the steps in `MayFail`, or `--help`: whether Poco's `Application::run` then calls `uninitialize` is left
open. The other threads:

| Action | Code |
|---|---|
| `HandleRequest`, `OnRedisMessage` | `HandlerFactory` and the handler's reading of the request (`RestRequests`), the parser; a request may be at its end already |
| `IgnoreMessage` | the listener's messages that lead to no command: answers to SUBSCRIBE, payloads it cannot read, and those that meet the destroyed table of handlers |
| `ConnectionLost` | the AsyncReader's exception: the reader ends |
| `OpenSession`, `NoSession` | `SqlUnitOfWork`'s constructor and `DatabaseSessionPool::GetSession` |
| `FindHandler`, `NoHandler` | `HandleCommand`'s lookup |
| `Finish`, `FinishQuery`, `SessionClosed` | the command or the view's SELECT ends, in each of the ways it can |
| `RollbackThrows` | `rollback()` throws in the unit of work's destructor, hence `std::terminate` |
| `Answer` | the catch clauses of the handler, `Status` in `RestRequests` |

`Subscribe`, `StartReader` and the eight registrations of `InitMessageBus` are steps of their own, so
that a message can arrive between any two of them. `DestroyListener` joins the reader, which looks
whether it was stopped only between two messages. Stopping the HTTP server does not wait for requests
in progress, so they may meet the closed pool. The bus's maps are read by the reader while the main
thread fills them; a lookup that falls into the insertion of its own entry sees no function and fails
like one that comes before it. `EventsAreHeard` holds because the command of the only channel is
registered last.

### Abstractions

* In `AllocationService` the statements of one flush and its COMMIT are one step. `CommitFlush` has
  them one by one and implements `AtomicCommit`, the same step; that two flushes never wait for each
  other in a circle (`NoCircularWait`) is why no deadlock error appears in `AllocationService`. The
  two modules share no state: rows in the one are versions only, in the other they have contents.
* In `ServerLifecycle` a command is its session, its handler and its way of ending; the work is
  `AllocationService`'s. The process ends at once where C++ terminates it; a thread that is still at
  work when `main` has returned goes on as before, which the process's exit may cut short.
* The bus's maps and the listener's table are read without a lock while another thread writes or
  destroys them. The outcomes modelled are: the entry is found, it is missing, it has no function.
* A request is its method, its target and the kind of value of each field of its body: enough for
  routing and for `FromJson`. The text of an answer is left out, its status is not.
* In `AllocationService` `COMMIT` itself fails only with its connection. The schema defers no
  constraint, so nothing is left for it to check; and once the connection is gone, the rollback in the
  destructor of the unit of work throws and the process ends before it answers, which is `Crash`.
  A statement refused in a flush counts as one whatever its place in it: it leaves the same aborted
  transaction.
* A unit of work tracks one product: the command's. Its events carry that SKU only.
* The row of a new product is inserted by `Add` before the batch exists. It belongs to the same
  transaction as the batch and is invisible to others until the commit, so it is written there.
* `GET /allocations/{orderid}` is the function `Allocations` of the view (in `ServiceProperties`): one
  SELECT of committed rows.
* The view is a set of rows; order lines are identified by their contents, as the hash set does.
* Dates are ordered numbers with "none" first. The sort is taken to put undated batches first.
* Quantities are unbounded integers; `ArithmeticIsExact` is what makes that right for quantities that
  are not negative.
* `Total`, the sum of the quantities of a set of lines, is a constant function pinned down by its two
  defining equations: no recursive operator stands in the way of the proofs.
* Clients send the commands of the run, each as often as `Deliveries` says, in any order and at any
  time. Redis takes a publication or loses it.

## 3. Runs

| Run (`.cfg`) | Instance | Question |
|---|---|---|
| `product_aggregate` (`MCProductAggregate`) | 2 batches, 3 lines of quantities 1, 2, 3, batch quantities 1 and 3, 5 calls, 3-bit `int`, 4-bit `size_t` | can any order of calls, saves and loads lose a change, oversell, wrap around, or forget an event? |
| `http_commands` (`HttpCommands`) | 2 threads, 2 batches of different dates, 2 lines that compete for the earlier one, one of them sent twice, a line of quantity -1, one crash, any statement refused | do answers, publications and the read model agree with the stock, and survive? |
| `quantity_changes` (`QuantityChanges`) | the same without retry, negative line and crash, and two quantity changes by the listener | does locking make each commit an atomic ledger step? |
| `odd_quantities` (`OddQuantities`) | batches of 3 and -1, lines of 2, 1 and 0, changes of quantity to 1 and -1, the first of which takes two lines out of a batch | what keeps odd quantities out of the database, and does each cascade end? |
| `commit_flush` (`MCCommitFlush`) | 2 HTTP threads and the listener, a stored product with 2 batches and a new one, 4 transactions | do flushes statement by statement deadlock, end, and amount to atomic commits? |
| `server_lifecycle` (`MCServerLifecycle`) | 2 HTTP threads and the reader, 2 requests each, good and bad ones of every kind, 3 sessions, a start that may fail | can a command run half-subscribed, a session be lost, a request be answered wrongly or not at all? |

The bounds are the smallest in which the case of interest happens: two threads race, two batches give
an order to choose from, two lines deallocated at once need a second versioned commit in one cascade,
one crash can hit every point between two steps, a refused statement every statement, any number of times, five calls are enough to fill, empty, refill and
shrink two batches; the third line is as large as the largest batch, so that a batch without the check
on its way out would go beyond what 3 bits hold. Two threads that want the same two rows and a third
that wants both are the least that could deadlock; a fourth transaction meets what the first left
behind. Two requests per thread show whether the second suffers from what the first left in the pool.
Bounded in guards are only `MaxCrashes`, `MaxCalls`, `MaxTransactions` and `MaxTaken`;
`Deliveries` says how often each command is sent. `MaxSessions` is the code's own limit, one per thread
here. Versions are bounded by the number of commands. Threads of the pool are
interchangeable, hence `SYMMETRY` in the two large safety runs; runs with a liveness property use none.
When all commands are answered the server waits (`NothingToDo`), at the end of the process and between
transactions the other modules rest (`Rest`), so deadlock is checked everywhere.

What the passing runs show: no oversold batch (`NoOversell`); a line sent once is in one batch
(`OneBatchPerLine`); the object a thread works on is what is stored unless its commit is bound to fail
(`UndisturbedIsCurrent`, `SameVersionIsCurrent`); a failed unit of work never commits
(`FailedUnitOfWorkIsStuck`), these three being parts of `LockingInvariant`; every placement raises the
version (`PlacingRaisesVersion`) and goes to the earliest batch stored at that moment
(`CommitsToEarliestBatch`); the stock follows the ledger (`ImplementsLedger`); an error answer leaves no
trace (`RefusedIsNotPlaced`); 202 is readable after a crash (`ConfirmedIsReadable`); Redis and the read
model tell what is committed (`PublishedWasPlaced`, `ReadModelIsComplete`), where both properties of the
read model leave out exactly the rows whose INSERT the database refused, which are answered 202 with
neither row nor mail and which nobody adds later; and the inductive invariants
these four and `OneBatchPerLine` follow from hold (`PlacementInvariant`, `AttemptInvariant`,
`ReadModelInvariant`, `ConfirmationInvariant`, `SingleBatchInvariant`, section 5); zero and negative
quantities get past the parsers and the domain and are stopped by the schema's CHECKs only
(`odd_quantities`), a cascade ends whatever they are (`CommandsEnd`). A flush holds locks in an order
that never closes a circle (`NoCircularWait`), so each ends (`FlushesEnd`) and counts as one step
(`ImplementsAtomicCommit`). A command meets all its subscriptions (`EventsAreHeard`), an HTTP request
its handler (`RequestsFindTheirHandler`), no way of ending loses or doubles a session
(`SessionsAreCounted`, `NeverExhausted`), and every request is answered (`RequestsAreAnswered`) with the
status the API's description has for the way it ended, except for the disagreements below
(`AnswersAreDocumented`). The process ends only if Redis sends the stopped reader one
more message (`OneMessageEndsTheProcess`): while Redis is silent the destructor waits.

`SameVersionIsCurrent` rests on the listener being one thread in one process: quantity changes do not
raise the version, so two of them working in two cascades at a time could overwrite each other.

### Disagreements with the documentation

Each is a run TLC must find violated; `PROJECT.json` quotes the lines.

| Run | What happens |
|---|---|
| `read_model_forgets` | the DELETE of `RemoveAllocationFromReadModel` lacks `now` and is never executed. `Tests/Integration/Views_test.cpp:63-64` asserts that the stale row stays, against the comment in `Handlers.hpp:55` |
| `lost_reallocation` | a quantity change that deallocates two lines cannot commit the second reallocation, although nobody else has touched the product: the tracked old version is not refreshed after the first. (A reallocation that loses to a concurrent `/allocate` is refused too; `DeallocatedIsReallocated` leaves that case out) |
| `published_uncommitted` | the `Allocated` event of the failed reallocation is published |
| `accepted_unplaced` | insufficient stock is answered 202, documented as allocated, with 409 for this case |
| `conflict_status` | a concurrent update is answered 500, documented as 409 |
| `stolen_reference` | registering a reference for another SKU deletes the first product's batch and its lines |

More of them are part of a property that holds. `AnswersAreDocumented` compares `Status` with what
`docs/api/api.yaml` has for each way a request ends (`Described`) and names the endings where the two
differ (`Disagreements`); it fails if one more differs, and also if one of these no longer does:

| Ending | Answered | `api.yaml` |
|---|---|---|
| `no object`: the body is no JSON object; it is parsed outside of the try block | 500 | 400, invalid payload |
| `out of range`: the quantity is an integer beyond `int`, a Poco exception | 500 | 400, invalid payload |
| `serialization` of `/allocate`: the loser of a concurrent update (run `conflict_status`) | 500 | 409, concurrent update |
| `no pool`: the request outlasts the session pool, a runtime error | 409 for `/allocate`, else 400 | 500 |

`http_commands` and `published_uncommitted` share a property on purpose: `PublishedWasPlaced` holds as
long as no cascade deallocates two lines, and fails when one does.

## 4. Fairness

In `AllocationService`, `FairSpec` asks weak fairness of each thread's next step while it handles a
command: the operating system schedules it and each call of the database or Redis returns or throws.
Nothing is asked of the clients (`HandleRequest`, `OnRedisMessage`) nor of crashes. `CommandsEnd`
(run `odd_quantities`) then says that the cascade is finite: `Deallocated` events are raised by quantity
changes only, and each event is popped once.

In `CommitFlush` each thread goes on with its flush, and PostgreSQL lets a statement pass whose lock is
free: `Step(w)` is disabled while the lock is held, so fairness gives no lock away. A new transaction
and `RollBack` need not happen.

In `ServerLifecycle` the main thread is scheduled, except that nobody need ask the server to stop
(`StopServer` is what follows `waitForTerminationRequest`), and each thread goes on serving the request
it has. Neither clients nor Redis must send anything, and no failure must happen.

## 5. Proofs

**The service.** `TypeCorrect` and `NeverOversells` (module `AllocationServiceProofs`) hold for all
values of the constants: any number of threads, products, references, lines, commands, retries and
crashes. Assumptions are the named ones of `Product` (lines and numbers are integers, `Total` is
additive, the null values are distinct from the others) and `AllocationService` (the listener is not a
pool thread, commands are commands); TLC evaluates all of them in every run.

`NoOversell` alone is not inductive: a commit stores the object a thread works on, so that object must
be sound. The inductive invariant `StockInvariant` (checked by `odd_quantities`, so with the worst
quantities) adds

* `TypeOK`;
* `TrackedIsSound`: an object in a tracking repository holds batches of its SKU only, none oversold;
* `WorksOnItsProduct`: at `execute` the tracked product is the command's product, and has the batch
  whose quantity is to change;
* `ReallocatesAnEvent`: a thread about to commit a reallocation has its event at the head of the queue;
* `BatchesHaveProducts`: the foreign key, so that `FindByBatchRef` loads a product with a version.

The argument, by `ProductProofs`: a line that `CanAllocate` accepts leaves the batch sound, as the
unsigned comparison with a non-negative remainder implies the signed one; the loop of
`ChangeBatchQuantity` ends only when nothing is oversold; reading a sound row loses no line; a new
batch must have a positive quantity to be stored. `AllocationServiceProofs` carries this through
every action, one lemma per kind of step.

**Locking and the ledger.** The theorems of `AllocationLedgerProofs` hold for all values of the
constants in which no reference is used for two products (`OneSkuPerReference`; `stolen_reference` shows
that this is needed: rows are deleted by reference, whatever their SKU). `LedgerIsImplemented` is the
refinement: whatever the threads interleave, cache and fail at, the stored batches change by the steps
of `StockLedger` only. `PlacingAlwaysRaisesVersion`, `EarliestBatchGetsTheLine`,
`UndisturbedStaysCurrent`, `SameVersionStaysCurrent` and `StuckForGood` come from the same invariant,
`LockingInvariant` (theorem `LockingHolds`, checked by `quantity_changes`), which says of

* the batches: each was registered by a command for its SKU (`RegisteredByCommands`);
* a thread at `execute`: its object is as loaded, and is what is stored unless the row of its product is
  in `stale` (`ExecutesWhatItLoaded`), in which case PostgreSQL refuses the commit;
* an HTTP thread after its command: nothing is left to write, as no `Deallocated` event comes its way
  (`ReallocatesNothing`);
* the listener after its command: the stored version is at least the one its object was loaded with,
  and while they are equal the object is what is stored; once modified its version is higher; and if
  it can be committed it is what is stored and one line more (`ReallocatesUnderTheVersion`).

Each step is shown to do two things. It leaves the stock or makes one ledger step on one batch
(`Writes`), which puts the product's row into `stale` of every other thread with a snapshot, and keeps
or raises the version. And it keeps the thread's part of the invariant (`Guarded`), so that the theorem
for all threads needs two more lemmas about those that rest: `CurrentStays` for the snapshot and
`VersionStaysGuard` for the version. The latter is where the listener's being alone counts: a quantity
change keeps the version, so only the listener itself may make one (`w = Listener` in `Writes`). A
commit that failed fails for good, as versions never fall and conflicts are only added, also by a
statement that the database refuses (`ThrownLeaves`, `StuckStaysStuck`).

**Answers, events and the read model.** The theorems of `AllocationHistoryProofs` are about what a
client, Redis and the read model are told, which becomes true in one step of a thread and is told in
another. Each is an invariant of its own on top of those above:

| Theorem | Hypotheses | Its invariant | Why it is inductive |
|---|---|---|---|
| `PublishedIsTrue` (`PublishedWasPlaced`) | `NoQuantityChanges` | `PlacementInvariant` (`LinesComeFromCommits`, without hypotheses) | a line gets into a batch, an object, or a `Deallocated` event only after the commit of its command; an HTTP thread queues the `Allocated` events of a commit that went through |
| `RefusalsLeaveNoTrace` (`RefusedIsNotPlaced`) | none | `AttemptInvariant` (`AttemptsAreSingle`) | a command sent once is with its client, with one thread, or over; until its thread commits, nobody else can place its line, as the listener moves only lines placed before |
| `ReadModelCatchesUp` (`ReadModelIsComplete`) | `NoQuantityChanges` | `ReadModelInvariant` (`AllocationsAreShown`) | a line in a batch is in the read model, in the queue of the thread that committed it, or its row was refused; objects loaded meanwhile carry such lines only |
| `ConfirmedStaysReadable` (`ConfirmedIsReadable`) | `OneSkuPerReference` | `ConfirmationInvariant` (`ConfirmationsAreDue`) | a stored product has a batch, so `Product::Allocate` raises an event, handled before `Handle` returns, with a mail, a row, or a row that was refused (`HttpHandler`: an HTTP thread has nothing else left that could fail); rows of the view are never removed |
| `OneBatchHoldsEachLine` (`OneBatchPerLine`) | `OneSkuPerReference` | `SingleBatchInvariant` (`LinesAreHeldOnce`) | a line sent once enters a batch only when it is in none: its command is the first to place it, or the listener takes it off its queue, where it is once and in no batch; a batch that shrinks frees its lines, each announced once |

The hypotheses are about the clients' commands, and runs show what happens without them. With quantity
changes (`NoQuantityChanges` says there are none) a failed reallocation publishes an event nobody
committed (`published_uncommitted`); the unit of work is then stuck, so the row of the
reallocation before it, whose event comes later in the queue, is not written either. With a reference
used for two products (`OneSkuPerReference` says there is none) a commit deletes batches of another
product (`stolen_reference`). `ReadModelIsComplete` itself is stated for runs
without a crash, which loses the queue; `ConfirmedIsReadable` is not. A command sent twice may place its
line twice, so `RefusedIsNotPlaced` and `OneBatchPerLine` speak of lines sent once, whatever other
clients do.

The last theorem uses everything before it. That the listener's object holds at most one line more than
what is stored (`LockingInvariant`) makes the line that enters a batch the one at the head of its queue;
that its command is the only one (`AttemptInvariant`), and that a line not yet placed is in no
`Deallocated` event (`PlacementInvariant`), excludes that command and reallocation both place it.

**The aggregate.** `DirtyTrackingIsComplete`, `AggregateNeverOversells` and `OnlyExcessIsDeallocated`
(module `ProductAggregateProofs`) hold for any references, lines, dates, natural quantities and number
of calls, as does its type invariant `AggregateTypes`. The first two need each other: `Load` builds the
object from the rows, which are the object's batches only if nothing unmarked was left behind, and which
are read back as they are only if none is oversold. `Consistent` is their conjunction with the types and
the SKU; `Marks(p, q)` says what each member function does for dirty tracking. For the third,
`LastLineWasExcess` reads the loop's condition off the last but one prefix of the lines deallocated;
`Load` takes nothing out by `LoadIsExact`. `SizeAssumption` (quantities are not negative) stands for the
type `size_t` of the domain; what negative ones that slip through the conversion do is the question of
`odd_quantities`.

`EventsCoverAllHolders` (`EventsCoverAllocations`) counts. A line's `Holders` are the batches that hold
it: `Allocate` adds one at most and raises one `Allocated`, a shrinking batch is one less and raises one
`Deallocated` for the line, since the loop's sequence has no line twice (`ChangeQuantityAnnounces`);
`RaisedCounts` turns the events appended into the difference of two cardinalities. That only finitely
many batches hold a line is part of the invariant (`Covered`), so no set need be finite.

`ArithmeticIsAlwaysExact` adds `WidthAssumption`: `IntRange` even, `SizeRange` a multiple of it, every
quantity a non-negative `int`. A sum of lines may then wrap as an integer of 32 bits does, were it not
that no batch is oversold: the sum stays within the purchased quantity, and what remains of it is an
`int`. When a new quantity is below the sum the difference is negative, more than minus half of
`IntRange`, and narrowing `size_t` to `int` gives it back.

**The flush.** `LocksAreOrdered`, `CommitsNeverDeadlock` and `CommitsAreAtomic` (module
`CommitFlushProofs`) hold for any number of threads, products, batches and transactions. The invariant
`FlushInvariant` says that a held lock freezes its row as the holder's snapshot shows it, and what a
transaction writes: one product's rows; a stored product's last, a new one's first; a single batch
unless it is the listener's. A waiting HTTP thread thus waits to insert a new product, holding nothing;
or for its one batch, holding at most a new product; or for its product's row, which nobody has to
wait for any more. The proof numbers these stages and shows that in any group of waiting threads the
one that has come furthest waits for nobody in it; the listener, alone in writing several batches,
waits only for threads that hold one and have none left to write. Refinement is the identity on
`version`: a commit writes what it owns, and by `LocksAreCurrent` that is one more than what is stored.

**The process.** The theorems of `ServerLifecycleProofs` hold for any set of HTTP threads, requests and
payloads and any limit of the pool: `LifecycleIsInvariant`, `EventsAreAlwaysHeard`, `HandlersAreFound`,
`AnswersAreAlwaysDocumented`, `SessionsBalance`, `NeverRunsOut`. `LifecycleInvariant` adds to the
properties themselves that the steps done are a prefix of `Program` up to the main cycle, however the
start ends (`StepsInOrder`), that requests come after `StartServer` and only commands get to the bus
(`WellRouted`), and that nobody has a session of a pool not yet made (`NoSessionsBeforeThePool`).
`SessionsAreCounted` is by cardinalities: each action moves at most one thread into or out of
`Holding`. `NeverRunsOut` follows, as a thread that asks is not among those that hold.

**Only model-checked.** Every invariant and every action property of the passing runs is a theorem,
and so are the two refinements. Out of the prover's reach are the properties under fairness, which need
`ENABLED` and an induction over steps to come: `CommandsEnd`, `FlushesEnd`, `RequestsAreAnswered`,
`OneMessageEndsTheProcess`.

## 6. Not modelled, and the plan

What could be added, in this order:

1. Proofs: that a cascade's work gets less with every event, the step behind `CommandsEnd` that needs no
   fairness; the same for a flush.
2. `PublishedWasPlaced` with quantity changes that deallocate at most one line each.
3. Several processes on one database: `SameVersionIsCurrent` would then fail, as the listeners would be two.

Not modelled, and why:

* The publisher's Redis connection, shared by all threads without a lock: a publication arrives or is
  lost, and no thread looks at the reply, so nothing the model can tell apart depends on it.
* `Batch`'s `operator<` is not a strict weak order. Up to 16 batches the library's insertion sort is
  well defined with it; beyond that its behaviour is undefined.
* The DELETE of the read model, which never runs (`read_model_forgets`).
* The Redis connection pool, which hands out two connections at the start, and reconfiguration of
  either pool, which nobody calls.
* Of the command line only `--help`; configuration, logging, the mail stub, date conversion, build files:
  input and output without state.
* `ProductMapper::Delete`, `TrackingRepository::Clear`, `IUnitOfWork::RollBack` and
  `MessageBus::ClearHandlers` have no caller in the service.
