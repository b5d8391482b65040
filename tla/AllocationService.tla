------------------------- MODULE AllocationService -------------------------
(***************************************************************************)
(* The running service: REST threads and the Redis listener thread take    *)
(* commands, each in a unit of work of its own, hand them to the message   *)
(* bus and run the events they cause, against one PostgreSQL database.     *)
(*                                                                         *)
(* A unit of work is a REPEATABLE READ transaction at a time: its first    *)
(* statement takes the snapshot, a write to a row that another transaction *)
(* committed since fails.  stale[w] is the set of those rows.  The writes  *)
(* of one Commit are one step: between them other transactions can only    *)
(* wait for the row locks, then fail (if the holder commits) or go on (if  *)
(* it rolls back), as they do here when they come after or before it.      *)
(*                                                                         *)
(* Any statement may also fail for a reason of the database's own (a full  *)
(* disk, a cancelled query).  It aborts the transaction: until that ends   *)
(* every row counts as one it cannot write, and COMMIT rolls it back.      *)
(* COMMIT itself has nothing left to check, as no constraint is deferred:  *)
(* it fails only with its connection, and then the rollback of the unit of *)
(* work's destructor throws and the process dies: Crash.                   *)
(*                                                                         *)
(* Every unit of work tracks at most one product: the command's, and the   *)
(* events of that product name no other SKU.                               *)
(***************************************************************************)
EXTENDS Product

CONSTANTS
    HttpWorkers,  \* threads of the HTTP server's pool
    Listener,     \* the one reader thread of the Redis listener
    Commands,     \* the commands clients may send
    Deliveries,   \* Deliveries[c]: how often command c is sent (more than once: a client retries)
    MaxCrashes,   \* bound of the number of crashes, for model checking
    NoVersion,    \* "no row of this SKU in allocation.products"
    NoCommand

Workers == HttpWorkers \cup {Listener}

Command == [type : {"CreateBatch"}, ref : Refs, sku : Skus, qty : Quantities, eta : Etas]
           \cup [type : {"Allocate"}, line : OrderLines]
           \cup [type : {"ChangeBatchQuantity"}, ref : Refs, qty : Quantities]

\* Rows a transaction may be unable to write; those of the read model by their line.
Row == ({"products"} \X Skus) \cup ({"batches"} \X Refs) \cup ({"allocations_view"} \X OrderLines)

ASSUME ServiceAssumption ==
    /\ Listener \notin HttpWorkers
    /\ Commands \subseteq Command
    /\ Deliveries \in [Commands -> Nat]
    /\ MaxCrashes \in Nat
    /\ NoVersion \notin Nat
    /\ NoCommand \notin Commands

VARIABLES
    products,    \* allocation.products: the version number of each SKU
    batches,     \* allocation.batches, with their order_lines and allocations
    view,        \* allocation.allocations_view, as a set of rows
    published,   \* Allocated events that reached Redis
    notified,    \* SKUs an out-of-stock mail was sent for
    inbox,       \* how often each command is still to be sent
    answers,     \* the answers given: HTTP statuses, or the listener's outcome
    crashes,
    pc,          \* per thread: what it does next
    command,     \* per thread: the command it handles
    queue,       \* per thread: the message bus's queue of events
    handler,     \* per thread: the handler of the first event to run next
    tracked,     \* per thread: the product in the tracking repository
    oldVersion,  \* per thread: the version that product was loaded with
    snapshot,    \* per thread: has its transaction run a statement yet?
    stale,       \* per thread: rows committed by others since then; all of them once aborted
    placed,      \* ghost: the <<line, reference>> pairs ever committed
    unshown      \* ghost: the rows of the view whose INSERT the database refused

dbVars   == <<products, batches, view, unshown>>
outVars  == <<published, notified, inbox, answers, crashes>>
busVars  == <<pc, command, queue, handler>>
uowVars  == <<tracked, oldVersion, snapshot, stale>>
vars     == <<dbVars, outVars, busVars, uowVars, placed>>

Pair == OrderLines \X Refs

\* HTTP statuses; the listener is done with a message or logs an exception.
Status == {"201", "202", "400", "409", "500", "done", "logged"}

Answer == [command : Commands, status : Status]

TypeOK ==
    /\ products \in [Skus -> Nat \cup {NoVersion}]
    /\ batches \in [Refs -> Batch \cup {NoBatch}]
    /\ view \subseteq Pair
    /\ published \subseteq Pair
    /\ notified \subseteq Skus
    /\ inbox \in [Commands -> Nat]
    /\ answers \subseteq Answer
    /\ crashes \in Nat
    /\ pc \in [Workers -> {"idle", "load", "execute", "events", "reallocate"}]
    /\ command \in [Workers -> Commands \cup {NoCommand}]
    /\ queue \in [Workers -> Seq(Event)]
    /\ handler \in [Workers -> {1, 2}]
    /\ tracked \in [Workers -> Aggregate \cup {NoProduct}]
    /\ oldVersion \in [Workers -> Nat]
    /\ snapshot \in [Workers -> BOOLEAN]
    /\ stale \in [Workers -> SUBSET Row]
    /\ placed \subseteq Pair
    /\ unshown \subseteq Pair
    /\ \A w \in Workers : pc[w] # "idle" => command[w] # NoCommand
    /\ \A w \in Workers : pc[w] \notin {"idle", "load"} => tracked[w] # NoProduct

Init ==
    /\ products = [s \in Skus |-> NoVersion]
    /\ batches = [r \in Refs |-> NoBatch]
    /\ view = {} /\ published = {} /\ notified = {} /\ answers = {}
    /\ placed = {} /\ unshown = {}
    /\ inbox = Deliveries
    /\ crashes = 0
    /\ pc = [w \in Workers |-> "idle"]
    /\ command = [w \in Workers |-> NoCommand]
    /\ queue = [w \in Workers |-> <<>>]
    /\ handler = [w \in Workers |-> 1]
    /\ tracked = [w \in Workers |-> NoProduct]
    /\ oldVersion = [w \in Workers |-> 0]
    /\ snapshot = [w \in Workers |-> FALSE]
    /\ stale = [w \in Workers |-> {}]

-----------------------------------------------------------------------------
(* The unit of work *)

\* The destructor: roll back, forget the tracked product, give the session back.
CloseUnitOfWork(w) ==
    /\ tracked' = [tracked EXCEPT ![w] = NoProduct]
    /\ oldVersion' = [oldVersion EXCEPT ![w] = 0]
    /\ snapshot' = [snapshot EXCEPT ![w] = FALSE]
    /\ stale' = [stale EXCEPT ![w] = {}]

\* The rows w can no longer write: none before its transaction took a snapshot.
\* Mutant: READ COMMITTED, a write goes through whatever was committed before it.
NoConflicts(w) == {}
Conflicts(w) == IF snapshot[w] THEN stale[w] ELSE {}

\* The rows Update (or Insert) of product p writes.
\* Mutant: the products row is not written when the version stays the same.
WrittenIfVersioned(p) ==
    {<<"batches", r>> : r \in p.modifiedRefs} \cup
    (IF products[p.sku] = p.version THEN {} ELSE {<<"products", p.sku>>})
Written(p) == {<<"products", p.sku>>} \cup {<<"batches", r>> : r \in p.modifiedRefs}

\* The CHECK constraints on what it writes.
\* Mutant: a schema without CHECKs.
AlwaysStorable(p) == TRUE
Storable(p) == \A r \in p.modifiedRefs :
    p.batches[r].purchased > 0 /\ \A l \in p.batches[r].allocations : l.quantity > 0

\* UPDATE ... WHERE version_number = old finds the row; a new product's row is inserted with
\* version 0 by the same transaction.
VersionMatches(w, p) == products[p.sku] \in {oldVersion[w], NoVersion}

\* Commit of a unit of work whose tracked product is p: only a modified product is written.
\* Poco throws DataException (SqlError) or the repository runtime_error (VersionError).
SqlError(w, p) == p.modified /\ (Written(p) \cap Conflicts(w) # {} \/ ~Storable(p))

VersionError(w, p) == p.modified /\ ~VersionMatches(w, p)

CanCommit(w, p) == ~SqlError(w, p) /\ ~VersionError(w, p)

\* What Commit may throw: where it has something to write, a statement of it may fail anyway.
Exceptions(w, p) ==
    {x \in {"Poco", "runtime_error"} :
        \/ x = "Poco" /\ p.modified
        \/ x = "runtime_error" /\ VersionError(w, p) /\ ~SqlError(w, p)}

\* Rows of p's modified references are deleted by reference, whatever their SKU, and
\* inserted again from the object; then COMMIT, and a new transaction begins.
WriteBack(w, p) ==
    IF p.modified
    THEN /\ products' = [products EXCEPT ![p.sku] = p.version]
         /\ batches' = [r \in Refs |-> IF r \in p.modifiedRefs THEN p.batches[r]
                                       ELSE batches[r]]
         /\ placed' = placed \cup
                {x \in Pair : x[2] \in p.modifiedRefs /\ x[1] \in p.batches[x[2]].allocations}
         /\ stale' = [v \in Workers |->
                IF v = w THEN {}
                ELSE IF snapshot[v] THEN stale[v] \cup Written(p) ELSE stale[v]]
    ELSE /\ stale' = [stale EXCEPT ![w] = {}]
         /\ UNCHANGED <<products, batches, placed>>

Commit(w, p) ==
    /\ CanCommit(w, p)
    /\ WriteBack(w, p)
    /\ snapshot' = [snapshot EXCEPT ![w] = FALSE]
    /\ UNCHANGED oldVersion

-----------------------------------------------------------------------------
(* The message bus *)

\* Mutant: the event is not popped.
Unpopped(q, last) == q
Rest(q, last) == IF last THEN Tail(q) ELSE q

\* Mutant: the index is not reset after the last handler.
NextHandlerAlways(w, last) == handler' = [handler EXCEPT ![w] = @ + 1]
NextHandler(w, last) == handler' = [handler EXCEPT ![w] = IF last THEN 1 ELSE 2]

\* The handler of the first event returned: GetNewMessages moves what product p has
\* gathered to the end of the queue.
Handled(w, p, last) ==
    /\ pc' = [pc EXCEPT ![w] = "events"]
    /\ queue' = [queue EXCEPT ![w] = Rest(@, last) \o p.messages]
    /\ tracked' = [tracked EXCEPT ![w] = ClearMessages(p)]
    /\ NextHandler(w, last)
    /\ UNCHANGED command

\* It threw: the exception is logged and the next handler runs, on the same unit of work.
Caught(w, p, last) ==
    /\ pc' = [pc EXCEPT ![w] = "events"]
    /\ queue' = [queue EXCEPT ![w] = Rest(@, last)]
    /\ tracked' = [tracked EXCEPT ![w] = p]
    /\ NextHandler(w, last)
    /\ UNCHANGED <<command, products, batches, view, placed, oldVersion>>

\* The repository's exception leaves the transaction as it is ...
VersionIsOutdated(w, p, last) ==
    /\ VersionError(w, p)
    /\ Caught(w, p, last)
    /\ UNCHANGED <<snapshot, stale>>

\* ... a statement that fails aborts it.
\* Mutant: the bus rolls the transaction back but keeps the tracked product.
RolledBack(w, p, last) ==
    /\ Caught(w, p, last)
    /\ snapshot' = [snapshot EXCEPT ![w] = FALSE]
    /\ stale' = [stale EXCEPT ![w] = {}]
StatementFails(w, p, last) ==
    /\ Caught(w, p, last)
    /\ snapshot' = [snapshot EXCEPT ![w] = TRUE]
    /\ stale' = [stale EXCEPT ![w] = Row]

\* A handler whose only statements are those of its Commit.
CommitFails(w, p, last) ==
    /\ VersionIsOutdated(w, p, last) \/ (p.modified /\ StatementFails(w, p, last))
    /\ UNCHANGED unshown

\* Handle returns, or lets the exception of a command handler through, to the entry point,
\* which answers.
Answered(w, status) ==
    /\ answers' = answers \cup {[command |-> command[w], status |-> status]}
    /\ pc' = [pc EXCEPT ![w] = "idle"]
    /\ command' = [command EXCEPT ![w] = NoCommand]
    /\ queue' = [queue EXCEPT ![w] = <<>>]
    /\ handler' = [handler EXCEPT ![w] = 1]
    /\ CloseUnitOfWork(w)
    /\ UNCHANGED <<dbVars, published, notified, inbox, crashes, placed>>

Success(c) == CASE c.type = "CreateBatch" -> "201"
                [] c.type = "Allocate" -> "202"
                [] c.type = "ChangeBatchQuantity" -> "done"

\* REST handlers: Poco::Exception is 500 and std::exception 400; runtime_error is 409 for
\* /allocate only.  The listener only logs.
Failure(c, exception) ==
    CASE c.type = "ChangeBatchQuantity" -> "logged"
      [] c.type # "ChangeBatchQuantity" /\ exception = "Poco" -> "500"
      [] c.type = "Allocate" /\ exception = "runtime_error" -> "409"
      [] OTHER -> "400"

-----------------------------------------------------------------------------
(* Commands *)

\* An entry point hands a command to the bus, which opens a unit of work for it.
Receive(w, c) ==
    /\ pc[w] = "idle"
    /\ inbox[c] > 0
    /\ inbox' = [inbox EXCEPT ![c] = @ - 1]
    /\ pc' = [pc EXCEPT ![w] = "load"]
    /\ command' = [command EXCEPT ![w] = c]
    /\ UNCHANGED <<dbVars, published, notified, answers, crashes, queue, handler, uowVars, placed>>

\* POST /add_batch and POST /allocate: whichever thread of the pool is free.
HandleRequest(w, c) == c.type \in {"CreateBatch", "Allocate"} /\ Receive(w, c)

\* Channel change_batch_quantity: the one thread that reads the Redis connection.
OnRedisMessage(c) == c.type = "ChangeBatchQuantity" /\ Receive(Listener, c)

\* The product of a SKU as the mappers read it.
Find(sku) ==
    StoredAggregate(sku, products[sku],
        [r \in Refs |-> IF batches[r] # NoBatch /\ batches[r].sku = sku
                        THEN Reload(batches[r]) ELSE NoBatch])

Track(w, p) ==
    /\ tracked' = [tracked EXCEPT ![w] = p]
    /\ oldVersion' = [oldVersion EXCEPT ![w] = p.version]
    /\ snapshot' = [snapshot EXCEPT ![w] = TRUE]
    /\ stale' = [stale EXCEPT ![w] = {}]
    /\ pc' = [pc EXCEPT ![w] = "execute"]
    /\ UNCHANGED <<dbVars, outVars, command, queue, handler, placed>>

\* AddBatch reads the product, or makes one and inserts its row.
LoadForAddBatch(w) ==
    /\ pc[w] = "load"
    /\ command[w].type = "CreateBatch"
    /\ LET sku == command[w].sku
       IN Track(w, IF products[sku] = NoVersion THEN SetModified(NewAggregate(sku), FALSE)
                   ELSE Find(sku))

LoadForAllocate(w) ==
    /\ pc[w] = "load"
    /\ command[w].type = "Allocate"
    /\ products[command[w].line.sku] # NoVersion
    /\ Track(w, Find(command[w].line.sku))

\* Allocate throws InvalidSku, which is neither a Poco exception nor a runtime_error.
RejectUnknownSku(w) ==
    /\ pc[w] = "load"
    /\ command[w].type = "Allocate"
    /\ products[command[w].line.sku] = NoVersion
    /\ Answered(w, Failure(command[w], "exception"))

LoadForChangeBatchQuantity(w) ==
    /\ pc[w] = "load"
    /\ command[w].type = "ChangeBatchQuantity"
    /\ batches[command[w].ref] # NoBatch
    /\ Track(w, Find(batches[command[w].ref].sku))

RejectUnknownReference(w) ==
    /\ pc[w] = "load"
    /\ command[w].type = "ChangeBatchQuantity"
    /\ batches[command[w].ref] = NoBatch
    /\ Answered(w, Failure(command[w], "exception"))

\* The transaction does not begin, or a statement of the load fails.
LoadFails(w) ==
    /\ pc[w] = "load"
    /\ Answered(w, Failure(command[w], "Poco"))

\* What the command makes of the tracked product; empty when the domain throws.
Outcomes(w) ==
    LET c == command[w]
        p == tracked[w]
    IN CASE c.type = "CreateBatch" -> {WithBatch(p, c.ref, NewBatch(c.sku, c.qty, c.eta))}
         [] c.type = "Allocate" -> AllocateOutcomes(p, c.line)
         [] c.type = "ChangeBatchQuantity" -> ChangeQuantityOutcomes(p, c.ref, c.qty)

\* The handler works on the product and commits; its events are queued.
Execute(w) ==
    /\ pc[w] = "execute"
    /\ \E p \in Outcomes(w) :
        /\ Commit(w, p)
        /\ pc' = [pc EXCEPT ![w] = "events"]
        /\ queue' = [queue EXCEPT ![w] = p.messages]
        /\ tracked' = [tracked EXCEPT ![w] = ClearMessages(SetModified(p, FALSE))]
    /\ UNCHANGED <<view, unshown, outVars, command, handler>>

\* Commit, or the domain, throws: the whole unit of work is rolled back.
\* Mutant: HandleCommand swallows the exception as HandleEvent does, and takes the messages.
ExecuteSwallows(w) ==
    /\ pc[w] = "execute"
    /\ \E p \in Outcomes(w) :
        /\ ~CanCommit(w, p)
        /\ pc' = [pc EXCEPT ![w] = "events"]
        /\ queue' = [queue EXCEPT ![w] = p.messages]
        /\ tracked' = [tracked EXCEPT ![w] = ClearMessages(p)]
    /\ UNCHANGED <<dbVars, outVars, command, handler, oldVersion, snapshot, stale, placed>>
ExecuteFails(w) ==
    /\ pc[w] = "execute"
    /\ \/ \E p \in Outcomes(w) : \E x \in Exceptions(w, p) : Answered(w, Failure(command[w], x))
       \/ Outcomes(w) = {} /\ Answered(w, Failure(command[w], "runtime_error"))

-----------------------------------------------------------------------------
(* Events.  Allocated: publish, then add to the read model.  Deallocated: remove from the   *)
(* read model, then reallocate.  OutOfStock: notify.                                        *)

Handling(w, type, n) ==
    /\ pc[w] = "events"
    /\ queue[w] # <<>>
    /\ Head(queue[w]).type = type
    /\ handler[w] = n

\* The publisher never throws: when Redis does not take the message it is lost.
\* Mutant: a failed publication is the client's error.
PublishOrFail(w) ==
    /\ Handling(w, "Allocated", 1)
    /\ \/ /\ published' = published \cup {<<Head(queue[w]).line, Head(queue[w]).batchref>>}
          /\ Handled(w, tracked[w], FALSE)
          /\ UNCHANGED <<dbVars, notified, inbox, answers, crashes, oldVersion, snapshot, stale,
                         placed>>
       \/ Answered(w, "500")
PublishAllocatedEvent(w) ==
    /\ Handling(w, "Allocated", 1)
    /\ LET e == Head(queue[w])
       IN \/ published' = published \cup {<<e.line, e.batchref>>}
          \/ UNCHANGED published
    /\ Handled(w, tracked[w], FALSE)
    /\ UNCHANGED <<dbVars, notified, inbox, answers, crashes, oldVersion, snapshot, stale, placed>>

\* INSERT, then Commit of everything the unit of work still holds.  If the database refuses the
\* INSERT, nobody tries again.
\* Mutant: the INSERT is built but not executed.
AddNothingToReadModel(w) ==
    /\ Handling(w, "Allocated", 2)
    /\ LET p == tracked[w]
       IN \/ Commit(w, p) /\ Handled(w, SetModified(p, FALSE), TRUE) /\ UNCHANGED <<view, unshown>>
          \/ CommitFails(w, p, TRUE)
    /\ UNCHANGED outVars
AddAllocationToReadModel(w) ==
    /\ Handling(w, "Allocated", 2)
    /\ LET e == Head(queue[w])
           p == tracked[w]
           row == {<<e.line, e.batchref>>}
       IN \/ /\ <<"allocations_view", e.line>> \notin Conflicts(w)
             /\ Commit(w, p)
             /\ view' = view \cup row
             /\ Handled(w, SetModified(p, FALSE), TRUE)
             /\ UNCHANGED unshown
          \/ CommitFails(w, p, TRUE)
          \/ StatementFails(w, p, TRUE) /\ unshown' = unshown \cup row
    /\ UNCHANGED outVars

\* The DELETE statement is built but never executed (no `now`); only Commit takes effect.
RemoveAllocationFromReadModel(w) ==
    /\ Handling(w, "Deallocated", 1)
    /\ LET p == tracked[w]
       IN \/ Commit(w, p) /\ Handled(w, SetModified(p, FALSE), FALSE) /\ UNCHANGED <<view, unshown>>
          \/ CommitFails(w, p, FALSE)
    /\ UNCHANGED outVars

\* Reallocate gets the tracked product, not the row, and allocates; the first statement of
\* its Commit takes the snapshot if the transaction has none yet.
Reallocate(w) ==
    /\ Handling(w, "Deallocated", 2)
    /\ \E p \in AllocateOutcomes(tracked[w], Head(queue[w]).line) :
        /\ tracked' = [tracked EXCEPT ![w] = p]
        /\ snapshot' = [snapshot EXCEPT ![w] = @ \/ p.modified]
    /\ stale' = [stale EXCEPT ![w] = Conflicts(w)]
    /\ pc' = [pc EXCEPT ![w] = "reallocate"]
    /\ UNCHANGED <<dbVars, outVars, command, queue, handler, oldVersion, placed>>

CommitReallocation(w) ==
    /\ pc[w] = "reallocate"
    /\ LET p == tracked[w]
       IN \/ Commit(w, p) /\ Handled(w, SetModified(p, FALSE), TRUE) /\ UNCHANGED <<view, unshown>>
          \/ CommitFails(w, p, TRUE)
    /\ UNCHANGED outVars

SendOutOfStockNotification(w) ==
    /\ Handling(w, "OutOfStock", 1)
    /\ notified' = notified \cup {Head(queue[w]).sku}
    /\ Handled(w, tracked[w], TRUE)
    /\ UNCHANGED <<dbVars, published, inbox, answers, crashes, oldVersion, snapshot, stale, placed>>

\* The queue is empty: Handle returns.
\* Mutant: it returns once the command is done.
FinishEarly(w) == pc[w] = "events" /\ Answered(w, Success(command[w]))
Finish(w) ==
    /\ pc[w] = "events"
    /\ queue[w] = <<>>
    /\ Answered(w, Success(command[w]))

-----------------------------------------------------------------------------

\* The process dies: open transactions roll back, the bus's queues and the commands in
\* flight are gone, and it starts again.
Crash ==
    /\ crashes < MaxCrashes
    /\ crashes' = crashes + 1
    /\ pc' = [w \in Workers |-> "idle"]
    /\ command' = [w \in Workers |-> NoCommand]
    /\ queue' = [w \in Workers |-> <<>>]
    /\ handler' = [w \in Workers |-> 1]
    /\ tracked' = [w \in Workers |-> NoProduct]
    /\ oldVersion' = [w \in Workers |-> 0]
    /\ snapshot' = [w \in Workers |-> FALSE]
    /\ stale' = [w \in Workers |-> {}]
    /\ UNCHANGED <<dbVars, published, notified, inbox, answers, placed>>

HandleCommand(w) ==
    \/ LoadForAddBatch(w) \/ LoadForAllocate(w) \/ LoadForChangeBatchQuantity(w)
    \/ LoadFails(w) \/ RejectUnknownSku(w) \/ RejectUnknownReference(w)
    \/ Execute(w) \/ ExecuteFails(w)

HandleEvent(w) ==
    \/ PublishAllocatedEvent(w) \/ AddAllocationToReadModel(w)
    \/ RemoveAllocationFromReadModel(w) \/ Reallocate(w) \/ CommitReallocation(w)
    \/ SendOutOfStockNotification(w)

Step(w) == HandleCommand(w) \/ HandleEvent(w) \/ Finish(w)

\* The clients have sent everything: the server waits.
NothingToDo ==
    /\ \A w \in Workers : pc[w] = "idle"
    /\ \A c \in Commands : inbox[c] = 0
    /\ UNCHANGED vars

Next ==
    \/ \E w \in Workers : Step(w)
    \/ \E c \in Commands : OnRedisMessage(c) \/ \E w \in HttpWorkers : HandleRequest(w, c)
    \/ Crash
    \/ NothingToDo

Spec == Init /\ [][Next]_vars

\* A thread that handles a command goes on with it: each is scheduled and every call of it
\* returns or throws.
FairSpec == Spec /\ \A w \in Workers : WF_vars(Step(w))
=============================================================================
