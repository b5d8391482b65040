---------------------------- MODULE CommitFlush ----------------------------
(***************************************************************************)
(* A commit statement by statement.  ProductMapper::Update deletes and     *)
(* inserts the rows of the modified batches, in the order of a hash set,   *)
(* then updates the product's row; AddBatch of a new product has inserted  *)
(* that row when it loaded the product.  Each statement takes the lock of  *)
(* its row and keeps it to the end of the transaction.  A statement on a   *)
(* row that another transaction holds waits; under REPEATABLE READ it      *)
(* fails when that transaction commits and goes on when it rolls back.     *)
(*                                                                         *)
(* The row of a batch stands for its order_lines and allocations too: the  *)
(* first of the DELETEs and INSERTs of the reference takes it.             *)
(***************************************************************************)
EXTENDS Integers, FiniteSets

CONSTANTS
    HttpWorkers,      \* threads of the HTTP server
    Listener,         \* the thread of the Redis listener
    Skus, Refs,
    Stored,           \* the rows in the database when the server starts
    NoOne,            \* "nobody holds the row"
    NoRow,            \* "no statement is being executed"
    MaxTransactions   \* bound of the number of transactions, for model checking

Workers == HttpWorkers \cup {Listener}

ProductRow(sku) == <<"products", sku>>
BatchRows(refs) == {"batches"} \X refs

ProductRows == {"products"} \X Skus
Rows == ProductRows \cup BatchRows(Refs)

ASSUME FlushAssumption ==
    /\ Listener \notin HttpWorkers
    /\ NoOne \notin Workers
    /\ NoRow \notin Rows
    /\ Stored \subseteq Rows
    /\ MaxTransactions \in Nat

VARIABLES
    version,    \* committed rows: how often each was written; 0: there is no such row
    owner,      \* the transaction that holds the lock of the row
    open,       \* threads with a transaction
    snapshot,   \* per thread: the versions its transaction sees
    todo,       \* per thread: the rows it still has to write
    statement,  \* per thread: the row of the statement it executes
    begun       \* transactions so far

vars == <<version, owner, open, snapshot, todo, statement, begun>>

TypeOK ==
    /\ version \in [Rows -> Nat]
    /\ owner \in [Rows -> Workers \cup {NoOne}]
    /\ open \subseteq Workers
    /\ snapshot \in [Workers -> [Rows -> Nat]]
    /\ todo \in [Workers -> SUBSET Rows]
    /\ statement \in [Workers -> Rows \cup {NoRow}]
    /\ begun \in Nat

NoSnapshot == [x \in Rows |-> 0]

Init ==
    /\ version = [x \in Rows |-> IF x \in Stored THEN 1 ELSE 0]
    /\ owner = [x \in Rows |-> NoOne]
    /\ open = {}
    /\ snapshot = [w \in Workers |-> NoSnapshot]
    /\ todo = [w \in Workers |-> {}]
    /\ statement = [w \in Workers |-> NoRow]
    /\ begun = 0

-----------------------------------------------------------------------------
(* The beginning: what is loaded, and what will be written *)

Begin(w, rows, first) ==
    /\ w \notin open
    /\ begun < MaxTransactions
    /\ begun' = begun + 1
    /\ open' = open \cup {w}
    /\ snapshot' = [snapshot EXCEPT ![w] = version]
    /\ todo' = [todo EXCEPT ![w] = rows]
    /\ statement' = [statement EXCEPT ![w] = first]
    /\ UNCHANGED <<version, owner>>

Exists(x) == version[x] > 0

\* AddBatch finds no product of this SKU: Add inserts its row at once.
AddNewProduct(w, sku, ref) ==
    /\ ~Exists(ProductRow(sku))
    /\ Begin(w, {ProductRow(sku)} \cup BatchRows({ref}), ProductRow(sku))

\* AddBatch and Allocate modify one batch of a stored product.
\* Mutant: a command of an HTTP thread that modifies several batches.
ModifyBatches(w, sku, ref) ==
    /\ Exists(ProductRow(sku))
    /\ Begin(w, {ProductRow(sku)} \cup BatchRows(Refs), NoRow)
ModifyBatch(w, sku, ref) ==
    /\ Exists(ProductRow(sku))
    /\ Begin(w, {ProductRow(sku)} \cup BatchRows({ref}), NoRow)

\* ChangeBatchQuantity, and then Reallocate, whose modified set still holds what earlier
\* commits of the unit of work wrote: several batches.
ChangeBatches(sku, refs) ==
    /\ Exists(ProductRow(sku))
    /\ refs # {} /\ \A x \in BatchRows(refs) : Exists(x)
    /\ Begin(Listener, {ProductRow(sku)} \cup BatchRows(refs), NoRow)

-----------------------------------------------------------------------------
(* The statements *)

\* Batches first, in any order; the product's row last.
NextInOrder(w, x) == x \in ProductRows => todo[w] \subseteq ProductRows

Issue(w, x) ==
    /\ w \in open
    /\ statement[w] = NoRow
    /\ x \in todo[w]
    /\ NextInOrder(w, x)
    /\ statement' = [statement EXCEPT ![w] = x]
    /\ todo' = [todo EXCEPT ![w] = @ \ {x}]
    /\ UNCHANGED <<version, owner, open, snapshot, begun>>

Free(w, x) == owner[x] \in {w, NoOne}

\* Another transaction committed the row, or inserted it, since the snapshot.
\* Mutant: READ COMMITTED.
NeverStale(w, x) == FALSE
Stale(w, x) == version[x] # snapshot[w][x]

Write(w) ==
    /\ statement[w] # NoRow
    /\ Free(w, statement[w])
    /\ ~Stale(w, statement[w])
    /\ owner' = [owner EXCEPT ![statement[w]] = w]
    /\ statement' = [statement EXCEPT ![w] = NoRow]
    /\ UNCHANGED <<version, open, snapshot, todo, begun>>

-----------------------------------------------------------------------------
(* The end *)

\* Mutant: the session returns to the pool without a rollback.
KeepLocks(w) == UNCHANGED owner
ReleaseLocks(w) == owner' = [x \in Rows |-> IF owner[x] = w THEN NoOne ELSE owner[x]]

End(w) ==
    /\ open' = open \ {w}
    /\ todo' = [todo EXCEPT ![w] = {}]
    /\ statement' = [statement EXCEPT ![w] = NoRow]
    /\ snapshot' = [snapshot EXCEPT ![w] = NoSnapshot]
    /\ UNCHANGED begun

Commit(w) ==
    /\ w \in open
    /\ statement[w] = NoRow
    /\ todo[w] = {}
    /\ version' = [x \in Rows |-> IF owner[x] = w THEN snapshot[w][x] + 1 ELSE version[x]]
    /\ owner' = [x \in Rows |-> IF owner[x] = w THEN NoOne ELSE owner[x]]
    /\ End(w)

\* "Could not serialize access", or a unique violation: the unit of work rolls back.
SerializationFailure(w) ==
    /\ statement[w] # NoRow
    /\ Free(w, statement[w])
    /\ Stale(w, statement[w])
    /\ ReleaseLocks(w)
    /\ UNCHANGED version
    /\ End(w)

\* Any other exception, a lost connection, the end of the process.
RollBack(w) ==
    /\ w \in open
    /\ ReleaseLocks(w)
    /\ UNCHANGED version
    /\ End(w)

Step(w) ==
    \/ \E x \in Rows : Issue(w, x)
    \/ Write(w)
    \/ Commit(w)
    \/ SerializationFailure(w)

Rest == open = {} /\ UNCHANGED vars

Next ==
    \/ \E w \in HttpWorkers, sku \in Skus, ref \in Refs :
          AddNewProduct(w, sku, ref) \/ ModifyBatch(w, sku, ref)
    \/ \E sku \in Skus : \E refs \in SUBSET Refs : ChangeBatches(sku, refs)
    \/ \E w \in Workers : Step(w) \/ RollBack(w)
    \/ Rest

Spec == Init /\ [][Next]_vars

\* Each thread goes on with the flush it is in, and PostgreSQL lets a statement pass whose
\* lock is free.
FairSpec == Spec /\ \A w \in Workers : WF_vars(Step(w))

-----------------------------------------------------------------------------
(* Properties *)

\* What w holds, and all that it writes.
Owned(w) == {x \in Rows : owner[x] = w}
Planned(w) == Owned(w) \cup todo[w] \cup ({statement[w]} \ {NoRow})

\* A held lock freezes the row: it is as the holder's snapshot shows it until the holder ends.
LocksAreCurrent ==
    \A w \in Workers : \A x \in Owned(w) : w \in open /\ version[x] = snapshot[w][x]

SnapshotsArePast == \A w \in Workers : \A x \in Rows : snapshot[w][x] <= version[x]

IdleHasNothingToWrite ==
    \A w \in Workers \ open : todo[w] = {} /\ statement[w] = NoRow

\* A transaction writes one product and, in an HTTP thread, one batch.
PlansOneProduct ==
    \A w \in open : \E sku \in Skus : \E refs \in SUBSET Refs :
        /\ Planned(w) = {ProductRow(sku)} \cup BatchRows(refs)
        /\ w \in HttpWorkers => \E ref \in Refs : refs = {ref}

\* A stored product's row is written when no batch is left to write ...
StoredProductIsLast ==
    \A w \in open : \A p \in ProductRows :
        snapshot[w][p] > 0 /\ (owner[p] = w \/ statement[w] = p) =>
            todo[w] \cup {statement[w]} \subseteq ProductRows \cup {NoRow}

\* ... and a new product's before anything else.
NewProductIsFirst ==
    \A w \in open : \A p \in ProductRows \cap Planned(w) :
        snapshot[w][p] = 0 => /\ w \in HttpWorkers
                              /\ owner[p] = w \/ (statement[w] = p /\ Owned(w) = {})

\* The inductive invariant: row locks are held in an order, on rows nobody else can change.
FlushInvariant ==
    /\ TypeOK
    /\ LocksAreCurrent
    /\ SnapshotsArePast
    /\ IdleHasNothingToWrite
    /\ PlansOneProduct
    /\ StoredProductIsLast
    /\ NewProductIsFirst

\* v holds the row that w's statement asks for.
WaitsFor(w, v) == v # w /\ statement[w] # NoRow /\ owner[statement[w]] = v

\* No deadlock: in no group of threads does each wait for another one of the group.  Only the
\* listener writes more than one batch, and the product's row comes last unless it is new.
NoCircularWait ==
    \A S \in SUBSET Workers : S # {} => \E w \in S : \A v \in S : ~WaitsFor(w, v)

\* Statements spread over time, waits and rollbacks amount to atomic commits: none writes half
\* of its rows, none overwrites what another one wrote since its snapshot.
Atomic == INSTANCE AtomicCommit
ImplementsAtomicCommit == Atomic!Spec

\* Every flush ends: waiting for row locks is finite.
FlushesEnd == \A w \in Workers : w \in open ~> w \notin open
=============================================================================
