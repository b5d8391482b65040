-------------------------- MODULE CommitFlushProofs --------------------------
(***************************************************************************)
(* Commits never deadlock and amount to atomic steps, for any number of    *)
(* threads, products, batches and transactions.                            *)
(***************************************************************************)
EXTENDS CommitFlush, TLAPS

LEMMA RowFacts ==
    /\ ProductRows \subseteq Rows
    /\ \A sku \in Skus : ProductRow(sku) \in ProductRows
    /\ \A refs \in SUBSET Refs : BatchRows(refs) \subseteq Rows /\ BatchRows(refs) \cap ProductRows = {}
    /\ NoRow \notin Rows
BY FlushAssumption DEF ProductRows, ProductRow, BatchRows, Rows

LEMMA InitFlush == Init => FlushInvariant
<1> SUFFICES ASSUME Init PROVE FlushInvariant
  OBVIOUS
<1>1. TypeOK
  BY FlushAssumption DEF Init, TypeOK, NoSnapshot
<1>2. LocksAreCurrent /\ SnapshotsArePast
  BY FlushAssumption DEF Init, LocksAreCurrent, Owned, SnapshotsArePast, NoSnapshot
<1>3. IdleHasNothingToWrite /\ PlansOneProduct /\ StoredProductIsLast /\ NewProductIsFirst
  BY DEF Init, IdleHasNothingToWrite, PlansOneProduct, StoredProductIsLast, NewProductIsFirst
<1>4. QED
  BY <1>1, <1>2, <1>3 DEF FlushInvariant

-----------------------------------------------------------------------------
(* One lemma per kind of step *)

LEMMA BeginFlush ==
    ASSUME FlushInvariant, NEW w \in Workers, NEW sku \in Skus, NEW refs \in SUBSET Refs,
           w \in HttpWorkers => \E ref \in Refs : refs = {ref},
           NEW first,
           \/ first = NoRow /\ Exists(ProductRow(sku))
           \/ first = ProductRow(sku) /\ ~Exists(ProductRow(sku)) /\ w \in HttpWorkers,
           Begin(w, {ProductRow(sku)} \cup BatchRows(refs), first)
    PROVE  FlushInvariant'
<1> DEFINE rows == {ProductRow(sku)} \cup BatchRows(refs)
<1>0. rows \subseteq Rows /\ first \in Rows \cup {NoRow} /\ NoRow \notin Rows
  BY RowFacts
<1>1. TypeOK'
  BY <1>0 DEF FlushInvariant, TypeOK, Begin
<1>2. \A v \in Workers \ {w} :
        /\ snapshot'[v] = snapshot[v] /\ todo'[v] = todo[v] /\ statement'[v] = statement[v]
        /\ Planned(v)' = Planned(v)
        /\ Owned(v)' = Owned(v)
        /\ v \in open' <=> v \in open
  BY DEF FlushInvariant, TypeOK, Begin, Planned, Owned
<1>3. Owned(w) = {} /\ Owned(w)' = {}
  BY DEF FlushInvariant, LocksAreCurrent, Begin, Owned
<1>4. /\ snapshot'[w] = version /\ todo'[w] = rows /\ statement'[w] = first
      /\ open' = open \cup {w} /\ UNCHANGED <<version, owner>>
  BY DEF FlushInvariant, TypeOK, Begin
<1>5. Planned(w)' = rows
  BY <1>3, <1>4 DEF Planned
<1>6. LocksAreCurrent'
  BY <1>2, <1>3, <1>4 DEF FlushInvariant, LocksAreCurrent
<1>7. SnapshotsArePast'
  BY <1>2, <1>4 DEF FlushInvariant, TypeOK, SnapshotsArePast
<1>8. IdleHasNothingToWrite'
  BY <1>2, <1>4 DEF FlushInvariant, IdleHasNothingToWrite
<1>9. PlansOneProduct'
  <2>1. \A v \in open : v # w => v \in Workers \ {w}
    BY DEF FlushInvariant, TypeOK
  <2>2. QED
    BY <1>2, <1>4, <1>5, <2>1 DEF FlushInvariant, PlansOneProduct
<1>10. StoredProductIsLast'
  <2>1. ASSUME NEW p \in ProductRows, snapshot'[w][p] > 0, owner'[p] = w \/ statement'[w] = p
        PROVE  FALSE
    <3>1. owner'[p] # w
      BY <1>3, RowFacts DEF Owned
    <3>2. p = first /\ first = ProductRow(sku) /\ version[p] > 0
      BY <1>4, <2>1, <3>1, RowFacts
    <3>3. QED
      BY <3>2, RowFacts DEF Exists
  <2>2. \A v \in open : v # w => v \in Workers \ {w}
    BY DEF FlushInvariant, TypeOK
  <2>3. QED
    BY <1>2, <1>4, <2>1, <2>2 DEF FlushInvariant, StoredProductIsLast
<1>11. NewProductIsFirst'
  <2>1. ASSUME NEW p \in ProductRows \cap rows, snapshot'[w][p] = 0
        PROVE  w \in HttpWorkers /\ statement'[w] = p
    <3>1. p = ProductRow(sku)
      BY RowFacts
    <3>2. ~Exists(ProductRow(sku))
      BY <1>4, <2>1, <3>1 DEF Exists
    <3>3. QED
      BY <1>4, <3>1, <3>2
  <2>2. \A v \in open : v # w => v \in Workers \ {w}
    BY DEF FlushInvariant, TypeOK
  <2>3. QED
    BY <1>2, <1>3, <1>4, <1>5, <2>1, <2>2 DEF FlushInvariant, NewProductIsFirst
<1>12. QED
  BY <1>1, <1>6, <1>7, <1>8, <1>9, <1>10, <1>11 DEF FlushInvariant

LEMMA IssueFlush ==
    ASSUME FlushInvariant, NEW w \in Workers, NEW x \in Rows, Issue(w, x)
    PROVE  FlushInvariant'
<1>1. TypeOK'
  BY DEF FlushInvariant, TypeOK, Issue
<1>2. /\ statement'[w] = x /\ todo'[w] = todo[w] \ {x} /\ x \in todo[w] /\ statement[w] = NoRow
      /\ UNCHANGED <<version, owner, open, snapshot>> /\ w \in open
      /\ \A v \in Workers \ {w} : statement'[v] = statement[v] /\ todo'[v] = todo[v]
  BY DEF FlushInvariant, TypeOK, Issue
<1>3. \A v \in Workers : Owned(v)' = Owned(v) /\ Planned(v)' = Planned(v)
  <2>1. \A v \in Workers : Owned(v)' = Owned(v)
    BY <1>2 DEF Owned
  <2>2. \A v \in Workers \ {w} : Planned(v)' = Planned(v)
    BY <1>2, <2>1 DEF Planned
  <2>3. Planned(w)' = Planned(w)
    BY <1>2, <2>1, RowFacts DEF Planned
  <2>4. QED
    BY <2>1, <2>2, <2>3
<1>4. \A v \in open : v \in Workers
  BY DEF FlushInvariant, TypeOK
<1>5. LocksAreCurrent' /\ SnapshotsArePast' /\ PlansOneProduct'
  BY <1>2, <1>3, <1>4 DEF FlushInvariant, LocksAreCurrent, SnapshotsArePast, PlansOneProduct
<1>6. IdleHasNothingToWrite'
  BY <1>2 DEF FlushInvariant, IdleHasNothingToWrite
<1>7. StoredProductIsLast'
  <2>1. ASSUME NEW p \in ProductRows, snapshot[w][p] > 0, owner[p] = w \/ x = p
        PROVE  todo'[w] \cup {x} \subseteq ProductRows \cup {NoRow}
    <3>1. CASE owner[p] = w
      BY <1>2, <2>1, <3>1 DEF FlushInvariant, StoredProductIsLast
    <3>2. CASE x = p
      BY <1>2, <2>1, <3>2 DEF Issue, NextInOrder
    <3>3. QED
      BY <2>1, <3>1, <3>2
  <2>2. QED
    BY <1>2, <1>4, <2>1 DEF FlushInvariant, StoredProductIsLast
<1>8. NewProductIsFirst'
  <2>1. ASSUME NEW p \in ProductRows \cap Planned(w), snapshot[w][p] = 0
        PROVE  w \in HttpWorkers /\ owner[p] = w
    BY <1>2, <2>1, RowFacts DEF FlushInvariant, NewProductIsFirst
  <2>2. QED
    BY <1>2, <1>3, <1>4, <2>1 DEF FlushInvariant, NewProductIsFirst
<1>9. QED
  BY <1>1, <1>5, <1>6, <1>7, <1>8 DEF FlushInvariant

LEMMA WriteFlush ==
    ASSUME FlushInvariant, NEW w \in Workers, Write(w)
    PROVE  FlushInvariant'
<1> DEFINE x == statement[w]
<1>0. x \in Rows /\ w \in open
  BY DEF FlushInvariant, TypeOK, Write, IdleHasNothingToWrite
<1>1. TypeOK'
  BY <1>0 DEF FlushInvariant, TypeOK, Write
<1>2. /\ statement'[w] = NoRow /\ owner[x] \in {w, NoOne} /\ version[x] = snapshot[w][x]
      /\ UNCHANGED <<version, open, snapshot, todo>>
      /\ \A v \in Workers \ {w} : statement'[v] = statement[v]
      /\ owner'[x] = w /\ \A y \in Rows \ {x} : owner'[y] = owner[y]
  BY <1>0 DEF FlushInvariant, TypeOK, Write, Free, Stale
<1>3. \A v \in Workers \ {w} : Owned(v)' = Owned(v) /\ Planned(v)' = Planned(v)
  <2>1. \A v \in Workers \ {w} : Owned(v)' = Owned(v)
    BY <1>0, <1>2, FlushAssumption DEF Owned
  <2>2. QED
    BY <1>2, <2>1 DEF Planned
<1>4. Owned(w)' = Owned(w) \cup {x}
  BY <1>0, <1>2 DEF Owned
<1>5. Planned(w)' = Planned(w)
  BY <1>0, <1>2, <1>4, RowFacts DEF Planned
<1>6. \A v \in open : v \in Workers
  BY DEF FlushInvariant, TypeOK
<1>7. LocksAreCurrent'
  BY <1>0, <1>2, <1>3, <1>4 DEF FlushInvariant, LocksAreCurrent
<1>8. SnapshotsArePast' /\ IdleHasNothingToWrite'
  BY <1>0, <1>2 DEF FlushInvariant, SnapshotsArePast, IdleHasNothingToWrite
<1>9. PlansOneProduct'
  BY <1>2, <1>3, <1>5, <1>6 DEF FlushInvariant, PlansOneProduct
<1>10. StoredProductIsLast'
  <2>1. ASSUME NEW p \in ProductRows, snapshot[w][p] > 0, owner'[p] = w
        PROVE  todo[w] \subseteq ProductRows \cup {NoRow}
    <3>1. owner[p] = w \/ statement[w] = p
      BY <1>2, <2>1, RowFacts
    <3>2. QED
      BY <1>0, <2>1, <3>1 DEF FlushInvariant, StoredProductIsLast
  <2>2. ASSUME NEW v \in open, v # w, NEW p \in ProductRows, snapshot[v][p] > 0,
               owner'[p] = v \/ statement[v] = p
        PROVE  todo[v] \cup {statement[v]} \subseteq ProductRows \cup {NoRow}
    <3>1. owner[p] = v \/ statement[v] = p
      BY <1>2, <2>2, RowFacts
    <3>2. QED
      BY <2>2, <3>1 DEF FlushInvariant, StoredProductIsLast
  <2>3. \A p \in ProductRows : statement'[w] # p
    BY <1>2, RowFacts
  <2>4. QED
    BY <1>2, <1>6, <2>1, <2>2, <2>3 DEF StoredProductIsLast
<1>11. NewProductIsFirst'
  <2>1. ASSUME NEW p \in ProductRows \cap Planned(w), snapshot[w][p] = 0
        PROVE  w \in HttpWorkers /\ owner'[p] = w
    <3>1. w \in HttpWorkers /\ (owner[p] = w \/ statement[w] = p)
      BY <1>0, <2>1 DEF FlushInvariant, NewProductIsFirst
    <3>2. QED
      BY <1>2, <3>1, RowFacts
  <2>2. ASSUME NEW v \in open, v # w, NEW p \in ProductRows \cap Planned(v), snapshot[v][p] = 0
        PROVE  v \in HttpWorkers /\ (owner'[p] = v \/ (statement'[v] = p /\ Owned(v)' = {}))
    <3>1. v \in Workers \ {w} /\ p \in Rows
      BY <1>6, <2>2, RowFacts
    <3>2. v \in HttpWorkers /\ (owner[p] = v \/ (statement[v] = p /\ Owned(v) = {}))
      BY <2>2 DEF FlushInvariant, NewProductIsFirst
    <3>3. owner[p] = v => owner'[p] = v
      BY <1>2, <3>1, FlushAssumption
    <3>4. QED
      BY <1>2, <1>3, <3>1, <3>2, <3>3
  <2>3. QED
    BY <1>2, <1>3, <1>5, <1>6, <2>1, <2>2 DEF NewProductIsFirst
<1>12. QED
  BY <1>1, <1>7, <1>8, <1>9, <1>10, <1>11 DEF FlushInvariant

\* The end of a transaction: committed or not, its locks go and the others stay as they are.
LEMMA EndFlush ==
    ASSUME FlushInvariant, NEW w \in Workers,
           End(w), ReleaseLocks(w), version' \in [Rows -> Nat],
           \A x \in Rows : version[x] <= version'[x],
           \A x \in Rows : owner[x] # w => version'[x] = version[x]
    PROVE  FlushInvariant'
<1>1. /\ TypeOK'
      /\ statement'[w] = NoRow /\ todo'[w] = {} /\ snapshot'[w] = NoSnapshot /\ open' = open \ {w}
      /\ \A v \in Workers \ {w} :
            statement'[v] = statement[v] /\ todo'[v] = todo[v] /\ snapshot'[v] = snapshot[v]
      /\ \A x \in Rows : owner'[x] = IF owner[x] = w THEN NoOne ELSE owner[x]
  BY DEF FlushInvariant, TypeOK, End, ReleaseLocks, NoSnapshot
<1>2. \A v \in Workers \ {w} : Owned(v)' = Owned(v) /\ Planned(v)' = Planned(v)
  <2>1. \A v \in Workers \ {w} : Owned(v)' = Owned(v)
    BY <1>1, FlushAssumption DEF Owned
  <2>2. QED
    BY <1>1, <2>1 DEF Planned
<1>3. Owned(w)' = {}
  BY <1>1, FlushAssumption DEF Owned
<1>4. \A v \in open' : v \in Workers \ {w} /\ v \in open
  BY <1>1 DEF FlushInvariant, TypeOK
<1>5. LocksAreCurrent'
  <2>1. ASSUME NEW v \in Workers \ {w}, NEW x \in Owned(v)
        PROVE  v \in open' /\ version'[x] = snapshot'[v][x]
    <3>1. x \in Rows /\ owner[x] = v
      BY <2>1 DEF Owned
    <3>2. QED
      BY <1>1, <2>1, <3>1 DEF FlushInvariant, LocksAreCurrent
  <2>2. QED
    BY <1>2, <1>3, <2>1 DEF LocksAreCurrent
<1>6. SnapshotsArePast'
  <2>1. ASSUME NEW v \in Workers \ {w}, NEW x \in Rows PROVE snapshot'[v][x] <= version'[x]
    <3>1. snapshot[v][x] <= version[x] /\ version[x] <= version'[x]
      BY DEF FlushInvariant, SnapshotsArePast
    <3>2. snapshot[v][x] \in Nat /\ version[x] \in Nat /\ version'[x] \in Nat
      BY DEF FlushInvariant, TypeOK
    <3>3. QED
      BY <1>1, <3>1, <3>2
  <2>2. \A x \in Rows : snapshot'[w][x] <= version'[x]
    BY <1>1 DEF NoSnapshot
  <2>3. QED
    BY <2>1, <2>2 DEF SnapshotsArePast
<1>7. IdleHasNothingToWrite'
  BY <1>1 DEF FlushInvariant, IdleHasNothingToWrite
<1>8. PlansOneProduct'
  BY <1>2, <1>4 DEF FlushInvariant, PlansOneProduct
<1>9. StoredProductIsLast'
  <2>1. ASSUME NEW v \in open', NEW p \in ProductRows, owner'[p] = v PROVE owner[p] = v
    BY <1>1, <1>4, <2>1, FlushAssumption, RowFacts
  <2>2. QED
    BY <1>1, <1>4, <2>1 DEF FlushInvariant, StoredProductIsLast
<1>10. NewProductIsFirst'
  <2>1. ASSUME NEW v \in open', NEW p \in ProductRows, owner[p] = v PROVE owner'[p] = v
    BY <1>1, <1>4, <2>1, RowFacts
  <2>2. QED
    BY <1>1, <1>2, <1>4, <2>1 DEF FlushInvariant, NewProductIsFirst
<1>11. QED
  BY <1>1, <1>5, <1>6, <1>7, <1>8, <1>9, <1>10 DEF FlushInvariant

\* What a Commit stores: the rows it held, each written once more.
LEMMA CommitWrites ==
    ASSUME FlushInvariant, NEW w \in Workers, Commit(w)
    PROVE  version' = [x \in Rows |-> IF x \in Owned(w) THEN version[x] + 1 ELSE version[x]]
<1>1. \A x \in Rows : owner[x] = w => snapshot[w][x] = version[x]
  BY DEF FlushInvariant, LocksAreCurrent, Owned
<1>2. version' = [x \in Rows |-> IF owner[x] = w THEN snapshot[w][x] + 1 ELSE version[x]]
  BY DEF Commit
<1>3. QED
  BY <1>1, <1>2 DEF Owned

LEMMA CommitFlushes ==
    ASSUME FlushInvariant, NEW w \in Workers, Commit(w)
    PROVE  FlushInvariant'
<1>1. version' = [x \in Rows |-> IF x \in Owned(w) THEN version[x] + 1 ELSE version[x]]
  BY CommitWrites
<1>2. version \in [Rows -> Nat]
  BY DEF FlushInvariant, TypeOK
<1>3. version' \in [Rows -> Nat]
  BY <1>1, <1>2
<1>4. \A x \in Rows : version[x] <= version'[x] /\ (owner[x] # w => version'[x] = version[x])
  BY <1>1, <1>2 DEF Owned
<1>5. End(w) /\ ReleaseLocks(w)
  BY DEF Commit, ReleaseLocks
<1>6. QED
  BY <1>3, <1>4, <1>5, EndFlush

LEMMA RollBackFlush ==
    ASSUME FlushInvariant, NEW w \in Workers, End(w), ReleaseLocks(w), UNCHANGED version
    PROVE  FlushInvariant'
<1>1. version' \in [Rows -> Nat] /\ \A x \in Rows : version[x] <= version'[x]
  BY DEF FlushInvariant, TypeOK
<1>2. QED
  BY <1>1, EndFlush

LEMMA NextFlush == FlushInvariant /\ [Next]_vars => FlushInvariant'
<1> SUFFICES ASSUME FlushInvariant, [Next]_vars PROVE FlushInvariant'
  OBVIOUS
<1> USE DEF Workers
<1>1. ASSUME NEW w \in HttpWorkers, NEW sku \in Skus, NEW ref \in Refs, AddNewProduct(w, sku, ref)
      PROVE  FlushInvariant'
  BY <1>1, BeginFlush DEF AddNewProduct
<1>2. ASSUME NEW w \in HttpWorkers, NEW sku \in Skus, NEW ref \in Refs, ModifyBatch(w, sku, ref)
      PROVE  FlushInvariant'
  BY <1>2, BeginFlush DEF ModifyBatch
<1>3. ASSUME NEW sku \in Skus, NEW refs \in SUBSET Refs, ChangeBatches(sku, refs)
      PROVE  FlushInvariant'
  BY <1>3, BeginFlush, FlushAssumption DEF ChangeBatches
<1>4. ASSUME NEW w \in Workers, Step(w) PROVE FlushInvariant'
  <2>1. CASE \E x \in Rows : Issue(w, x)
    BY <2>1, IssueFlush
  <2>2. CASE Write(w)
    BY <2>2, WriteFlush
  <2>3. CASE Commit(w)
    BY <2>3, CommitFlushes
  <2>4. CASE SerializationFailure(w)
    BY <2>4, RollBackFlush DEF SerializationFailure
  <2>5. QED
    BY <1>4, <2>1, <2>2, <2>3, <2>4 DEF Step
<1>5. ASSUME NEW w \in Workers, RollBack(w) PROVE FlushInvariant'
  BY <1>5, RollBackFlush DEF RollBack
<1>6. CASE UNCHANGED vars
  <2> USE <1>6 DEF vars, FlushInvariant
  <2>1. \A v \in Workers : Owned(v)' = Owned(v) /\ Planned(v)' = Planned(v)
    BY DEF Owned, Planned
  <2>2. \A v \in open : v \in Workers
    BY DEF TypeOK
  <2>3. TypeOK' /\ SnapshotsArePast' /\ IdleHasNothingToWrite' /\ StoredProductIsLast'
    BY DEF TypeOK, SnapshotsArePast, IdleHasNothingToWrite, StoredProductIsLast
  <2>4. LocksAreCurrent' /\ PlansOneProduct' /\ NewProductIsFirst'
    BY <2>1, <2>2 DEF LocksAreCurrent, PlansOneProduct, NewProductIsFirst
  <2>5. QED
    BY <2>3, <2>4
<1>7. QED
  BY <1>1, <1>2, <1>3, <1>4, <1>5, <1>6 DEF Next, Rest

-----------------------------------------------------------------------------
(* The theorems *)

\* In every reachable state the locks are held in order, on rows nobody else can change (the
\* statements of ProductMapper::Update and AddBatch, for any number of threads).
THEOREM LocksAreOrdered == Spec => []FlushInvariant
BY InitFlush, NextFlush, PTL DEF Spec

\* How far the flush of a waiting thread has come: inserting a new product, at its one batch,
\* at one of the listener's batches, at the product's row.
Rank(w) ==
    IF statement[w] \in ProductRows
    THEN IF snapshot[w][statement[w]] = 0 THEN 1 ELSE 4
    ELSE IF w \in HttpWorkers THEN 2 ELSE 3

\* A thread that waits and makes another one wait is further than that one.
LEMMA WaitingGoesUp ==
    ASSUME FlushInvariant, NEW w \in Workers, NEW v \in Workers, NEW u \in Workers,
           WaitsFor(w, v), WaitsFor(v, u)
    PROVE  Rank(w) < Rank(v)
<1> DEFINE x == statement[w]
           y == statement[v]
<1>1. /\ v # w /\ u # v /\ x \in Rows /\ y \in Rows
      /\ owner[x] = v /\ owner[y] = u /\ x # y
  BY DEF FlushInvariant, TypeOK, WaitsFor
<1>2. w \in open /\ v \in open /\ version[x] = snapshot[v][x]
  BY <1>1 DEF FlushInvariant, LocksAreCurrent, Owned, IdleHasNothingToWrite, WaitsFor
<1>3. x \in Planned(w) /\ x \in Planned(v) /\ y \in Planned(v) /\ x \in Owned(v)
  BY <1>1, RowFacts DEF Planned, Owned
<1>4. snapshot[w][x] \in Nat /\ snapshot[v][x] \in Nat /\ snapshot[v][y] \in Nat
  BY <1>1 DEF FlushInvariant, TypeOK
<1>5. PICK sku \in Skus, refs \in SUBSET Refs :
        /\ Planned(v) = {ProductRow(sku)} \cup BatchRows(refs)
        /\ v \in HttpWorkers => \E ref \in Refs : refs = {ref}
  BY <1>2 DEF FlushInvariant, PlansOneProduct
<1>6. ~(x \in ProductRows /\ y \in ProductRows)
  BY <1>1, <1>3, <1>5, RowFacts
<1>7. \* the holder of a batch's row is not inserting a product
      ASSUME y \in ProductRows PROVE snapshot[v][y] # 0
  BY <1>1, <1>2, <1>3, <1>7 DEF FlushInvariant, NewProductIsFirst
<1>8. \* the holder of the product's row is done, unless the product is new
      ASSUME x \in ProductRows PROVE snapshot[w][x] = 0
  <2>1. y \notin ProductRows
    BY <1>6, <1>8
  <2>2. ~(snapshot[v][x] > 0)
    BY <1>1, <1>2, <1>8, <2>1, RowFacts DEF FlushInvariant, StoredProductIsLast
  <2>3. snapshot[w][x] <= version[x]
    BY <1>1 DEF FlushInvariant, SnapshotsArePast
  <2>4. QED
    BY <1>2, <1>4, <2>2, <2>3
<1>9. \* of two threads at a batch the waiting one is in the HTTP server
      ASSUME x \notin ProductRows, y \notin ProductRows PROVE v \notin HttpWorkers
  BY <1>1, <1>3, <1>5, <1>9, RowFacts DEF BatchRows, ProductRow, ProductRows
<1>10. x \notin ProductRows /\ y \notin ProductRows => w \in HttpWorkers
  BY <1>1, <1>9 DEF Workers
<1>11. QED
  BY <1>6, <1>7, <1>8, <1>9, <1>10 DEF Rank

\* No deadlock among commits: no group of threads waits for itself, whatever the order in which
\* the hash sets yield the batches (BatchMapper::Delete, ProductMapper::Update).
THEOREM CommitsNeverDeadlock == Spec => []NoCircularWait
<1>1. FlushInvariant => NoCircularWait
  <2> SUFFICES ASSUME FlushInvariant, NEW S \in SUBSET Workers, S # {},
                      \A w \in S : \E v \in S : WaitsFor(w, v)
               PROVE  FALSE
    BY DEF NoCircularWait
  <2>1. \A w \in S : \E v \in S : Rank(w) < Rank(v)
    BY WaitingGoesUp
  <2>2. \A w \in S : Rank(w) \in 1..4
    BY DEF Rank
  <2>3. \A w \in S : Rank(w) \notin {4}
    BY <2>1, <2>2
  <2>4. \A w \in S : Rank(w) \notin {3, 4}
    BY <2>1, <2>2, <2>3
  <2>5. \A w \in S : Rank(w) \notin {2, 3, 4}
    BY <2>1, <2>2, <2>4
  <2>6. QED
    BY <2>1, <2>2, <2>5
<1>2. QED
  BY <1>1, LocksAreOrdered, PTL

\* Commits made of many statements, waits and rollbacks implement the atomic commit that
\* AllocationService takes a commit to be.
THEOREM CommitsAreAtomic == Spec => ImplementsAtomicCommit
<1>1. Init => Atomic!Init
  BY DEF Init, Atomic!Init, Rows, Atomic!Rows, ProductRows, BatchRows
<1>2. FlushInvariant /\ [Next]_vars => [Atomic!Next]_version
  <2> SUFFICES ASSUME FlushInvariant, Next, version' # version PROVE Atomic!Next
    BY DEF vars
  <2>1. PICK w \in Workers : Commit(w)
    BY DEF Next, Rest, vars, Workers, AddNewProduct, ModifyBatch, ChangeBatches, Begin, Step, Issue, Write,
       SerializationFailure, RollBack
  <2>2. w \in open /\ Owned(w) = Planned(w)
    BY <2>1 DEF Commit, Planned
  <2>3. PICK sku \in Skus, refs \in SUBSET Refs : Owned(w) = {ProductRow(sku)} \cup BatchRows(refs)
    BY <2>2 DEF FlushInvariant, PlansOneProduct
  <2>4. version' = [x \in Rows |-> IF x \in Owned(w) THEN version[x] + 1 ELSE version[x]]
    BY <2>1, CommitWrites
  <2>5. Atomic!Commit(sku, refs)
    BY <2>3, <2>4 DEF Atomic!Commit, Rows, Atomic!Rows, ProductRows, BatchRows, Atomic!BatchRows,
       ProductRow, Atomic!ProductRow
  <2>6. QED
    BY <2>5 DEF Atomic!Next
<1>3. QED
  BY <1>1, <1>2, LocksAreOrdered, PTL DEF Spec, ImplementsAtomicCommit, Atomic!Spec
=============================================================================
