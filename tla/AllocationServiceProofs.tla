----------------------- MODULE AllocationServiceProofs -----------------------
(***************************************************************************)
(* AllocationService keeps its types and never oversells a batch, for any  *)
(* number of threads, products, batches, order lines and commands.         *)
(***************************************************************************)
EXTENDS ServiceProperties, ProductProofs

-----------------------------------------------------------------------------
(* The steps every handler is made of *)

LEMMA InitSound == Init => StockInvariant
<1> SUFFICES ASSUME Init PROVE StockInvariant
  OBVIOUS
<1>1. <<>> \in Seq(Event)
  OBVIOUS
<1>2. TypeOK
  BY <1>1, ServiceAssumption DEF Init, TypeOK
<1>3. /\ NoOversell /\ TrackedIsSound /\ WorksOnItsProduct
      /\ ReallocatesAnEvent /\ BatchesHaveProducts
  BY DEF Init, NoOversell, TrackedIsSound, WorksOnItsProduct, ReallocatesAnEvent,
         BatchesHaveProducts
<1>4. QED
  BY <1>2, <1>3 DEF StockInvariant

\* An answer closes the unit of work and leaves the database alone.
LEMMA AnsweredSound ==
    ASSUME StockInvariant, NEW w \in Workers, NEW status \in Status,
           pc[w] # "idle", Answered(w, status)
    PROVE  StockInvariant'
<1>1. command[w] \in Commands
  BY DEF StockInvariant, TypeOK
<1>2. [command |-> command[w], status |-> status] \in Answer
  BY <1>1 DEF Answer
<1>3. <<>> \in Seq(Event)
  OBVIOUS
<1>4. TypeOK'
  BY <1>2, <1>3 DEF StockInvariant, TypeOK, Answered, CloseUnitOfWork, dbVars
<1>5. NoOversell' /\ BatchesHaveProducts'
  BY DEF StockInvariant, Answered, dbVars, NoOversell, BatchesHaveProducts
<1>6. TrackedIsSound' /\ WorksOnItsProduct' /\ ReallocatesAnEvent'
  BY DEF StockInvariant, TypeOK, Answered, CloseUnitOfWork, TrackedIsSound, WorksOnItsProduct,
         ReallocatesAnEvent
<1>7. QED
  BY <1>4, <1>5, <1>6 DEF StockInvariant

LEMMA FailureIsStatus ==
    ASSUME NEW c, NEW exception
    PROVE  Failure(c, exception) \in Status
BY DEF Failure, Status

\* What the mappers load is an aggregate that holds the rows as they are.
LEMMA FindSound ==
    ASSUME StockInvariant, NEW sku \in Skus, products[sku] # NoVersion
    PROVE  /\ Find(sku) \in Aggregate /\ Sound(Find(sku))
           /\ Find(sku).sku = sku /\ Find(sku).version \in Nat
           /\ \A r \in Refs : batches[r] # NoBatch /\ batches[r].sku = sku =>
                  Contains(Find(sku), r)
<1> DEFINE rows == [r \in Refs |-> IF batches[r] # NoBatch /\ batches[r].sku = sku
                                   THEN Reload(batches[r]) ELSE NoBatch]
<1>1. \A r \in Refs : batches[r] # NoBatch => Reload(batches[r]) = batches[r]
  BY ReloadIsExact DEF StockInvariant, NoOversell
<1>2. rows \in [Refs -> Batch \cup {NoBatch}]
  BY <1>1 DEF StockInvariant, TypeOK
<1>3. \A r \in Refs : rows[r] # NoBatch => rows[r].sku = sku /\ Available(rows[r]) >= 0
  BY <1>1 DEF StockInvariant, NoOversell
<1>4. products[sku] \in Nat
  BY DEF StockInvariant, TypeOK
<1>5. Find(sku) = StoredAggregate(sku, products[sku], rows)
  BY DEF Find
<1>6. \A r \in Refs : batches[r] # NoBatch /\ batches[r].sku = sku => rows[r] # NoBatch
  BY <1>1
<1> HIDE DEF rows
<1>7. QED
  BY <1>2, <1>3, <1>4, <1>5, <1>6, StoredAggregateSound DEF Contains

\* Loading tracks a sound aggregate of the command's product.
LEMMA TrackSound ==
    ASSUME StockInvariant, NEW w \in Workers, NEW p \in Aggregate, Sound(p),
           pc[w] = "load",
           command[w].type = "CreateBatch" => p.sku = command[w].sku,
           command[w].type = "ChangeBatchQuantity" => Contains(p, command[w].ref),
           Track(w, p)
    PROVE  StockInvariant'
<1>1. p.version \in Nat /\ p # NoProduct
  BY NullAssumption DEF Aggregate
<1>2. TypeOK'
  BY <1>1 DEF StockInvariant, TypeOK, Track, dbVars, outVars
<1>3. NoOversell' /\ BatchesHaveProducts'
  BY DEF StockInvariant, Track, dbVars, NoOversell, BatchesHaveProducts
<1>4. TrackedIsSound'
  BY DEF StockInvariant, TypeOK, Track, TrackedIsSound
<1>5. WorksOnItsProduct' /\ ReallocatesAnEvent'
  BY DEF StockInvariant, TypeOK, Track, WorksOnItsProduct, ReallocatesAnEvent
<1>6. QED
  BY <1>2, <1>3, <1>4, <1>5 DEF StockInvariant

\* Commit stores what the unit of work holds: rows of the right types, none oversold, each
\* with its product.
LEMMA CommitSound ==
    ASSUME StockInvariant, NEW w \in Workers, NEW p \in Aggregate,
           \A r \in Refs : Contains(p, r) => p.batches[r].sku = p.sku,
           CanCommit(w, p) /\ p.modified =>
               \A r \in p.modifiedRefs : Contains(p, r) => Available(p.batches[r]) >= 0,
           Commit(w, p)
    PROVE  /\ products' \in [Skus -> Nat \cup {NoVersion}]
           /\ batches' \in [Refs -> Batch \cup {NoBatch}]
           /\ placed' \subseteq Pair
           /\ snapshot' \in [Workers -> BOOLEAN]
           /\ stale' \in [Workers -> SUBSET Row]
           /\ oldVersion' = oldVersion
           /\ NoOversell'
           /\ BatchesHaveProducts'
<1>1. snapshot' \in [Workers -> BOOLEAN] /\ oldVersion' = oldVersion
  BY DEF Commit, StockInvariant, TypeOK
<1>2. CASE ~p.modified
  BY <1>1, <1>2 DEF Commit, WriteBack, StockInvariant, TypeOK, NoOversell, BatchesHaveProducts
<1>3. CASE p.modified
  <2>1. p.sku \in Skus /\ p.version \in Nat /\ p.modifiedRefs \subseteq Refs
    BY DEF Aggregate
  <2>2. products' \in [Skus -> Nat \cup {NoVersion}]
    BY <1>3, <2>1 DEF Commit, WriteBack, StockInvariant, TypeOK
  <2>3. /\ batches' \in [Refs -> Batch \cup {NoBatch}]
        /\ \A r \in Refs : batches'[r] = IF r \in p.modifiedRefs THEN p.batches[r] ELSE batches[r]
    <3>1. p.batches \in [Refs -> Batch \cup {NoBatch}]
      BY DEF Aggregate
    <3>2. batches \in [Refs -> Batch \cup {NoBatch}]
      BY DEF StockInvariant, TypeOK
    <3>3. batches' = [r \in Refs |-> IF r \in p.modifiedRefs THEN p.batches[r] ELSE batches[r]]
      BY <1>3 DEF Commit, WriteBack
    <3>4. QED
      BY <3>1, <3>2, <3>3
  <2>4. placed' \subseteq Pair
    BY <1>3 DEF Commit, WriteBack, StockInvariant, TypeOK
  <2>5. Written(p) \subseteq Row
    BY <2>1 DEF Written, Row
  <2>6. stale' \in [Workers -> SUBSET Row]
    <3>1. stale \in [Workers -> SUBSET Row]
      BY DEF StockInvariant, TypeOK
    <3>2. stale' = [v \in Workers |->
              IF v = w THEN {}
              ELSE IF snapshot[v] THEN stale[v] \cup Written(p) ELSE stale[v]]
      BY <1>3 DEF Commit, WriteBack
    <3>3. QED
      BY <2>5, <3>1, <3>2
  <2>7. NoOversell'
    BY <1>3, <2>3 DEF Commit, StockInvariant, NoOversell, Contains
  <2>8. products'[p.sku] # NoVersion /\ \A s \in Skus : products[s] # NoVersion => products'[s] # NoVersion
    BY <1>3, <2>1, ServiceAssumption DEF Commit, WriteBack, StockInvariant, TypeOK
  <2>9. BatchesHaveProducts'
    <3> SUFFICES ASSUME NEW r \in Refs, batches'[r] # NoBatch
                 PROVE  products'[batches'[r].sku] # NoVersion
      BY DEF BatchesHaveProducts
    <3>1. CASE r \in p.modifiedRefs
      BY <2>3, <2>8, <3>1 DEF Contains
    <3>2. CASE r \notin p.modifiedRefs
      <4>1. batches[r] \in Batch /\ batches'[r] = batches[r]
        BY <2>3, <3>2 DEF StockInvariant, TypeOK
      <4>2. batches[r].sku \in Skus
        BY <4>1 DEF Batch
      <4>3. QED
        BY <2>8, <4>1, <4>2 DEF StockInvariant, BatchesHaveProducts
    <3>3. QED
      BY <3>1, <3>2
  <2>10. QED
    BY <1>1, <2>2, <2>3, <2>4, <2>6, <2>7, <2>9
<1>4. QED
  BY <1>2, <1>3

\* A commit by a thread that then has a sound object, and goes on with its events.
LEMMA ThreadSound ==
    ASSUME StockInvariant, NEW w \in Workers, NEW p \in Aggregate, Sound(p),
           pc[w] \notin {"idle", "load"},
           products' \in [Skus -> Nat \cup {NoVersion}],
           batches' \in [Refs -> Batch \cup {NoBatch}],
           view' \subseteq Pair, unshown' \subseteq Pair, placed' \subseteq Pair,
           snapshot' \in [Workers -> BOOLEAN],
           stale' \in [Workers -> SUBSET Row],
           NoOversell', BatchesHaveProducts',
           NEW q \in Seq(Event), NEW n \in {1, 2},
           NEW next \in {"events", "reallocate"},
           next = "reallocate" => q # <<>>,
           pc' = [pc EXCEPT ![w] = next],
           queue' = [queue EXCEPT ![w] = q],
           handler' = [handler EXCEPT ![w] = n],
           tracked' = [tracked EXCEPT ![w] = p],
           UNCHANGED <<command, oldVersion, inbox, answers, crashes>>,
           published' \subseteq Pair, notified' \subseteq Skus
    PROVE  StockInvariant'
<1>1. p # NoProduct
  BY NullAssumption
<1>2. TypeOK'
  BY <1>1 DEF StockInvariant, TypeOK
<1>3. TrackedIsSound'
  BY DEF StockInvariant, TypeOK, TrackedIsSound
<1>4. WorksOnItsProduct' /\ ReallocatesAnEvent'
  BY DEF StockInvariant, TypeOK, WorksOnItsProduct, ReallocatesAnEvent
<1>5. QED
  BY <1>2, <1>3, <1>4 DEF StockInvariant

\* What a sound object commits is not oversold.
LEMMA SoundCommits ==
    ASSUME StockInvariant, NEW w \in Workers, NEW p \in Aggregate, Sound(p), Commit(w, p)
    PROVE  /\ products' \in [Skus -> Nat \cup {NoVersion}]
           /\ batches' \in [Refs -> Batch \cup {NoBatch}]
           /\ placed' \subseteq Pair
           /\ snapshot' \in [Workers -> BOOLEAN]
           /\ stale' \in [Workers -> SUBSET Row]
           /\ oldVersion' = oldVersion
           /\ NoOversell' /\ BatchesHaveProducts'
<1>1. \A r \in Refs : Contains(p, r) => p.batches[r].sku = p.sku
  BY DEF Sound
<1>2. \A r \in p.modifiedRefs : Contains(p, r) => Available(p.batches[r]) >= 0
  BY DEF Sound, Aggregate
<1>3. QED
  BY <1>1, <1>2, CommitSound

-----------------------------------------------------------------------------
(* Commands *)

LEMMA ReceiveSound ==
    ASSUME StockInvariant, NEW w \in Workers, NEW c \in Commands, Receive(w, c)
    PROVE  StockInvariant'
<1>1. inbox' \in [Commands -> Nat]
  <2>1. inbox[c] \in Nat /\ inbox[c] > 0
    BY DEF Receive, StockInvariant, TypeOK
  <2>2. QED
    BY <2>1 DEF Receive, StockInvariant, TypeOK
<1>2. TypeOK'
  BY <1>1, ServiceAssumption DEF StockInvariant, TypeOK, Receive, dbVars, uowVars
<1>3. NoOversell' /\ BatchesHaveProducts' /\ TrackedIsSound'
  BY DEF StockInvariant, Receive, dbVars, uowVars, NoOversell, BatchesHaveProducts, TrackedIsSound
<1>4. WorksOnItsProduct' /\ ReallocatesAnEvent'
  BY DEF StockInvariant, TypeOK, Receive, uowVars, WorksOnItsProduct, ReallocatesAnEvent
<1>5. QED
  BY <1>2, <1>3, <1>4 DEF StockInvariant

LEMMA CommandFields ==
    ASSUME NEW c \in Commands
    PROVE  /\ c.type \in {"CreateBatch", "Allocate", "ChangeBatchQuantity"}
           /\ c.type = "CreateBatch" => /\ c.ref \in Refs /\ c.sku \in Skus
                                        /\ c.qty \in Quantities /\ c.eta \in Etas
           /\ c.type = "Allocate" => c.line \in OrderLines /\ c.line.sku \in Skus
           /\ c.type = "ChangeBatchQuantity" => c.ref \in Refs /\ c.qty \in Quantities
BY ServiceAssumption, OrderLinesAssumption DEF Command

LEMMA LoadSound ==
    ASSUME StockInvariant, NEW w \in Workers,
           LoadForAddBatch(w) \/ LoadForAllocate(w) \/ LoadForChangeBatchQuantity(w)
    PROVE  StockInvariant'
<1>1. pc[w] = "load" /\ command[w] \in Commands
  BY DEF LoadForAddBatch, LoadForAllocate, LoadForChangeBatchQuantity, StockInvariant, TypeOK
<1>2. CASE LoadForAddBatch(w)
  <2> DEFINE sku == command[w].sku
  <2>1. command[w].type = "CreateBatch" /\ sku \in Skus
    BY <1>1, <1>2, CommandFields DEF LoadForAddBatch
  <2>2. CASE products[sku] = NoVersion
    <3> DEFINE p == SetModified(NewAggregate(sku), FALSE)
    <3>1. p \in Aggregate /\ Sound(p)
      BY <2>1, NewAggregateSound
    <3>2. p.sku = sku
      BY DEF SetModified, NewAggregate
    <3>3. Track(w, p)
      BY <1>2, <2>2 DEF LoadForAddBatch
    <3> HIDE DEF p
    <3>4. QED
      BY <1>1, <2>1, <3>1, <3>2, <3>3, TrackSound
  <2>3. CASE products[sku] # NoVersion
    <3>1. Track(w, Find(sku))
      BY <1>2, <2>3 DEF LoadForAddBatch
    <3>2. QED
      BY <1>1, <2>1, <2>3, <3>1, FindSound, TrackSound
  <2>4. QED
    BY <2>2, <2>3
<1>3. CASE LoadForAllocate(w)
  <2>1. command[w].type = "Allocate" /\ command[w].line.sku \in Skus
    BY <1>1, <1>3, CommandFields DEF LoadForAllocate
  <2>2. products[command[w].line.sku] # NoVersion /\ Track(w, Find(command[w].line.sku))
    BY <1>3 DEF LoadForAllocate
  <2>3. QED
    BY <1>1, <2>1, <2>2, FindSound, TrackSound
<1>4. CASE LoadForChangeBatchQuantity(w)
  <2> DEFINE ref == command[w].ref
  <2>1. command[w].type = "ChangeBatchQuantity" /\ ref \in Refs /\ batches[ref] # NoBatch
    BY <1>1, <1>4, CommandFields DEF LoadForChangeBatchQuantity
  <2>2. batches[ref].sku \in Skus
    BY <2>1 DEF StockInvariant, TypeOK, Batch
  <2>3. products[batches[ref].sku] # NoVersion
    BY <2>1 DEF StockInvariant, BatchesHaveProducts
  <2>4. Track(w, Find(batches[ref].sku))
    BY <1>4 DEF LoadForChangeBatchQuantity
  <2>5. Contains(Find(batches[ref].sku), ref)
    BY <2>1, <2>2, <2>3, FindSound
  <2>6. QED
    BY <1>1, <2>1, <2>2, <2>3, <2>4, <2>5, FindSound, TrackSound
<1>5. QED
  BY <1>2, <1>3, <1>4

LEMMA RejectSound ==
    ASSUME StockInvariant, NEW w \in Workers,
           LoadFails(w) \/ RejectUnknownSku(w) \/ RejectUnknownReference(w) \/ ExecuteFails(w)
    PROVE  StockInvariant'
<1>1. PICK e : Answered(w, Failure(command[w], e))
  BY DEF LoadFails, RejectUnknownSku, RejectUnknownReference, ExecuteFails
<1>2. pc[w] # "idle"
  BY DEF LoadFails, RejectUnknownSku, RejectUnknownReference, ExecuteFails
<1>3. QED
  BY <1>1, <1>2, FailureIsStatus, AnsweredSound

\* What the command made of the tracked product is sound, except that a batch of negative
\* quantity may be new in it; the CHECK on the quantity keeps that one out of the database.
LEMMA OutcomesSound ==
    ASSUME StockInvariant, NEW w \in Workers, pc[w] = "execute", NEW p \in Outcomes(w)
    PROVE  /\ p \in Aggregate
           /\ \A r \in Refs : Contains(p, r) => p.batches[r].sku = p.sku
           /\ CanCommit(w, p) => Sound(p)
<1> DEFINE c == command[w]
           t == tracked[w]
<1>1. c \in Commands /\ t \in Aggregate /\ Sound(t)
  BY DEF StockInvariant, TypeOK, TrackedIsSound
<1>2. CASE c.type = "CreateBatch"
  <2> DEFINE b == NewBatch(c.sku, c.qty, c.eta)
  <2>1. /\ c.ref \in Refs /\ c.sku \in Skus /\ c.qty \in Quantities /\ c.eta \in Etas
        /\ t.sku = c.sku
    BY <1>1, <1>2, CommandFields DEF StockInvariant, WorksOnItsProduct
  <2>2. b \in Batch /\ b.sku = c.sku /\ b.purchased = c.qty /\ b.allocations = {}
    BY <2>1 DEF NewBatch, Batch
  <2>3. p = WithBatch(t, c.ref, b)
    BY <1>2 DEF Outcomes
  <2> HIDE DEF b
  <2>4. c.qty \in Int
    BY <2>1, NumbersAssumption
  <2>5. Available(b) = c.qty
    BY <2>2, <2>4, TotalAssumption DEF Available
  <2>6. CASE Available(b) >= 0 \/ Contains(t, c.ref)
    BY <1>1, <2>1, <2>2, <2>3, <2>6, WithBatchSound DEF Sound
  <2>7. CASE c.qty < 0 /\ ~Contains(t, c.ref)
    <3>1. /\ p \in Aggregate /\ p.sku = t.sku
          /\ c.ref \in p.modifiedRefs /\ p.batches[c.ref] = b
      BY <1>1, <2>1, <2>2, <2>3, <2>7, WithBatchSound
    <3>2. \A r \in Refs : Contains(p, r) => p.batches[r].sku = p.sku
      BY <1>1, <2>1, <2>2, <2>3, <2>7 DEF WithBatch, Contains, Sound, Aggregate
    <3>3. p.modified
      BY <1>1, <2>3, <2>7 DEF WithBatch, Aggregate
    <3>4. ~Storable(p)
      BY <2>2, <2>4, <2>7, <3>1 DEF Storable
    <3>5. QED
      BY <3>1, <3>2, <3>3, <3>4 DEF CanCommit, SqlError
  <2>8. QED
    BY <2>4, <2>5, <2>6, <2>7
<1>3. CASE c.type = "Allocate"
  <2>1. c.line \in OrderLines /\ p \in AllocateOutcomes(t, c.line)
    BY <1>1, <1>3, CommandFields DEF Outcomes
  <2>2. QED
    BY <1>1, <2>1, AllocateOutcomesSound DEF Sound
<1>4. CASE c.type = "ChangeBatchQuantity"
  <2>1. /\ c.ref \in Refs /\ c.qty \in Quantities /\ Contains(t, c.ref)
        /\ p \in ChangeQuantityOutcomes(t, c.ref, c.qty)
    BY <1>1, <1>4, CommandFields DEF Outcomes, StockInvariant, WorksOnItsProduct
  <2>2. QED
    BY <1>1, <2>1, ChangeQuantityOutcomesSound DEF Sound
<1>5. QED
  BY <1>1, <1>2, <1>3, <1>4, CommandFields

LEMMA ExecuteSound ==
    ASSUME StockInvariant, NEW w \in Workers, Execute(w)
    PROVE  StockInvariant'
<1>1. PICK p \in Outcomes(w) :
          /\ Commit(w, p)
          /\ pc' = [pc EXCEPT ![w] = "events"]
          /\ queue' = [queue EXCEPT ![w] = p.messages]
          /\ tracked' = [tracked EXCEPT ![w] = ClearMessages(SetModified(p, FALSE))]
  BY DEF Execute
<1>2. pc[w] = "execute" /\ UNCHANGED <<view, unshown, outVars, command, handler>>
  BY DEF Execute
<1>3. p \in Aggregate /\ Sound(p)
  BY <1>1, <1>2, OutcomesSound DEF Commit
<1>4. p.messages \in Seq(Event)
  BY <1>3 DEF Aggregate
<1>5. /\ ClearMessages(SetModified(p, FALSE)) \in Aggregate
      /\ Sound(ClearMessages(SetModified(p, FALSE)))
  BY <1>3, CleanedSound
<1>6. handler' = [handler EXCEPT ![w] = handler[w]] /\ handler[w] \in {1, 2}
  BY <1>2 DEF StockInvariant, TypeOK
<1>7. view' \subseteq Pair /\ unshown' \subseteq Pair /\ published' \subseteq Pair /\ notified' \subseteq Skus
  BY <1>2 DEF StockInvariant, TypeOK, outVars
<1>8. UNCHANGED <<command, oldVersion, inbox, answers, crashes>>
  BY <1>1, <1>2, <1>3, SoundCommits DEF outVars
<1>9. QED
  BY <1>1, <1>2, <1>3, <1>4, <1>5, <1>6, <1>7, <1>8, SoundCommits, ThreadSound

-----------------------------------------------------------------------------
(* Events *)

\* The first event and the object a handler works with.
LEMMA HandlingFacts ==
    ASSUME StockInvariant, NEW w \in Workers, pc[w] \in {"events", "reallocate"},
           queue[w] # <<>>
    PROVE  /\ tracked[w] \in Aggregate /\ Sound(tracked[w])
           /\ Head(queue[w]) \in Event
           /\ queue[w] \in Seq(Event) /\ Tail(queue[w]) \in Seq(Event)
<1>1. tracked[w] \in Aggregate /\ Sound(tracked[w])
  BY DEF StockInvariant, TypeOK, TrackedIsSound
<1>2. queue[w] \in Seq(Event)
  BY DEF StockInvariant, TypeOK
<1>3. Head(queue[w]) \in Event /\ Tail(queue[w]) \in Seq(Event)
  BY <1>2
<1>4. QED
  BY <1>1, <1>2, <1>3

LEMMA EventFields ==
    ASSUME NEW e \in Event
    PROVE  /\ e.type = "Allocated" => <<e.line, e.batchref>> \in Pair
           /\ e.type = "Deallocated" => e.line \in OrderLines
           /\ e.type = "OutOfStock" => e.sku \in Skus
BY DEF Event, Pair

\* A handler that returned, whether its Commit stored something or it made none.
LEMMA HandledSound ==
    ASSUME StockInvariant, NEW w \in Workers, pc[w] \in {"events", "reallocate"},
           queue[w] # <<>>,
           NEW p \in Aggregate, Sound(p), NEW last \in BOOLEAN, Handled(w, p, last),
           products' \in [Skus -> Nat \cup {NoVersion}],
           batches' \in [Refs -> Batch \cup {NoBatch}],
           view' \subseteq Pair, unshown' \subseteq Pair, placed' \subseteq Pair,
           snapshot' \in [Workers -> BOOLEAN],
           stale' \in [Workers -> SUBSET Row],
           NoOversell', BatchesHaveProducts',
           UNCHANGED <<oldVersion, inbox, answers, crashes>>,
           published' \subseteq Pair, notified' \subseteq Skus
    PROVE  StockInvariant'
<1> DEFINE q == Rest(queue[w], last) \o p.messages
           n == IF last THEN 1 ELSE 2
<1>1. Rest(queue[w], last) \in Seq(Event) /\ p.messages \in Seq(Event)
  BY HandlingFacts DEF Rest, Aggregate
<1>2. q \in Seq(Event) /\ n \in {1, 2}
  BY <1>1
<1>3. ClearMessages(p) \in Aggregate /\ Sound(ClearMessages(p))
  BY CleanedSound
<1>4. /\ pc' = [pc EXCEPT ![w] = "events"]
      /\ queue' = [queue EXCEPT ![w] = q]
      /\ handler' = [handler EXCEPT ![w] = n]
      /\ tracked' = [tracked EXCEPT ![w] = ClearMessages(p)]
      /\ UNCHANGED command
  BY DEF Handled, NextHandler
<1> HIDE DEF q, n
<1>5. QED
  BY <1>2, <1>3, <1>4, ThreadSound

\* One that threw after it had made p of its object, whatever became of the transaction.
LEMMA CaughtSound ==
    ASSUME StockInvariant, NEW w \in Workers, pc[w] \in {"events", "reallocate"},
           queue[w] # <<>>,
           NEW p \in Aggregate, Sound(p), NEW last \in BOOLEAN, Caught(w, p, last),
           snapshot' \in [Workers -> BOOLEAN], stale' \in [Workers -> SUBSET Row],
           unshown' \subseteq Pair, UNCHANGED outVars
    PROVE  StockInvariant'
<1> DEFINE q == Rest(queue[w], last)
           n == IF last THEN 1 ELSE 2
<1>1. q \in Seq(Event) /\ n \in {1, 2}
  BY HandlingFacts DEF Rest
<1>2. /\ pc' = [pc EXCEPT ![w] = "events"]
      /\ queue' = [queue EXCEPT ![w] = q]
      /\ handler' = [handler EXCEPT ![w] = n]
      /\ tracked' = [tracked EXCEPT ![w] = p]
      /\ UNCHANGED <<command, products, batches, view, placed, oldVersion>>
  BY DEF Caught, NextHandler
<1> HIDE DEF q, n
<1>3. /\ products' \in [Skus -> Nat \cup {NoVersion}]
      /\ batches' \in [Refs -> Batch \cup {NoBatch}]
      /\ view' \subseteq Pair /\ placed' \subseteq Pair
      /\ published' \subseteq Pair /\ notified' \subseteq Skus
      /\ UNCHANGED <<inbox, answers, crashes>>
  BY <1>2 DEF StockInvariant, TypeOK, outVars
<1>4. NoOversell' /\ BatchesHaveProducts'
  BY <1>2 DEF StockInvariant, NoOversell, BatchesHaveProducts
<1>5. QED
  BY <1>1, <1>2, <1>3, <1>4, ThreadSound

\* Both ways to throw are caught, with the transaction as it was or aborted.
LEMMA ThrowsCaught ==
    ASSUME StockInvariant, NEW w \in Workers, NEW p \in Aggregate, NEW last \in BOOLEAN,
           VersionIsOutdated(w, p, last) \/ StatementFails(w, p, last)
    PROVE  /\ Caught(w, p, last)
           /\ snapshot' \in [Workers -> BOOLEAN] /\ stale' \in [Workers -> SUBSET Row]
<1>1. snapshot \in [Workers -> BOOLEAN] /\ stale \in [Workers -> SUBSET Row]
  BY DEF StockInvariant, TypeOK
<1>2. CASE VersionIsOutdated(w, p, last)
  BY <1>1, <1>2 DEF VersionIsOutdated
<1>3. CASE StatementFails(w, p, last)
  <2>1. /\ Caught(w, p, last)
        /\ snapshot' = [snapshot EXCEPT ![w] = TRUE] /\ stale' = [stale EXCEPT ![w] = Row]
    BY <1>3 DEF StatementFails
  <2>2. snapshot' \in [Workers -> BOOLEAN]
    BY <1>1, <2>1
  <2>3. Row \in SUBSET Row
    OBVIOUS
  <2>4. stale' \in [Workers -> SUBSET Row]
    BY <1>1, <2>1, <2>3
  <2>5. QED
    BY <2>1, <2>2, <2>4
<1>4. QED
  BY <1>2, <1>3

\* A handler that commits its object, or throws.
LEMMA CommitOrThrowSound ==
    ASSUME StockInvariant, NEW w \in Workers, pc[w] \in {"events", "reallocate"},
           queue[w] # <<>>, NEW last \in BOOLEAN, UNCHANGED outVars,
           unshown' \subseteq Pair,
           \/ /\ Commit(w, tracked[w]) /\ view' \subseteq Pair
              /\ Handled(w, SetModified(tracked[w], FALSE), last)
           \/ CommitFails(w, tracked[w], last)
           \/ StatementFails(w, tracked[w], last)
    PROVE  StockInvariant'
<1>1. tracked[w] \in Aggregate /\ Sound(tracked[w])
  BY HandlingFacts
<1>2. /\ SetModified(tracked[w], FALSE) \in Aggregate
      /\ Sound(SetModified(tracked[w], FALSE))
  BY <1>1, CleanedSound
<1>3. published' \subseteq Pair /\ notified' \subseteq Skus /\ UNCHANGED <<inbox, answers, crashes>>
  BY DEF StockInvariant, TypeOK, outVars
<1>4. CASE /\ Commit(w, tracked[w]) /\ view' \subseteq Pair
           /\ Handled(w, SetModified(tracked[w], FALSE), last)
  BY <1>1, <1>2, <1>3, <1>4, SoundCommits, HandledSound
<1>5. CASE CommitFails(w, tracked[w], last) \/ StatementFails(w, tracked[w], last)
  <2>1. VersionIsOutdated(w, tracked[w], last) \/ StatementFails(w, tracked[w], last)
    BY <1>5 DEF CommitFails
  <2>2. QED
    BY <1>1, <2>1, ThrowsCaught, CaughtSound
<1>6. QED
  BY <1>4, <1>5

LEMMA EventSound ==
    ASSUME StockInvariant, NEW w \in Workers, HandleEvent(w)
    PROVE  StockInvariant'
<1> DEFINE e == Head(queue[w])
<1>1. CASE PublishAllocatedEvent(w) \/ SendOutOfStockNotification(w)
  <2>1. /\ pc[w] = "events" /\ queue[w] # <<>>
        /\ UNCHANGED <<dbVars, inbox, answers, crashes, oldVersion, snapshot, stale, placed>>
        /\ \E last \in BOOLEAN : Handled(w, tracked[w], last)
    BY <1>1 DEF PublishAllocatedEvent, SendOutOfStockNotification, Handling
  <2>2. published' \subseteq Pair /\ notified' \subseteq Skus
    BY <1>1, <2>1, HandlingFacts, EventFields
       DEF PublishAllocatedEvent, SendOutOfStockNotification, Handling, StockInvariant, TypeOK
  <2>3. tracked[w] \in Aggregate /\ Sound(tracked[w])
    BY <2>1, HandlingFacts
  <2>4. /\ products' \in [Skus -> Nat \cup {NoVersion}]
        /\ batches' \in [Refs -> Batch \cup {NoBatch}]
        /\ view' \subseteq Pair /\ unshown' \subseteq Pair /\ placed' \subseteq Pair
        /\ snapshot' \in [Workers -> BOOLEAN] /\ stale' \in [Workers -> SUBSET Row]
    BY <2>1 DEF StockInvariant, TypeOK, dbVars
  <2>5. NoOversell' /\ BatchesHaveProducts'
    BY <2>1 DEF StockInvariant, NoOversell, BatchesHaveProducts, dbVars
  <2>6. QED
    BY <2>1, <2>2, <2>3, <2>4, <2>5, HandledSound
<1>2. CASE AddAllocationToReadModel(w)
  <2>1. pc[w] = "events" /\ queue[w] # <<>> /\ e.type = "Allocated" /\ UNCHANGED outVars
    BY <1>2 DEF AddAllocationToReadModel, Handling
  <2>2. /\ view \cup {<<e.line, e.batchref>>} \subseteq Pair
        /\ unshown \subseteq Pair /\ unshown \cup {<<e.line, e.batchref>>} \subseteq Pair
    BY <2>1, HandlingFacts, EventFields DEF StockInvariant, TypeOK
  <2>3. \/ /\ Commit(w, tracked[w]) /\ view' \subseteq Pair
           /\ Handled(w, SetModified(tracked[w], FALSE), TRUE)
        \/ CommitFails(w, tracked[w], TRUE)
        \/ StatementFails(w, tracked[w], TRUE)
    BY <1>2, <2>2 DEF AddAllocationToReadModel
  <2>4. unshown' \subseteq Pair
    BY <1>2, <2>2 DEF AddAllocationToReadModel, CommitFails
  <2>5. QED
    BY <2>1, <2>3, <2>4, CommitOrThrowSound
<1>3. CASE RemoveAllocationFromReadModel(w)
  <2>1. pc[w] = "events" /\ queue[w] # <<>> /\ UNCHANGED outVars
    BY <1>3 DEF RemoveAllocationFromReadModel, Handling
  <2>2. \/ /\ Commit(w, tracked[w]) /\ view' \subseteq Pair
           /\ Handled(w, SetModified(tracked[w], FALSE), FALSE)
        \/ CommitFails(w, tracked[w], FALSE)
    BY <1>3 DEF RemoveAllocationFromReadModel, StockInvariant, TypeOK
  <2>3. unshown' \subseteq Pair
    BY <1>3 DEF RemoveAllocationFromReadModel, CommitFails, StockInvariant, TypeOK
  <2>4. QED
    BY <2>1, <2>2, <2>3, CommitOrThrowSound
<1>4. CASE Reallocate(w)
  <2>1. pc[w] = "events" /\ queue[w] # <<>> /\ e.type = "Deallocated"
    BY <1>4 DEF Reallocate, Handling
  <2>2. PICK p \in AllocateOutcomes(tracked[w], e.line) :
            /\ tracked' = [tracked EXCEPT ![w] = p]
            /\ snapshot' = [snapshot EXCEPT ![w] = @ \/ p.modified]
    BY <1>4 DEF Reallocate
  <2>3. p \in Aggregate /\ Sound(p)
    BY <2>1, <2>2, HandlingFacts, EventFields, AllocateOutcomesSound
  <2>4. /\ UNCHANGED <<dbVars, outVars, command, queue, handler, oldVersion, placed>>
        /\ stale' = [stale EXCEPT ![w] = Conflicts(w)]
        /\ pc' = [pc EXCEPT ![w] = "reallocate"]
    BY <1>4 DEF Reallocate
  <2>5. snapshot' \in [Workers -> BOOLEAN]
    <3>1. snapshot \in [Workers -> BOOLEAN] /\ p.modified \in BOOLEAN
      BY <2>3 DEF StockInvariant, TypeOK, Aggregate
    <3>2. QED
      BY <2>2, <3>1
  <2>6. stale' \in [Workers -> SUBSET Row]
    BY <2>4 DEF StockInvariant, TypeOK, Conflicts
  <2>7. /\ products' \in [Skus -> Nat \cup {NoVersion}]
        /\ batches' \in [Refs -> Batch \cup {NoBatch}]
        /\ view' \subseteq Pair /\ unshown' \subseteq Pair /\ placed' \subseteq Pair
        /\ published' \subseteq Pair /\ notified' \subseteq Skus
        /\ UNCHANGED <<command, oldVersion, inbox, answers, crashes>>
    BY <2>4 DEF StockInvariant, TypeOK, dbVars, outVars
  <2>8. NoOversell' /\ BatchesHaveProducts'
    BY <2>4 DEF StockInvariant, NoOversell, BatchesHaveProducts, dbVars
  <2>9. /\ queue[w] \in Seq(Event) /\ queue' = [queue EXCEPT ![w] = queue[w]]
        /\ handler[w] \in {1, 2} /\ handler' = [handler EXCEPT ![w] = handler[w]]
    BY <2>4 DEF StockInvariant, TypeOK
  <2>10. QED
    BY <2>1, <2>2, <2>3, <2>4, <2>5, <2>6, <2>7, <2>8, <2>9, ThreadSound
<1>5. CASE CommitReallocation(w)
  <2>1. pc[w] = "reallocate" /\ UNCHANGED outVars
    BY <1>5 DEF CommitReallocation
  <2>2. \/ /\ Commit(w, tracked[w]) /\ view' \subseteq Pair
           /\ Handled(w, SetModified(tracked[w], FALSE), TRUE)
        \/ CommitFails(w, tracked[w], TRUE)
    BY <1>5 DEF CommitReallocation, StockInvariant, TypeOK
  <2>3. queue[w] # <<>> /\ unshown' \subseteq Pair
    BY <1>5, <2>1 DEF CommitReallocation, CommitFails, StockInvariant, TypeOK, ReallocatesAnEvent
  <2>4. QED
    BY <2>1, <2>2, <2>3, CommitOrThrowSound
<1>6. QED
  BY <1>1, <1>2, <1>3, <1>4, <1>5 DEF HandleEvent

-----------------------------------------------------------------------------
(* The theorems *)

LEMMA CrashSound ==
    ASSUME StockInvariant, Crash
    PROVE  StockInvariant'
<1>1. <<>> \in Seq(Event) /\ crashes' \in Nat
  BY DEF Crash, StockInvariant, TypeOK
<1>2. TypeOK'
  BY <1>1 DEF StockInvariant, TypeOK, Crash, dbVars
<1>3. NoOversell' /\ BatchesHaveProducts'
  BY DEF StockInvariant, Crash, dbVars, NoOversell, BatchesHaveProducts
<1>4. TrackedIsSound' /\ WorksOnItsProduct' /\ ReallocatesAnEvent'
  BY DEF Crash, TrackedIsSound, WorksOnItsProduct, ReallocatesAnEvent
<1>5. QED
  BY <1>2, <1>3, <1>4 DEF StockInvariant

LEMMA StockInvariantIsInductive == StockInvariant /\ [Next]_vars => StockInvariant'
<1> SUFFICES ASSUME StockInvariant, [Next]_vars
             PROVE  StockInvariant'
  OBVIOUS
<1>1. ASSUME NEW w \in Workers, Step(w)
      PROVE  StockInvariant'
  <2>1. CASE Finish(w)
    <3>1. pc[w] # "idle" /\ Answered(w, Success(command[w]))
      BY <2>1 DEF Finish
    <3>2. command[w] \in Commands
      BY <3>1 DEF StockInvariant, TypeOK
    <3>3. Success(command[w]) \in Status
      BY <3>2, CommandFields DEF Success, Status
    <3>4. QED
      BY <3>1, <3>3, AnsweredSound
  <2>2. QED
    BY <1>1, <2>1, LoadSound, RejectSound, ExecuteSound, EventSound DEF Step, HandleCommand
<1>2. ASSUME NEW w \in Workers, NEW c \in Commands, Receive(w, c)
      PROVE  StockInvariant'
  BY <1>2, ReceiveSound
<1>3. CASE UNCHANGED vars
  BY <1>3 DEF vars, dbVars, outVars, busVars, uowVars, StockInvariant, TypeOK, NoOversell,
              TrackedIsSound, WorksOnItsProduct, ReallocatesAnEvent, BatchesHaveProducts
<1>4. CASE Crash
  BY <1>4, CrashSound
<1>5. QED
  BY <1>1, <1>2, <1>3, <1>4 DEF Next, NothingToDo, HandleRequest, OnRedisMessage, Workers

\* The inductive invariant itself: committed batches and the objects threads work on stay sound,
\* and every batch keeps the product row its foreign key names.
THEOREM StockStaysSound == Spec => []StockInvariant
<1>1. QED
  BY InitSound, StockInvariantIsInductive, PTL DEF Spec

\* What the database, the threads and the queues hold is always of the types the code declares.
THEOREM TypeCorrect == Spec => []TypeOK
<1>1. StockInvariant => TypeOK
  BY DEF StockInvariant
<1>2. QED
  BY <1>1, InitSound, StockInvariantIsInductive, PTL DEF Spec

\* No committed batch ever holds more than was purchased: Batch::CanAllocate guards the object,
\* the deallocation loop repairs it after a quantity change, and only such objects are committed.
THEOREM NeverOversells == Spec => []NoOversell
<1>1. StockInvariant => NoOversell
  BY DEF StockInvariant
<1>2. QED
  BY <1>1, InitSound, StockInvariantIsInductive, PTL DEF Spec
=============================================================================
