----------------------- MODULE ProductAggregateProofs -----------------------
(***************************************************************************)
(* Theorems about ProductAggregate: for any references, lines, dates and   *)
(* quantities, and any number of calls.                                    *)
(***************************************************************************)
EXTENDS ProductAggregate, ProductProofs, FiniteSetTheorems

\* The inductive invariant.  Load reads the rows, so the rows must be those of the object,
\* and the object sound, for nothing to get lost.
Consistent ==
    /\ TypeOK
    /\ product.sku = Sku
    /\ Sound(product)
    /\ UnsavedIsMarked

\* q is p after a member function that marks every batch it touches and only adds events.
Marks(p, q) ==
    /\ Len(p.messages) <= Len(q.messages)
    /\ p.modifiedRefs \subseteq q.modifiedRefs
    /\ p.modified => q.modified
    /\ \A r \in Refs : q.batches[r] # p.batches[r] => r \in q.modifiedRefs /\ q.modified

-----------------------------------------------------------------------------
(* The member functions mark what they change *)

LEMMA WithBatchMarks ==
    ASSUME NEW p \in Aggregate, NEW ref \in Refs, NEW b \in Batch
    PROVE  Marks(p, WithBatch(p, ref, b))
BY DEF Marks, WithBatch, Aggregate

LEMMA WithBatchesSound ==
    ASSUME NEW p \in Aggregate, Sound(p), NEW rs \in SUBSET Refs, NEW new \in [rs -> Batch],
           \A r \in rs : new[r].sku = p.sku /\ Available(new[r]) >= 0
    PROVE  /\ WithBatches(p, new) \in Aggregate
           /\ WithBatches(p, new).sku = p.sku
           /\ Sound(WithBatches(p, new))
           /\ Marks(p, WithBatches(p, new))
<1>1. CASE \E r \in DOMAIN new : Contains(p, r)
  BY <1>1 DEF WithBatches, Marks
<1>2. CASE ~\E r \in DOMAIN new : Contains(p, r)
  <2> DEFINE bs == [r \in Refs |-> IF r \in rs THEN new[r] ELSE p.batches[r]]
             q == WithBatches(p, new)
  <2>1. bs \in [Refs -> Batch \cup {NoBatch}]
    BY DEF Aggregate
  <2>2. q = [p EXCEPT !.batches = bs, !.modifiedRefs = @ \cup rs, !.modified = TRUE]
    BY <1>2 DEF WithBatches
  <2> HIDE DEF q
  <2>3. /\ q \in Aggregate /\ q.sku = p.sku /\ q.batches = bs
        /\ q.modifiedRefs = p.modifiedRefs \cup rs /\ q.modified
        /\ q.messages = p.messages
    BY <2>1, <2>2 DEF Aggregate
  <2>4. Sound(q)
    BY <2>3 DEF Sound, Contains
  <2>5. Marks(p, q)
    <3>1. p.messages \in Seq(Event)
      BY DEF Aggregate
    <3>2. QED
      BY <2>3, <3>1 DEF Marks
  <2>6. QED
    BY <2>3, <2>4, <2>5 DEF q
<1>3. QED
  BY <1>1, <1>2

LEMMA AllocateMarks ==
    ASSUME NEW p \in Aggregate, NEW line \in OrderLines, NEW q \in AllocateOutcomes(p, line)
    PROVE  Marks(p, q)
<1>1. CASE q = p
  BY <1>1 DEF Marks
<1>2. CASE q = [p EXCEPT !.messages = Append(@, OutOfStock(line.sku))]
  BY <1>2 DEF Marks, Aggregate
<1>3. ASSUME NEW r \in Preferred(p, line), q = AllocatedTo(p, line, r)
      PROVE  Marks(p, q)
  <2>1. r \in Refs
    BY DEF Preferred, Candidates
  <2>2. /\ q.batches = [p.batches EXCEPT ![r] = AllocateLine(@, line)]
        /\ q.modifiedRefs = p.modifiedRefs \cup {r}
        /\ q.modified
        /\ q.messages = Append(p.messages, Allocated(line, r))
    BY <1>3 DEF AllocatedTo, Aggregate
  <2>3. \A x \in Refs : x # r => q.batches[x] = p.batches[x]
    BY <2>2 DEF Aggregate
  <2>4. p.messages \in Seq(Event) /\ Allocated(line, r) \in Event
    BY <2>1 DEF Aggregate, Allocated, Event
  <2>5. Len(p.messages) <= Len(q.messages)
    BY <2>2, <2>4
  <2>6. QED
    BY <2>2, <2>3, <2>5 DEF Marks
<1>4. QED
  BY <1>1, <1>2, <1>3 DEF AllocateOutcomes

LEMMA ChangeQuantityMarks ==
    ASSUME NEW p \in Aggregate, NEW ref \in Refs, Contains(p, ref), NEW qty \in Quantities,
           NEW q \in ChangeQuantityOutcomes(p, ref, qty)
    PROVE  Marks(p, q)
<1> DEFINE b == [p.batches[ref] EXCEPT !.purchased = qty]
<1>1. PICK s \in DeallocationOrders(b) :
          q = [p EXCEPT !.batches[ref] = Without(b, s),
                        !.modifiedRefs = @ \cup {ref},
                        !.modified = TRUE,
                        !.messages = @ \o [i \in 1..Len(s) |-> Deallocated(s[i])]]
  BY DEF ChangeQuantityOutcomes
<1>0. b \in Batch
  BY DEF Aggregate, Batch, Contains
<1> HIDE DEF b
<1>2. /\ q.batches = [p.batches EXCEPT ![ref] = Without(b, s)]
      /\ q.modifiedRefs = p.modifiedRefs \cup {ref}
      /\ q.modified
      /\ q.messages = p.messages \o [i \in 1..Len(s) |-> Deallocated(s[i])]
  BY <1>1 DEF Aggregate
<1>3. \A x \in Refs : x # ref => q.batches[x] = p.batches[x]
  BY <1>2 DEF Aggregate
<1>4. Len(p.messages) <= Len(q.messages)
  <2>1. s \in Seq(OrderLines)
    BY <1>0, DeallocationSound
  <2>2. \A i \in 1..Len(s) : Deallocated(s[i]) \in Event
    BY <2>1 DEF Deallocated, Event
  <2>3. [i \in 1..Len(s) |-> Deallocated(s[i])] \in Seq(Event) /\ p.messages \in Seq(Event)
    BY <2>1, <2>2 DEF Aggregate
  <2>4. QED
    BY <1>2, <2>3
<1>5. QED
  BY <1>2, <1>3, <1>4 DEF Marks

-----------------------------------------------------------------------------
(* Consistent is inductive *)

\* The events raised are counted by integers.
LEMMA RaisedIsInt ==
    ASSUME product \in Aggregate, NEW p \in Aggregate, Marks(product, p)
    PROVE  \A l \in OrderLines : Raised(p)[l] \in Int
<1> DEFINE m == Len(product.messages) + 1
           n == Len(p.messages)
           new == SubSeq(p.messages, m, n)
           Of(type, l) == {i \in DOMAIN new : new[i].type = type /\ new[i].line = l}
<1>1. IsFiniteSet(DOMAIN new)
  <2>1. p.messages \in Seq(Event) /\ m \in 1..(n + 1) /\ n \in Nat
    BY DEF Aggregate, Marks
  <2>2. new \in Seq(Event)
    BY <2>1
  <2> HIDE DEF new
  <2>3. DOMAIN new = 1..Len(new) /\ Len(new) \in Nat
    BY <2>2
  <2>4. QED
    BY <2>3, FS_Interval
<1> HIDE DEF new
<1>2. ASSUME NEW l \in OrderLines, NEW type
      PROVE  Cardinality(Of(type, l)) \in Int
  <2>1. Of(type, l) \subseteq DOMAIN new
    OBVIOUS
  <2>2. QED
    BY <1>1, <2>1, FS_Subset, FS_CardinalityType
<1>3. ASSUME NEW l \in OrderLines
      PROVE  Raised(p)[l] = Cardinality(Of("Allocated", l)) - Cardinality(Of("Deallocated", l))
  BY DEF Raised, new
<1> HIDE DEF Of
<1>4. QED
  BY <1>2, <1>3

\* A call that leaves a sound product and marks what it changed.
LEMMA CallKeepsConsistent ==
    ASSUME Consistent, NEW p \in Aggregate, p.sku = product.sku, Sound(p), Marks(product, p),
           Call(p)
    PROVE  Consistent'
<1>1. /\ product' = p /\ stored' = stored
      /\ calls < MaxCalls /\ calls' = calls + 1
      /\ balance' = [l \in OrderLines |-> balance[l] + Raised(p)[l]]
  BY DEF Call
<1>2. TypeOK'
  <2>1. balance' \in [OrderLines -> Int]
    BY <1>1, RaisedIsInt DEF Consistent, TypeOK
  <2>2. QED
    BY <1>1, <2>1, AggregateAssumption DEF Consistent, TypeOK
<1>3. Sound(product)'
  BY <1>1 DEF Sound, Contains
<1>4. UnsavedIsMarked'
  BY <1>1 DEF Consistent, UnsavedIsMarked, Marks
<1>5. QED
  BY <1>1, <1>2, <1>3, <1>4 DEF Consistent

\* A batch as AddBatch gets it: nothing is allocated to it yet.
LEMMA NewBatchIsEmpty ==
    ASSUME NEW b \in Batches
    PROVE  b \in Batch /\ b.sku = Sku /\ Available(b) >= 0
<1>1. PICK q \in Quantities, e \in Etas : b = NewBatch(Sku, q, e)
  BY DEF Batches
<1>2. b \in Batch /\ b.sku = Sku /\ b.purchased = q /\ b.allocations = {}
  BY <1>1, AggregateAssumption DEF NewBatch, Batch
<1>3. q \in Nat
  BY SizeAssumption
<1>4. QED
  BY <1>2, <1>3, TotalAssumption DEF Available

\* A saved object is what the rows say, and they are read back as they are.
LEMMA LoadIsExact ==
    ASSUME Consistent, Load
    PROVE  /\ product' \in Aggregate /\ product'.sku = Sku /\ Sound(product')
           /\ product'.batches = stored /\ stored = product.batches
<1>1. \A r \in Refs : stored[r] = product.batches[r]
  BY DEF Consistent, UnsavedIsMarked, Load
<1>2. stored \in [Refs -> Batch \cup {NoBatch}] /\ product.batches \in [Refs -> Batch \cup {NoBatch}]
  BY DEF Consistent, TypeOK, Aggregate
<1>3. stored = product.batches
  BY <1>1, <1>2
<1>4. \A r \in Refs : stored[r] # NoBatch => stored[r].sku = Sku /\ Available(stored[r]) >= 0
  BY <1>3 DEF Consistent, Sound, Contains
<1>5. [r \in Refs |-> IF stored[r] = NoBatch THEN NoBatch ELSE Reload(stored[r])] = stored
  BY <1>2, <1>4, ReloadIsExact
<1>6. product' = StoredAggregate(Sku, product.version, stored)
  BY <1>5 DEF Load
<1>7. product.version \in Nat /\ Sku \in Skus
  BY AggregateAssumption DEF Consistent, TypeOK, Aggregate
<1>8. QED
  BY <1>2, <1>3, <1>4, <1>6, <1>7, StoredAggregateSound

LEMMA StepKeepsConsistent ==
    ASSUME Consistent, [Next]_vars
    PROVE  Consistent'
<1>0. product \in Aggregate /\ product.sku = Sku /\ Sound(product)
  BY DEF Consistent, TypeOK
<1>1. ASSUME NEW r \in Refs, NEW b \in Batches, AddBatch(r, b)
      PROVE  Consistent'
  <2>1. b \in Batch /\ b.sku = product.sku /\ Available(b) >= 0
    BY <1>0, NewBatchIsEmpty
  <2>2. /\ WithBatch(product, r, b) \in Aggregate
        /\ WithBatch(product, r, b).sku = product.sku
        /\ Sound(WithBatch(product, r, b))
    BY <1>0, <2>1, WithBatchSound
  <2>3. Marks(product, WithBatch(product, r, b))
    BY <1>0, <2>1, WithBatchMarks
  <2>4. QED
    BY <1>1, <2>2, <2>3, CallKeepsConsistent DEF AddBatch
<1>2. ASSUME NEW rs \in SUBSET Refs, NEW new \in [rs -> Batches], AddBatches(new)
      PROVE  Consistent'
  <2>1. /\ new \in [rs -> Batch]
        /\ \A r \in rs : new[r].sku = product.sku /\ Available(new[r]) >= 0
    BY <1>0, NewBatchIsEmpty
  <2>2. /\ WithBatches(product, new) \in Aggregate
        /\ WithBatches(product, new).sku = product.sku
        /\ Sound(WithBatches(product, new))
        /\ Marks(product, WithBatches(product, new))
    BY <1>0, <2>1, WithBatchesSound
  <2>3. QED
    BY <1>2, <2>2, CallKeepsConsistent DEF AddBatches
<1>3. ASSUME NEW l \in OrderLines, Allocate(l)
      PROVE  Consistent'
  <2>1. PICK p \in AllocateOutcomes(product, l) : Call(p)
    BY <1>3 DEF Allocate
  <2>2. p \in Aggregate /\ p.sku = product.sku /\ Sound(p) /\ Marks(product, p)
    BY <1>0, AllocateOutcomesSound, AllocateMarks
  <2>3. QED
    BY <2>1, <2>2, CallKeepsConsistent
<1>4. ASSUME NEW r \in Refs, NEW q \in Quantities, ChangeBatchQuantity(r, q)
      PROVE  Consistent'
  <2>1. Contains(product, r)
    BY <1>4 DEF ChangeBatchQuantity
  <2>2. PICK p \in ChangeQuantityOutcomes(product, r, q) : Call(p)
    BY <1>4 DEF ChangeBatchQuantity
  <2>3. p \in Aggregate /\ p.sku = product.sku /\ Sound(p) /\ Marks(product, p)
    BY <1>0, <2>1, ChangeQuantityOutcomesSound, ChangeQuantityMarks
  <2>4. QED
    BY <2>2, <2>3, CallKeepsConsistent
<1>5. CASE TakeMessages
  <2>1. product' \in Aggregate /\ Sound(product')
    BY <1>0, <1>5, CleanedSound DEF TakeMessages
  <2>2. /\ product'.sku = product.sku /\ product'.batches = product.batches
        /\ product'.modifiedRefs = product.modifiedRefs /\ product'.modified = product.modified
    BY <1>0, <1>5 DEF TakeMessages, ClearMessages, Aggregate
  <2>3. QED
    BY <1>0, <1>5, <2>1, <2>2 DEF TakeMessages, Consistent, TypeOK, UnsavedIsMarked, Sound, Contains
<1>6. CASE Save
  <2>1. product' \in Aggregate /\ Sound(product')
    BY <1>0, <1>6, CleanedSound DEF Save
  <2>2. product'.sku = product.sku /\ product'.batches = product.batches
    BY <1>0, <1>6 DEF Save, SetModified, Aggregate
  <2>3. \A r \in Refs : stored'[r] = product.batches[r]
    BY <1>6 DEF Save, Consistent, UnsavedIsMarked
  <2>4. stored' \in [Refs -> Batch \cup {NoBatch}]
    BY <1>6 DEF Save, Consistent, TypeOK, Aggregate
  <2>5. UnsavedIsMarked'
    BY <2>2, <2>3 DEF UnsavedIsMarked
  <2>6. TypeOK'
    BY <1>6, <2>1, <2>4 DEF Save, Consistent, TypeOK
  <2>7. QED
    BY <1>0, <2>1, <2>2, <2>5, <2>6 DEF Consistent, Sound, Contains
<1>7. CASE Load
  <2>1. /\ product' \in Aggregate /\ product'.sku = Sku /\ Sound(product')
        /\ product'.batches = stored
    BY <1>7, LoadIsExact
  <2>2. UnsavedIsMarked'
    BY <1>7, <2>1 DEF Load, UnsavedIsMarked
  <2>3. QED
    BY <1>7, <2>1, <2>2 DEF Load, Consistent, TypeOK, Sound, Contains
<1>8. CASE UNCHANGED vars
  BY <1>8 DEF vars, Consistent, TypeOK, Sound, Contains, UnsavedIsMarked
<1>9. QED
  BY <1>1, <1>2, <1>3, <1>4, <1>5, <1>6, <1>7, <1>8 DEF Next

LEMMA InitIsConsistent ==
    ASSUME Init
    PROVE  Consistent
<1>1. Sku \in Skus /\ 0 \in 0..MaxCalls
  BY AggregateAssumption
<1>2. product \in Aggregate /\ product.sku = Sku
  <2>1. <<>> \in Seq(Event)
    OBVIOUS
  <2>2. QED
    BY <1>1, <2>1 DEF Init, NewAggregate, Aggregate
<1>3. product.batches = [r \in Refs |-> NoBatch]
  BY DEF Init, NewAggregate
<1>4. QED
  BY <1>1, <1>2, <1>3 DEF Init, Consistent, TypeOK, Sound, Contains, UnsavedIsMarked

-----------------------------------------------------------------------------
(* Theorems *)

\* Types and the conditions the other theorems follow from hold in every reachable state.
THEOREM AlwaysConsistent == Spec => []Consistent
<1>1. Init => Consistent
  BY InitIsConsistent
<1>2. Consistent /\ [Next]_vars => Consistent'
  BY StepKeepsConsistent
<1>3. QED
  BY <1>1, <1>2, PTL DEF Spec

\* The object, its rows and the count of its events are of their types, for any number of calls.
THEOREM AggregateTypes == Spec => []TypeOK
<1>1. Consistent => TypeOK
  BY DEF Consistent
<1>2. QED
  BY <1>1, AlwaysConsistent, PTL

\* Dirty tracking (modifiedRefs, the modified flag) loses no change of a batch, for every
\* order of calls, commits and loads.
THEOREM DirtyTrackingIsComplete == Spec => []UnsavedIsMarked
<1>1. Consistent => UnsavedIsMarked
  BY DEF Consistent
<1>2. QED
  BY <1>1, AlwaysConsistent, PTL

\* No batch of the object ever holds more than was purchased: CanAllocate keeps lines out,
\* ChangeBatchQuantity takes enough of them out.
THEOREM AggregateNeverOversells == Spec => []NeverOversold
<1>1. Consistent => NeverOversold
  BY DEF Consistent, Sound, NeverOversold
<1>2. QED
  BY <1>1, AlwaysConsistent, PTL

-----------------------------------------------------------------------------
(* What leaves a batch *)

\* Only ChangeBatchQuantity takes lines out of a batch.
OnlyAdds(p, q) ==
    \A r \in Refs : Contains(p, r) => p.batches[r].allocations \subseteq q.batches[r].allocations

OnlyExcessLeaves(p, q) ==
    \A r \in Refs :
        /\ Contains(p, r) /\ Contains(q, r)
        /\ ~(p.batches[r].allocations \subseteq q.batches[r].allocations)
        => \E l \in p.batches[r].allocations \ q.batches[r].allocations :
               Total[q.batches[r].allocations \cup {l}] > q.batches[r].purchased

LEMMA AllocateOnlyAdds ==
    ASSUME NEW p \in Aggregate, NEW line \in OrderLines, NEW q \in AllocateOutcomes(p, line)
    PROVE  OnlyAdds(p, q)
<1>1. CASE q = p
  BY <1>1 DEF OnlyAdds
<1>2. CASE q = [p EXCEPT !.messages = Append(@, OutOfStock(line.sku))]
  BY <1>2 DEF OnlyAdds, Aggregate
<1>3. ASSUME NEW r \in Preferred(p, line), q = AllocatedTo(p, line, r)
      PROVE  OnlyAdds(p, q)
  <2>1. r \in Refs /\ Contains(p, r)
    BY DEF Preferred, Candidates
  <2>2. q.batches = [p.batches EXCEPT ![r] = AllocateLine(@, line)]
    BY <1>3 DEF AllocatedTo, Aggregate
  <2>3. p.batches[r] \in Batch
    BY <2>1 DEF Aggregate, Contains
  <2>4. p.batches[r].allocations \subseteq AllocateLine(p.batches[r], line).allocations
    BY <2>3 DEF AllocateLine, Batch
  <2>5. QED
    BY <2>1, <2>2, <2>4 DEF OnlyAdds, Aggregate
<1>4. QED
  BY <1>1, <1>2, <1>3 DEF AllocateOutcomes

LEMMA ChangeTakesOnlyExcess ==
    ASSUME NEW p \in Aggregate, NEW ref \in Refs, Contains(p, ref), NEW qty \in Quantities,
           NEW q \in ChangeQuantityOutcomes(p, ref, qty)
    PROVE  OnlyExcessLeaves(p, q)
<1> DEFINE b == [p.batches[ref] EXCEPT !.purchased = qty]
<1>1. /\ b \in Batch /\ b.purchased = qty
      /\ b.allocations = p.batches[ref].allocations
  BY DEF Aggregate, Batch, Contains
<1>2. PICK s \in DeallocationOrders(b) :
          q = [p EXCEPT !.batches[ref] = Without(b, s),
                        !.modifiedRefs = @ \cup {ref},
                        !.modified = TRUE,
                        !.messages = @ \o [i \in 1..Len(s) |-> Deallocated(s[i])]]
  BY DEF ChangeQuantityOutcomes
<1> HIDE DEF b
<1>3. q.batches = [p.batches EXCEPT ![ref] = Without(b, s)]
  BY <1>2 DEF Aggregate
<1>4. q.batches[ref] = Without(b, s) /\ \A r \in Refs : r # ref => q.batches[r] = p.batches[r]
  BY <1>3 DEF Aggregate
<1>5. Without(b, s).purchased = b.purchased
  BY <1>1 DEF Without, Batch
<1>6. ASSUME ~(b.allocations \subseteq Without(b, s).allocations)
      PROVE  \E l \in b.allocations \ Without(b, s).allocations :
                 Total[Without(b, s).allocations \cup {l}] > b.purchased
  BY <1>1, <1>6, LastLineWasExcess
<1>7. QED
  BY <1>1, <1>4, <1>5, <1>6 DEF OnlyExcessLeaves

LEMMA StepTakesOnlyExcess ==
    ASSUME Consistent, [Next]_vars
    PROVE  OnlyExcessLeaves(product, product')
<1>0. product \in Aggregate
  BY DEF Consistent, TypeOK
<1>1. ASSUME NEW r \in Refs, NEW b \in Batches, AddBatch(r, b)
      PROVE  OnlyAdds(product, product')
  BY <1>0, <1>1 DEF AddBatch, Call, WithBatch, OnlyAdds, Contains, Aggregate
<1>2. ASSUME NEW rs \in SUBSET Refs, NEW new \in [rs -> Batches], AddBatches(new)
      PROVE  OnlyAdds(product, product')
  BY <1>0, <1>2 DEF AddBatches, Call, WithBatches, OnlyAdds, Contains, Aggregate
<1>3. ASSUME NEW l \in OrderLines, Allocate(l)
      PROVE  OnlyAdds(product, product')
  BY <1>0, <1>3, AllocateOnlyAdds DEF Allocate, Call
<1>4. ASSUME NEW r \in Refs, NEW q \in Quantities, ChangeBatchQuantity(r, q)
      PROVE  OnlyExcessLeaves(product, product')
  BY <1>0, <1>4, ChangeTakesOnlyExcess DEF ChangeBatchQuantity, Call
<1>5. ASSUME TakeMessages PROVE OnlyAdds(product, product')
  BY <1>0, <1>5 DEF TakeMessages, ClearMessages, OnlyAdds, Aggregate
<1>6. ASSUME Save PROVE OnlyAdds(product, product')
  BY <1>0, <1>6 DEF Save, SetModified, OnlyAdds, Aggregate
<1>7. ASSUME Load PROVE OnlyAdds(product, product')
  BY <1>7, LoadIsExact DEF OnlyAdds
<1>8. ASSUME UNCHANGED vars PROVE OnlyAdds(product, product')
  BY <1>8 DEF vars, OnlyAdds
<1>9. OnlyAdds(product, product') => OnlyExcessLeaves(product, product')
  BY DEF OnlyAdds, OnlyExcessLeaves
<1>10. QED
  BY <1>1, <1>2, <1>3, <1>4, <1>5, <1>6, <1>7, <1>8, <1>9 DEF Next

\* A batch that shrinks gives back lines only as long as it is oversold: the last one it gave
\* back did not fit any more.  No other call, save or load takes a line out of a batch.
THEOREM OnlyExcessIsDeallocated == Spec => DeallocatesOnlyTheExcess
<1>1. Consistent /\ [Next]_vars => [OnlyExcessLeaves(product, product')]_product
  BY StepTakesOnlyExcess
<1>2. [OnlyExcessLeaves(product, product')]_product =>
          [\A r \in Refs :
              LET held == product.batches[r].allocations
                  kept == product'.batches[r].allocations
              IN Contains(product, r) /\ Contains(product', r) /\ ~(held \subseteq kept) =>
                    \E l \in held \ kept :
                        Total[kept \cup {l}] > product'.batches[r].purchased]_product
  BY DEF OnlyExcessLeaves
<1>3. QED
  BY <1>1, <1>2, AlwaysConsistent, PTL DEF Spec, DeallocatesOnlyTheExcess
-----------------------------------------------------------------------------
(* The machine's arithmetic *)

LEMMA Division ==
    ASSUME NEW m \in Nat \ {0}, NEW n \in Int
    PROVE  n = m * (n \div m) + (n % m) /\ (n % m) \in 0..(m-1) /\ n \div m \in Int
OBVIOUS

\* Two remainders that differ by a multiple of m are the same.
LEMMA RemaindersAreUnique ==
    ASSUME NEW m \in Nat \ {0}, NEW k \in Int, NEW r \in 0..(m-1), NEW s \in 0..(m-1), m * k + r = s
    PROVE  r = s
<1>1. CASE k = 0
  BY <1>1
<1>2. CASE k >= 1
  <2>1. m * k >= m
    BY <1>2
  <2>2. QED
    BY <2>1
<1>3. CASE k <= -1
  <2>1. m * k <= -m
    BY <1>3
  <2>2. QED
    BY <2>1
<1>4. QED
  BY <1>1, <1>2, <1>3

LEMMA RemainderIs ==
    ASSUME NEW m \in Nat \ {0}, NEW n \in Int, NEW k \in Int, NEW r \in 0..(m-1), n = m * k + r
    PROVE  (n % m) = r
<1> DEFINE q == n \div m
           s == n % m
           d == q - k
<1>1. n = m * q + s /\ s \in 0..(m-1) /\ q \in Int
  BY Division
<1> HIDE DEF q, s
<1>2. m * d = m * q - m * k /\ d \in Int
  BY <1>1
<1>3. m * d + s = r
  BY <1>1, <1>2
<1>. HIDE DEF d
<1>4. s = r
  BY <1>1, <1>2, <1>3, RemaindersAreUnique
<1>5. QED
  BY <1>4 DEF s

\* Whatever fits in an int comes back from size_t, also when it is negative.
LEMMA Narrowing ==
    ASSUME NEW n \in Int, -IntRange < 2 * n, 2 * n < IntRange
    PROVE  ToInt(ToSize(n)) = n
<1>1. IntRange \in Nat \ {0} /\ SizeRange \in Nat \ {0} /\ SizeRange >= IntRange
  BY WidthAssumption
<1>2. PICK k \in Int : SizeRange = IntRange * k
  <2>1. SizeRange = IntRange * (SizeRange \div IntRange) + (SizeRange % IntRange)
        /\ SizeRange \div IntRange \in Int
    BY <1>1, Division
  <2>2. (SizeRange % IntRange) = 0
    BY WidthAssumption
  <2>3. SizeRange = IntRange * (SizeRange \div IntRange)
    BY <1>1, <2>1, <2>2
  <2>4. QED
    BY <2>1, <2>3
<1>3. CASE n >= 0
  <2>1. ToSize(n) = n
    <3>1. n = SizeRange * 0 + n /\ n \in 0..(SizeRange - 1)
      BY <1>1, <1>3
    <3>2. QED
      BY <1>1, <3>1, RemainderIs DEF ToSize
  <2>2. (n % IntRange) = n
    <3>1. n = IntRange * 0 + n /\ n \in 0..(IntRange - 1)
      BY <1>1, <1>3
    <3>2. QED
      BY <1>1, <3>1, RemainderIs
  <2>3. QED
    BY <2>1, <2>2 DEF ToInt
<1>4. CASE n < 0
  <2>1. ToSize(n) = n + SizeRange
    <3>1. n = SizeRange * (-1) + (n + SizeRange) /\ n + SizeRange \in 0..(SizeRange - 1)
      BY <1>1, <1>4
    <3>2. QED
      BY <1>1, <3>1, RemainderIs DEF ToSize
  <2>2. ((n + SizeRange) % IntRange) = n + IntRange
    <3>1. IntRange * (k - 1) = IntRange * k - IntRange
      BY <1>1
    <3>2. n + SizeRange = IntRange * (k - 1) + (n + IntRange) /\ n + IntRange \in 0..(IntRange - 1)
      BY <1>1, <1>2, <1>4, <3>1
    <3>3. k - 1 \in Int /\ n + SizeRange \in Int
      BY <1>1
    <3>4. QED
      BY <1>1, <3>2, <3>3, RemainderIs
  <2>3. QED
    BY <1>1, <1>4, <2>1, <2>2 DEF ToInt
<1>5. QED
  BY <1>3, <1>4

\* A quantity that fits in an int is a size_t as it is.
LEMMA SizesStay ==
    ASSUME NEW n \in Nat, 2 * n < IntRange
    PROVE  ToSize(n) = n
<1>1. IntRange \in Nat \ {0} /\ SizeRange \in Nat \ {0} /\ SizeRange >= IntRange
  BY WidthAssumption
<1>2. n = SizeRange * 0 + n /\ n \in 0..(SizeRange - 1)
  BY <1>1
<1>3. QED
  BY <1>1, <1>2, RemainderIs DEF ToSize

\* No sequence of calls on a product leaves a batch for which GetAvailableQuantity or CanAllocate
\* wraps around, whatever the widths of int and size_t.
THEOREM ArithmeticIsAlwaysExact == Spec => []ArithmeticIsExact
<1>1. Consistent => ArithmeticIsExact
  <2> SUFFICES ASSUME Consistent, NEW r \in Refs, NEW q \in Quantities, Contains(product, r)
               PROVE  LET b == [product.batches[r] EXCEPT !.purchased = q]
                      IN  /\ GetAvailableQuantity(b) = Available(b)
                          /\ Available(b) >= 0 => \A l \in OrderLines :
                                 Fits(b, l) <=> l.sku = b.sku /\ l.quantity <= Available(b)
    BY DEF ArithmeticIsExact
  <2> DEFINE held == product.batches[r].allocations
             b == [product.batches[r] EXCEPT !.purchased = q]
             t == Total[held]
  <2>1. product.batches[r] \in Batch
    BY DEF Consistent, TypeOK, Aggregate, Contains
  <2>2. held \in SUBSET OrderLines /\ product.batches[r].purchased \in Quantities
    BY <2>1 DEF Batch
  <2>3. t \in Int /\ t >= 0
    BY <2>2, TotalAssumption, WidthAssumption
  <2> DEFINE n == product.batches[r].purchased
  <2>4. t \in Nat /\ 2 * t < IntRange
    <3>1. n - t >= 0
      BY DEF Consistent, Sound, Available
    <3>2. n \in Int /\ 2 * n < IntRange /\ IntRange \in Int
      <4>. HIDE DEF n
      <4>1. n \in Quantities
        BY <2>2 DEF n
      <4>2. QED
        BY <4>1, WidthAssumption, NumbersAssumption
    <3>. HIDE DEF n, t
    <3>3. QED
      BY <2>3, <3>1, <3>2
  <2>5. q \in Nat /\ 2 * q < IntRange
    BY WidthAssumption, NumbersAssumption
  <2>6. b.purchased = q /\ b.allocations = held
    BY <2>1 DEF Batch
  <2>. HIDE DEF t, b
  <2>7. Available(b) = q - t
    BY <2>6 DEF Available, t
  <2>8. GetAvailableQuantity(b) = q - t
    <3>1. ToSize(Total[b.allocations]) = t
      BY <2>4, <2>6, SizesStay DEF t
    <3>2. ToInt(ToSize(q - t)) = q - t
      BY <2>4, <2>5, Narrowing, WidthAssumption
    <3>3. QED
      BY <2>6, <3>1, <3>2 DEF GetAvailableQuantity
  <2>9. ASSUME Available(b) >= 0, NEW l \in OrderLines
        PROVE  Fits(b, l) <=> l.sku = b.sku /\ l.quantity <= Available(b)
    <3>1. q - t \in Nat /\ 2 * (q - t) < IntRange
      <4>1. IntRange \in Int
        BY WidthAssumption
      <4>2. QED
        BY <2>4, <2>5, <2>7, <2>9, <4>1
    <3>2. ToSize(q - t) = q - t
      BY <3>1, SizesStay
    <3>3. l.quantity \in Int
      BY OrderLinesAssumption
    <3>4. QED
      BY <2>4, <2>5, <2>7, <2>8, <3>2, <3>3 DEF Fits
  <2>10. QED
    BY <2>7, <2>8, <2>9 DEF b
<1>2. QED
  BY <1>1, AlwaysConsistent, PTL

-----------------------------------------------------------------------------
(* The events raised cover the allocations *)

\* The batches of p that hold the line.
Holders(p, l) == {r \in Refs : Contains(p, r) /\ l \in p.batches[r].allocations}

\* Where the events new speak of line l.
EventsOf(new, type, l) == {i \in DOMAIN new : new[i].type = type /\ new[i].line = l}

\* The inductive invariant.  Only finitely many batches hold a line, also where AddBatches may
\* be called with infinitely many: what is not finite has no number to be compared with.
Covered ==
    \A l \in OrderLines : /\ IsFiniteSet(Holders(product, l))
                          /\ balance[l] >= Cardinality(Holders(product, l))

LEMMA SmallSets == Cardinality({}) = 0 /\ \A x : Cardinality({x}) = 1
BY FS_EmptySet, FS_Singleton

\* Raised counts the events that a call has appended.
LEMMA RaisedCounts ==
    ASSUME product \in Aggregate, NEW p, NEW new \in Seq(Event),
           p.messages = product.messages \o new, NEW l \in OrderLines
    PROVE  Raised(p)[l] =
             Cardinality(EventsOf(new, "Allocated", l)) - Cardinality(EventsOf(new, "Deallocated", l))
<1> DEFINE old == product.messages
           tail == SubSeq(p.messages, Len(old) + 1, Len(p.messages))
<1>1. old \in Seq(Event)
  BY DEF Aggregate
<1>2. p.messages = old \o new
  OBVIOUS
<1>3. tail = new
  <2> HIDE DEF old
  <2>1. Len(p.messages) = Len(old) + Len(new) /\ Len(old) \in Nat /\ Len(new) \in Nat
    BY <1>1, <1>2
  <2>2. tail \in Seq(Event)
    BY <1>1, <1>2, <2>1
  <2>3. Len(tail) = Len(new)
    BY <1>1, <1>2, <2>1
  <2>4. \A i \in 1..Len(new) : tail[i] = new[i]
    BY <1>1, <1>2, <2>1
  <2> HIDE DEF tail
  <2>5. QED
    BY <2>2, <2>3, <2>4
<1> HIDE DEF old
<1>4. Raised(p)[l] =
          Cardinality(EventsOf(tail, "Allocated", l)) - Cardinality(EventsOf(tail, "Deallocated", l))
  BY DEF Raised, EventsOf, tail, old
<1>5. QED
  BY <1>3, <1>4

\* A call whose events make up for every batch it gives a line to.
LEMMA CallKeepsCovered ==
    ASSUME Consistent, Covered, NEW p \in Aggregate, Marks(product, p), Call(p),
           \A l \in OrderLines :
               /\ IsFiniteSet(Holders(p, l))
               /\ Cardinality(Holders(p, l)) <= Cardinality(Holders(product, l)) + Raised(p)[l]
    PROVE  Covered'
<1>1. product' = p /\ balance' = [l \in OrderLines |-> balance[l] + Raised(p)[l]]
  BY DEF Call
<1>2. SUFFICES ASSUME NEW l \in OrderLines
               PROVE  /\ IsFiniteSet(Holders(p, l))
                      /\ balance'[l] >= Cardinality(Holders(p, l))
  BY <1>1 DEF Covered, Holders, Contains
<1>3. Raised(p)[l] \in Int /\ balance[l] \in Int
  BY RaisedIsInt DEF Consistent, TypeOK
<1>4. /\ Cardinality(Holders(product, l)) \in Nat
      /\ balance[l] >= Cardinality(Holders(product, l))
  BY FS_CardinalityType DEF Covered
<1>5. Cardinality(Holders(p, l)) \in Nat
  BY FS_CardinalityType
<1>6. balance'[l] = balance[l] + Raised(p)[l]
  BY <1>1
<1>7. QED
  BY <1>3, <1>4, <1>5, <1>6

\* A call that raises no event and gives no line to a batch.
LEMMA QuietCallKeepsCovered ==
    ASSUME Consistent, Covered, NEW p \in Aggregate, Marks(product, p), Call(p),
           p.messages = product.messages,
           \A l \in OrderLines : Holders(p, l) = Holders(product, l)
    PROVE  Covered'
<1>1. product \in Aggregate
  BY DEF Consistent, TypeOK
<1>2. p.messages = product.messages \o <<>> /\ <<>> \in Seq(Event)
  <2>1. product.messages \in Seq(Event)
    BY <1>1 DEF Aggregate
  <2>2. QED
    BY <2>1
<1>3. ASSUME NEW l \in OrderLines
      PROVE  /\ IsFiniteSet(Holders(p, l))
             /\ Cardinality(Holders(p, l)) <= Cardinality(Holders(product, l)) + Raised(p)[l]
  <2>1. IsFiniteSet(Holders(product, l)) /\ Cardinality(Holders(product, l)) \in Nat
    BY FS_CardinalityType DEF Covered
  <2>2. EventsOf(<<>>, "Allocated", l) = {} /\ EventsOf(<<>>, "Deallocated", l) = {}
    BY DEF EventsOf
  <2>3. Raised(p)[l] = Cardinality({}) - Cardinality({})
    BY <1>1, <1>2, <2>2, RaisedCounts
  <2>4. Raised(p)[l] = 0
    BY <2>3, FS_EmptySet
  <2>5. QED
    BY <2>1, <2>4
<1>4. QED
  BY <1>3, CallKeepsCovered

\* A line goes to one batch at most, with an event of its own.
LEMMA AllocateKeepsCovered ==
    ASSUME Consistent, Covered, NEW line \in OrderLines,
           NEW p \in AllocateOutcomes(product, line), Call(p)
    PROVE  Covered'
<1>0. product \in Aggregate /\ Sound(product)
  BY DEF Consistent, TypeOK
<1>1. p \in Aggregate /\ Marks(product, p)
  BY <1>0, AllocateOutcomesSound, AllocateMarks
<1>2. CASE p = product
  BY <1>1, <1>2, QuietCallKeepsCovered
<1>3. CASE /\ p.batches = product.batches
           /\ p.messages = Append(product.messages, OutOfStock(line.sku))
  <2> DEFINE e == OutOfStock(line.sku)
  <2>1. e \in Event /\ e.type = "OutOfStock"
    BY OrderLinesAssumption DEF OutOfStock, Event
  <2> HIDE DEF e
  <2>2. p.messages = product.messages \o <<e>> /\ <<e>> \in Seq(Event)
    <3>1. product.messages \in Seq(Event)
      BY <1>0 DEF Aggregate
    <3>2. QED
      BY <1>3, <2>1, <3>1 DEF e
  <2>3. ASSUME NEW l \in OrderLines
        PROVE  /\ IsFiniteSet(Holders(p, l))
               /\ Cardinality(Holders(p, l)) <= Cardinality(Holders(product, l)) + Raised(p)[l]
    <3>1. Holders(p, l) = Holders(product, l)
      BY <1>3 DEF Holders, Contains
    <3>2. IsFiniteSet(Holders(product, l)) /\ Cardinality(Holders(product, l)) \in Nat
      BY FS_CardinalityType DEF Covered
    <3>3. EventsOf(<<e>>, "Allocated", l) = {} /\ EventsOf(<<e>>, "Deallocated", l) = {}
      BY <2>1 DEF EventsOf
    <3>4. Raised(p)[l] = Cardinality({}) - Cardinality({})
      BY <1>0, <2>2, <3>3, RaisedCounts
    <3>5. QED
      BY <3>1, <3>2, <3>4, FS_EmptySet
  <2>4. QED
    BY <1>1, <2>3, CallKeepsCovered
<1>4. ASSUME NEW r \in Refs, LineAllocated(product, p, line, r)
      PROVE  Covered'
  <2> DEFINE e == Allocated(line, r)
  <2>1. e \in Event /\ e.type = "Allocated" /\ e.line = line
    BY DEF Allocated, Event
  <2> HIDE DEF e
  <2>2. p.messages = product.messages \o <<e>> /\ <<e>> \in Seq(Event)
    <3>1. product.messages \in Seq(Event)
      BY <1>0 DEF Aggregate
    <3>2. QED
      BY <1>4, <2>1, <3>1 DEF e, LineAllocated
  <2>3. /\ Contains(product, r) /\ product.batches[r] \in Batch
        /\ p.batches = [product.batches EXCEPT ![r] = AllocateLine(product.batches[r], line)]
    BY <1>0, <1>4 DEF LineAllocated, Aggregate, Contains
  <2>4. /\ p.batches[r] # NoBatch
        /\ p.batches[r].allocations = product.batches[r].allocations \cup {line}
        /\ \A x \in Refs : x # r => p.batches[x] = product.batches[x]
    <3>1. AllocateLine(product.batches[r], line) =
              [product.batches[r] EXCEPT !.allocations = @ \cup {line}]
      BY <1>4 DEF LineAllocated, AllocateLine
    <3>2. /\ AllocateLine(product.batches[r], line) \in Batch
          /\ AllocateLine(product.batches[r], line).allocations =
                 product.batches[r].allocations \cup {line}
      BY <2>3, <3>1 DEF Batch
    <3>3. product.batches \in [Refs -> Batch \cup {NoBatch}]
      BY <1>0 DEF Aggregate
    <3>4. QED
      BY <2>3, <3>2, <3>3, NullAssumption
  <2>5. ASSUME NEW l \in OrderLines
        PROVE  /\ IsFiniteSet(Holders(p, l))
               /\ Cardinality(Holders(p, l)) <= Cardinality(Holders(product, l)) + Raised(p)[l]
    <3>1. IsFiniteSet(Holders(product, l)) /\ Cardinality(Holders(product, l)) \in Nat
      BY FS_CardinalityType DEF Covered
    <3>2. EventsOf(<<e>>, "Deallocated", l) = {}
      BY <2>1 DEF EventsOf
    <3>3. CASE l = line
      <4>1. EventsOf(<<e>>, "Allocated", l) = {1}
        BY <2>1, <3>3 DEF EventsOf
      <4>2. Raised(p)[l] = Cardinality({1}) - Cardinality({})
        BY <1>0, <2>2, <3>2, <4>1, RaisedCounts
      <4>3. Raised(p)[l] = 1
        <5>1. Cardinality({1}) = 1 /\ Cardinality({}) = 0
          BY SmallSets
        <5>2. QED
          BY <4>2, <5>1
      <4>4. Holders(p, l) = Holders(product, l) \cup {r}
        BY <2>3, <2>4, <3>3 DEF Holders, Contains
      <4>5. /\ IsFiniteSet(Holders(product, l) \cup {r})
            /\ Cardinality(Holders(product, l) \cup {r}) <= Cardinality(Holders(product, l)) + 1
        BY <3>1, FS_AddElement
      <4>6. QED
        BY <4>3, <4>4, <4>5
    <3>4. CASE l # line
      <4>1. EventsOf(<<e>>, "Allocated", l) = {}
        BY <2>1, <3>4 DEF EventsOf
      <4>2. Raised(p)[l] = Cardinality({}) - Cardinality({})
        BY <1>0, <2>2, <3>2, <4>1, RaisedCounts
      <4>3. Holders(p, l) = Holders(product, l)
        BY <2>3, <2>4, <3>4 DEF Holders, Contains
      <4>4. QED
        BY <3>1, <4>2, <4>3, FS_EmptySet
    <3>5. QED
      BY <3>3, <3>4
  <2>6. QED
    BY <1>1, <2>5, CallKeepsCovered
<1>5. QED
  BY <1>0, <1>2, <1>3, <1>4, AllocateAnnounces

\* A batch that shrinks takes each line back once, and says so once.
LEMMA ChangeQuantityKeepsCovered ==
    ASSUME Consistent, Covered, NEW ref \in Refs, Contains(product, ref), NEW qty \in Quantities,
           NEW p \in ChangeQuantityOutcomes(product, ref, qty), Call(p)
    PROVE  Covered'
<1>0. product \in Aggregate /\ Sound(product)
  BY DEF Consistent, TypeOK
<1>1. p \in Aggregate /\ Marks(product, p)
  BY <1>0, ChangeQuantityOutcomesSound, ChangeQuantityMarks
<1> DEFINE old == product.batches[ref]
<1>2. old \in Batch /\ old # NoBatch
  BY <1>0 DEF Aggregate, Contains
<1>3. PICK s \in Seq(old.allocations) : LinesDeallocated(product, p, ref, s)
  BY <1>0, ChangeQuantityAnnounces
<1> DEFINE new == [i \in 1..Len(s) |-> Deallocated(s[i])]
<1>4. /\ \A i, j \in DOMAIN s : s[i] = s[j] => i = j
      /\ p.batches[ref].allocations = old.allocations \ {s[i] : i \in DOMAIN s}
      /\ p.messages = product.messages \o new
  BY <1>3 DEF LinesDeallocated
<1>5. DOMAIN s = 1..Len(s) /\ Len(s) \in Nat /\ \A i \in DOMAIN s : s[i] \in old.allocations
  BY <1>3
<1>6. new \in Seq(Event) /\ DOMAIN new = 1..Len(s)
      /\ \A i \in DOMAIN new : new[i].type = "Deallocated" /\ new[i].line = s[i]
  <2>1. \A i \in 1..Len(s) : /\ Deallocated(s[i]) \in Event
                             /\ Deallocated(s[i]).type = "Deallocated"
                             /\ Deallocated(s[i]).line = s[i]
    BY <1>2, <1>5 DEF Deallocated, Event, Batch
  <2>2. QED
    BY <1>5, <2>1
<1>7. p.batches[ref] # NoBatch /\ \A x \in Refs : x # ref => p.batches[x] = product.batches[x]
  <2>1. QuantityChanged(product, p, ref, qty)
    BY <1>0, ChangeQuantityEffects
  <2>2. PICK kept \in SUBSET old.allocations :
            p.batches = [product.batches EXCEPT ![ref] =
                            [old EXCEPT !.purchased = qty, !.allocations = kept]]
    BY <2>1 DEF QuantityChanged
  <2>3. [old EXCEPT !.purchased = qty, !.allocations = kept] \in Batch
    BY <1>2, <2>2 DEF Batch
  <2>4. product.batches \in [Refs -> Batch \cup {NoBatch}]
    BY <1>0 DEF Aggregate
  <2> HIDE DEF old
  <2>5. QED
    BY <2>2, <2>3, <2>4, NullAssumption
<1> HIDE DEF new
<1>8. ASSUME NEW l \in OrderLines
      PROVE  /\ IsFiniteSet(Holders(p, l))
             /\ Cardinality(Holders(p, l)) <= Cardinality(Holders(product, l)) + Raised(p)[l]
  <2>1. IsFiniteSet(Holders(product, l)) /\ Cardinality(Holders(product, l)) \in Nat
    BY FS_CardinalityType DEF Covered
  <2>0. Raised(p)[l] = Cardinality(EventsOf(new, "Allocated", l))
                       - Cardinality(EventsOf(new, "Deallocated", l))
    <3>1. p.messages = product.messages \o new /\ new \in Seq(Event)
      BY <1>4, <1>6
    <3>2. QED
      BY <1>0, <3>1, RaisedCounts
  <2>2. EventsOf(new, "Allocated", l) = {}
    BY <1>6 DEF EventsOf
  <2>3. EventsOf(new, "Deallocated", l) = {i \in DOMAIN s : s[i] = l}
    BY <1>5, <1>6 DEF EventsOf
  <2>4. CASE \E i \in DOMAIN s : s[i] = l
    <3>1. PICK i \in DOMAIN s : s[i] = l
      BY <2>4
    <3>2. EventsOf(new, "Deallocated", l) = {i}
      BY <1>4, <2>3, <3>1
    <3>3. Raised(p)[l] = Cardinality({}) - Cardinality({i})
      BY <2>0, <2>2, <3>2
    <3>4. Raised(p)[l] = -1
      <4>1. Cardinality({i}) = 1 /\ Cardinality({}) = 0
        BY SmallSets
      <4>2. QED
        BY <3>3, <4>1
    <3>5. Holders(p, l) = Holders(product, l) \ {ref} /\ ref \in Holders(product, l)
      BY <1>2, <1>4, <1>5, <1>7, <3>1 DEF Holders, Contains
    <3>6. /\ IsFiniteSet(Holders(product, l) \ {ref})
          /\ Cardinality(Holders(product, l) \ {ref}) = Cardinality(Holders(product, l)) - 1
      BY <2>1, <3>5, FS_RemoveElement
    <3>7. QED
      BY <2>1, <3>4, <3>5, <3>6
  <2>5. CASE ~\E i \in DOMAIN s : s[i] = l
    <3>1. EventsOf(new, "Deallocated", l) = {}
      BY <2>3, <2>5
    <3>2. Raised(p)[l] = Cardinality({}) - Cardinality({})
      BY <2>0, <2>2, <3>1
    <3>3. Holders(p, l) = Holders(product, l)
      BY <1>2, <1>4, <1>7, <2>5 DEF Holders, Contains
    <3>4. QED
      BY <2>1, <3>2, <3>3, FS_EmptySet
  <2>6. QED
    BY <2>4, <2>5
<1>9. QED
  BY <1>1, <1>8, CallKeepsCovered

LEMMA StepKeepsCovered ==
    ASSUME Consistent, Covered, [Next]_vars
    PROVE  Covered'
<1>0. product \in Aggregate /\ product.sku = Sku /\ Sound(product)
  BY DEF Consistent, TypeOK
<1>1. ASSUME NEW r \in Refs, NEW b \in Batches, AddBatch(r, b)
      PROVE  Covered'
  <2> DEFINE p == WithBatch(product, r, b)
  <2>1. b \in Batch /\ b.sku = product.sku /\ Available(b) >= 0 /\ b.allocations = {}
    BY <1>0, NewBatchIsEmpty DEF Batches, NewBatch
  <2>2. p \in Aggregate /\ Marks(product, p) /\ p.messages = product.messages
    BY <1>0, <2>1, WithBatchSound, WithBatchMarks DEF WithBatch, Aggregate
  <2>3. \/ p = product
        \/ /\ ~Contains(product, r)
           /\ p.batches = [product.batches EXCEPT ![r] = b]
    <3>1. CASE Contains(product, r)
      BY <3>1 DEF WithBatch
    <3>2. CASE ~Contains(product, r)
      <4>1. p.batches = [product.batches EXCEPT ![r] = b]
        BY <1>0, <3>2 DEF WithBatch, Aggregate
      <4>2. QED
        BY <3>2, <4>1
    <3>3. QED
      BY <3>1, <3>2
  <2> HIDE DEF p
  <2>4. \A l \in OrderLines : Holders(p, l) = Holders(product, l)
    BY <1>0, <2>1, <2>3 DEF Holders, Contains, Aggregate
  <2>5. QED
    BY <1>1, <2>2, <2>4, QuietCallKeepsCovered DEF AddBatch, p
<1>2. ASSUME NEW rs \in SUBSET Refs, NEW new \in [rs -> Batches], AddBatches(new)
      PROVE  Covered'
  <2> DEFINE p == WithBatches(product, new)
  <2>1. /\ new \in [rs -> Batch]
        /\ \A r \in rs : new[r].sku = product.sku /\ Available(new[r]) >= 0
        /\ \A r \in rs : new[r].allocations = {}
    BY <1>0, NewBatchIsEmpty DEF Batches, NewBatch
  <2>2. p \in Aggregate /\ Marks(product, p)
    BY <1>0, <2>1, WithBatchesSound
  <2>3. \/ p = product
        \/ /\ \A r \in rs : ~Contains(product, r)
           /\ p.messages = product.messages
           /\ p.batches = [r \in Refs |-> IF r \in rs THEN new[r] ELSE product.batches[r]]
    BY <1>0 DEF WithBatches, Aggregate
  <2> HIDE DEF p
  <2>4. \A l \in OrderLines : Holders(p, l) = Holders(product, l)
    BY <2>1, <2>3 DEF Holders, Contains
  <2>5. QED
    BY <1>2, <2>2, <2>3, <2>4, QuietCallKeepsCovered DEF AddBatches, p
<1>3. ASSUME NEW l \in OrderLines, Allocate(l)
      PROVE  Covered'
  BY <1>3, AllocateKeepsCovered DEF Allocate
<1>4. ASSUME NEW r \in Refs, NEW q \in Quantities, ChangeBatchQuantity(r, q)
      PROVE  Covered'
  BY <1>4, ChangeQuantityKeepsCovered DEF ChangeBatchQuantity
<1>5. CASE product'.batches = product.batches /\ balance' = balance
  BY <1>5 DEF Covered, Holders, Contains
<1>6. ASSUME TakeMessages \/ Save \/ Load \/ UNCHANGED vars
      PROVE  product'.batches = product.batches /\ balance' = balance
  <2>1. CASE TakeMessages
    BY <1>0, <2>1 DEF TakeMessages, ClearMessages, Aggregate
  <2>2. CASE Save
    BY <1>0, <2>2 DEF Save, SetModified, Aggregate
  <2>3. CASE Load
    BY <2>3, LoadIsExact DEF Load
  <2>4. CASE UNCHANGED vars
    BY <2>4 DEF vars
  <2>5. QED
    BY <1>6, <2>1, <2>2, <2>3, <2>4
<1>7. QED
  BY <1>1, <1>2, <1>3, <1>4, <1>5, <1>6 DEF Next

\* A line was announced as allocated at least as many times more often than as deallocated as
\* there are batches that hold it, whatever is called, saved and loaded in between: no member
\* function gives a batch a line, or takes one twice, without saying so.
THEOREM EventsCoverAllHolders == Spec => []EventsCoverAllocations
<1>1. Init => Covered
  <2> SUFFICES ASSUME Init, NEW l \in OrderLines
               PROVE  /\ IsFiniteSet(Holders(product, l))
                      /\ balance[l] >= Cardinality(Holders(product, l))
    BY DEF Covered
  <2>1. product.batches = [r \in Refs |-> NoBatch] /\ balance[l] = 0
    BY DEF Init, NewAggregate
  <2>2. Holders(product, l) = {}
    BY <2>1 DEF Holders, Contains
  <2>3. QED
    BY <2>1, <2>2, FS_EmptySet
<1>2. Consistent /\ Covered /\ [Next]_vars => Covered'
  BY StepKeepsCovered
<1>3. Covered => EventsCoverAllocations
  BY DEF Covered, Holders, EventsCoverAllocations
<1>4. QED
  BY <1>1, <1>2, <1>3, AlwaysConsistent, PTL DEF Spec
==============================================================================
