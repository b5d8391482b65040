---------------------------- MODULE ProductProofs ----------------------------
(***************************************************************************)
(* What the operators of the domain model preserve.                        *)
(***************************************************************************)
EXTENDS Product, TLAPS

\* Sums of lines are numbers, so is what a batch has available.
LEMMA AvailableIsInt ==
    ASSUME NEW b \in Batch
    PROVE  Total[b.allocations] \in Int /\ b.purchased \in Int /\ Available(b) \in Int
<1>1. b.allocations \in SUBSET OrderLines /\ b.purchased \in Quantities
  BY DEF Batch
<1>2. Total[b.allocations] \in Int
  BY <1>1, TotalAssumption
<1>3. b.purchased \in Int
  BY <1>1, NumbersAssumption
<1>4. QED
  BY <1>2, <1>3 DEF Available

\* Batch::Allocate leaves a batch, and does not overfill it: CanAllocate lets through no more
\* than what is available, negative quantities being huge.
LEMMA AllocateLineSound ==
    ASSUME NEW b \in Batch, NEW l \in OrderLines, Available(b) >= 0
    PROVE  /\ AllocateLine(b, l) \in Batch
           /\ AllocateLine(b, l).sku = b.sku
           /\ Available(AllocateLine(b, l)) >= 0
<1>1. CASE ~CanAllocate(b, l)
  BY <1>1 DEF AllocateLine
<1>2. CASE CanAllocate(b, l)
  <2> DEFINE c == [b EXCEPT !.allocations = @ \cup {l}]
  <2>1. AllocateLine(b, l) = c
    BY <1>2 DEF AllocateLine
  <2>2. /\ c \in Batch /\ c.sku = b.sku /\ c.purchased = b.purchased
        /\ c.allocations = b.allocations \cup {l}
    BY DEF Batch
  <2>3. l.quantity \in Int
    BY OrderLinesAssumption
  <2>4. Available(b) >= l.quantity
    BY <1>2, <2>3, AvailableIsInt DEF CanAllocate, UnsignedGeq
  <2>5. b.allocations \in SUBSET OrderLines
    BY DEF Batch
  <2>6. CASE l \in b.allocations
    <3>1. c.allocations = b.allocations
      BY <2>2, <2>6
    <3>2. QED
      BY <2>1, <2>2, <3>1 DEF Available
  <2>7. CASE l \notin b.allocations
    <3>1. Total[c.allocations] = Total[b.allocations] + l.quantity
      BY <2>2, <2>5, <2>7, TotalAssumption
    <3>2. Available(c) >= 0
      BY <2>2, <2>3, <2>4, <3>1, AvailableIsInt DEF Available
    <3>3. QED
      BY <2>1, <2>2, <3>2
  <2>8. QED
    BY <2>6, <2>7
<1>3. QED
  BY <1>1, <1>2

\* The loop of ChangeBatchQuantity ends with a batch that is not oversold.
LEMMA DeallocationSound ==
    ASSUME NEW b \in Batch, NEW s \in DeallocationOrders(b)
    PROVE  /\ s \in Seq(OrderLines)
           /\ Without(b, s) \in Batch
           /\ Without(b, s).sku = b.sku
           /\ Available(Without(b, s)) >= 0
<1>1. PICK n \in 0..Cardinality(b.allocations) : s \in Injection(1..n, b.allocations)
  BY DEF DeallocationOrders
<1>2. b.allocations \subseteq OrderLines
  BY DEF Batch
<1>3. n \in Nat
  BY <1>1
<1>4. s \in [1..n -> OrderLines]
  BY <1>1, <1>2 DEF Injection
<1>5. s \in Seq(OrderLines)
  BY <1>3, <1>4
<1>6. Without(b, s) \in Batch /\ Without(b, s).sku = b.sku
  BY <1>2 DEF Without, Batch
<1>7. QED
  BY <1>5, <1>6 DEF DeallocationOrders

\* A row that is not oversold is loaded as it is.
LEMMA ReloadIsExact ==
    ASSUME NEW b, Available(b) >= 0
    PROVE  Reload(b) = b
BY DEF Reload

LEMMA NewAggregateSound ==
    ASSUME NEW sku \in Skus, NEW flag \in BOOLEAN
    PROVE  /\ SetModified(NewAggregate(sku), flag) \in Aggregate
           /\ Sound(SetModified(NewAggregate(sku), flag))
<1> DEFINE n == NewAggregate(sku)
<1>1. <<>> \in Seq(Event)
  OBVIOUS
<1>2. n \in Aggregate /\ n.batches = [r \in Refs |-> NoBatch]
  BY <1>1 DEF NewAggregate, Aggregate
<1> HIDE DEF n
<1>3. SetModified(n, flag) \in Aggregate /\ SetModified(n, flag).batches = n.batches
  BY <1>2 DEF SetModified, Aggregate
<1>4. Sound(SetModified(n, flag))
  BY <1>2, <1>3 DEF Sound, Contains
<1>5. QED
  BY <1>3, <1>4 DEF n

LEMMA StoredAggregateSound ==
    ASSUME NEW sku \in Skus, NEW version \in Nat,
           NEW batches \in [Refs -> Batch \cup {NoBatch}],
           \A r \in Refs : batches[r] # NoBatch =>
               batches[r].sku = sku /\ Available(batches[r]) >= 0
    PROVE  /\ StoredAggregate(sku, version, batches) \in Aggregate
           /\ StoredAggregate(sku, version, batches).batches = batches
           /\ StoredAggregate(sku, version, batches).version = version
           /\ StoredAggregate(sku, version, batches).sku = sku
           /\ Sound(StoredAggregate(sku, version, batches))
<1> DEFINE n == NewAggregate(sku)
           p == StoredAggregate(sku, version, batches)
<1>1. <<>> \in Seq(Event)
  OBVIOUS
<1>2. n \in Aggregate /\ n.sku = sku
  BY <1>1 DEF NewAggregate, Aggregate
<1>3. p = [n EXCEPT !.version = version, !.batches = batches, !.modified = FALSE]
  BY DEF StoredAggregate
<1> HIDE DEF n, p
<1>4. p \in Aggregate /\ p.batches = batches /\ p.version = version /\ p.sku = sku
  BY <1>2, <1>3 DEF Aggregate
<1>5. Sound(p)
  BY <1>4 DEF Sound, Contains
<1>6. QED
  BY <1>4, <1>5 DEF p

LEMMA WithBatchSound ==
    ASSUME NEW p \in Aggregate, Sound(p), NEW ref \in Refs, NEW b \in Batch, b.sku = p.sku
    PROVE  /\ WithBatch(p, ref, b) \in Aggregate
           /\ WithBatch(p, ref, b).sku = p.sku
           /\ Available(b) >= 0 \/ Contains(p, ref) => Sound(WithBatch(p, ref, b))
           /\ ~Contains(p, ref) => /\ ref \in WithBatch(p, ref, b).modifiedRefs
                                  /\ WithBatch(p, ref, b).batches[ref] = b
BY DEF WithBatch, Aggregate, Sound, Contains

\* Whatever Product::Allocate leaves is a product without an oversold batch, if it was one.
LEMMA AllocateOutcomesSound ==
    ASSUME NEW p \in Aggregate, Sound(p), NEW line \in OrderLines,
           NEW q \in AllocateOutcomes(p, line)
    PROVE  q \in Aggregate /\ q.sku = p.sku /\ Sound(q)
<1>0. line.sku \in Skus
  BY OrderLinesAssumption
<1>1. CASE q = p
  BY <1>1
<1>2. CASE q = [p EXCEPT !.messages = Append(@, OutOfStock(line.sku))]
  <2>1. OutOfStock(line.sku) \in Event
    BY <1>0 DEF OutOfStock, Event
  <2>2. Append(p.messages, OutOfStock(line.sku)) \in Seq(Event)
    BY <2>1 DEF Aggregate
  <2>3. QED
    BY <1>2, <2>2 DEF Aggregate, Sound, Contains
<1>3. ASSUME NEW r \in Preferred(p, line), q = AllocatedTo(p, line, r)
      PROVE  q \in Aggregate /\ q.sku = p.sku /\ Sound(q)
  <2>1. r \in Refs /\ Contains(p, r)
    BY DEF Preferred, Candidates
  <2>2. p.batches[r] \in Batch /\ Available(p.batches[r]) >= 0
    BY <2>1 DEF Aggregate, Contains, Sound
  <2>3. /\ AllocateLine(p.batches[r], line) \in Batch
        /\ AllocateLine(p.batches[r], line).sku = p.batches[r].sku
        /\ Available(AllocateLine(p.batches[r], line)) >= 0
    BY <2>2, AllocateLineSound
  <2>4. Append(p.messages, Allocated(line, r)) \in Seq(Event)
    BY <2>1 DEF Aggregate, Allocated, Event
  <2>5. q.sku = p.sku /\ q.batches = [p.batches EXCEPT ![r] = AllocateLine(@, line)]
    BY <1>3 DEF AllocatedTo, Aggregate
  <2>6. q \in Aggregate
    <3>1. [p.batches EXCEPT ![r] = AllocateLine(@, line)] \in [Refs -> Batch \cup {NoBatch}]
      BY <2>3 DEF Aggregate
    <3>2. p.version + 1 \in Nat /\ p.modifiedRefs \cup {r} \in SUBSET Refs
      BY <2>1 DEF Aggregate
    <3>3. QED
      BY <1>3, <2>4, <3>1, <3>2 DEF AllocatedTo, Aggregate
  <2>7. Sound(q)
    BY <2>1, <2>3, <2>5 DEF Sound, Contains, Aggregate
  <2>8. QED
    BY <2>5, <2>6, <2>7
<1>4. QED
  BY <1>1, <1>2, <1>3 DEF AllocateOutcomes

\* So is whatever Product::ChangeBatchQuantity leaves, even if the new quantity is smaller
\* than what the batch holds.
LEMMA ChangeQuantityOutcomesSound ==
    ASSUME NEW p \in Aggregate, Sound(p), NEW ref \in Refs, Contains(p, ref),
           NEW qty \in Quantities, NEW q \in ChangeQuantityOutcomes(p, ref, qty)
    PROVE  q \in Aggregate /\ q.sku = p.sku /\ Sound(q)
<1> DEFINE b == [p.batches[ref] EXCEPT !.purchased = qty]
<1>1. b \in Batch /\ b.sku = p.batches[ref].sku
  BY DEF Aggregate, Batch, Contains
<1>2. PICK s \in DeallocationOrders(b) :
          q = [p EXCEPT !.batches[ref] = Without(b, s),
                        !.modifiedRefs = @ \cup {ref},
                        !.modified = TRUE,
                        !.messages = @ \o [i \in 1..Len(s) |-> Deallocated(s[i])]]
  BY DEF ChangeQuantityOutcomes
<1>3. /\ s \in Seq(OrderLines) /\ Without(b, s) \in Batch
      /\ Without(b, s).sku = b.sku /\ Available(Without(b, s)) >= 0
  BY <1>1, <1>2, DeallocationSound
<1> HIDE DEF b
<1>4. [i \in 1..Len(s) |-> Deallocated(s[i])] \in Seq(Event)
  <2>1. \A i \in 1..Len(s) : Deallocated(s[i]) \in Event
    BY <1>3 DEF Deallocated, Event
  <2>2. Len(s) \in Nat
    BY <1>3
  <2>3. QED
    BY <2>1, <2>2
<1>5. p.messages \o [i \in 1..Len(s) |-> Deallocated(s[i])] \in Seq(Event)
  BY <1>4 DEF Aggregate
<1>6. q.sku = p.sku /\ q.batches = [p.batches EXCEPT ![ref] = Without(b, s)]
  BY <1>2 DEF Aggregate
<1>7. q \in Aggregate
  BY <1>2, <1>3, <1>5 DEF Aggregate
<1>8. Sound(q)
  BY <1>1, <1>3, <1>6 DEF Sound, Contains, Aggregate
<1>9. QED
  BY <1>6, <1>7, <1>8

\* Clearing messages and flag touches no batch.
LEMMA CleanedSound ==
    ASSUME NEW p \in Aggregate, NEW flag \in BOOLEAN, Sound(p)
    PROVE  /\ SetModified(p, flag) \in Aggregate /\ Sound(SetModified(p, flag))
           /\ ClearMessages(p) \in Aggregate /\ Sound(ClearMessages(p))
           /\ SetModified(p, flag).messages = p.messages
<1>1. SetModified(p, flag) \in Aggregate /\ Sound(SetModified(p, flag))
  BY DEF SetModified, Aggregate, Sound, Contains
<1>2. <<>> \in Seq(Event)
  OBVIOUS
<1>3. ClearMessages(p) \in Aggregate /\ Sound(ClearMessages(p))
  BY <1>2 DEF ClearMessages, Aggregate, Sound, Contains
<1>4. QED
  BY <1>1, <1>3 DEF SetModified, Aggregate

\* The first m elements of a sequence.
LEMMA PrefixProperties ==
    ASSUME NEW S, NEW s \in Seq(S), NEW m \in Nat, m <= Len(s)
    PROVE  /\ SubSeq(s, 1, m) \in Seq(S)
           /\ Len(SubSeq(s, 1, m)) = m
           /\ \A i \in 1..m : SubSeq(s, 1, m)[i] = s[i]
<1>1. SubSeq(s, 1, m) \in Seq(S)
  OBVIOUS
<1>2. Len(SubSeq(s, 1, m)) = m
  OBVIOUS
<1>3. ASSUME NEW i \in 1..m
      PROVE  SubSeq(s, 1, m)[i] = s[i]
  OBVIOUS
<1>4. QED
  BY <1>1, <1>2, <1>3

\* The last line deallocated had to go: with it the batch would still be oversold.
LEMMA LastLineWasExcess ==
    ASSUME NEW b \in Batch, NEW s \in DeallocationOrders(b),
           ~(b.allocations \subseteq Without(b, s).allocations)
    PROVE  \E l \in b.allocations \ Without(b, s).allocations :
               Total[Without(b, s).allocations \cup {l}] > b.purchased
<1> DEFINE A == b.allocations
           kept == Without(b, s).allocations
           pre == SubSeq(s, 1, Len(s) - 1)
<1>1. PICK n \in 0..Cardinality(A) : s \in Injection(1..n, A)
  BY DEF DeallocationOrders
<1>2. s \in [1..n -> A] /\ \A i, j \in 1..n : s[i] = s[j] => i = j
  BY <1>1 DEF Injection, IsInjective
<1>3. A \subseteq OrderLines /\ kept = A \ {s[i] : i \in DOMAIN s}
  BY DEF Batch, Without
<1>4. n \in Nat /\ n >= 1
  BY <1>1, <1>2, <1>3
<1>5. s \in Seq(A) /\ Len(s) = n /\ DOMAIN s = 1..n
  BY <1>2, <1>4
<1>6. /\ pre \in Seq(A) /\ Len(pre) = n - 1
      /\ \A i \in 1..(n - 1) : pre[i] = s[i]
  <2>1. n - 1 \in Nat /\ n - 1 <= Len(s) /\ Len(s) - 1 = n - 1
    BY <1>4, <1>5
  <2>2. QED
    BY <1>5, <2>1, PrefixProperties
<1>7. Available(Without(b, pre)) < 0
  BY <1>4, <1>5 DEF DeallocationOrders
<1>8. /\ Without(b, pre).purchased = b.purchased
      /\ Without(b, pre).allocations = A \ {pre[i] : i \in DOMAIN pre}
      /\ Without(b, pre) \in Batch
  BY DEF Without, Batch
<1> HIDE DEF pre
<1>9. {pre[i] : i \in DOMAIN pre} = {s[i] : i \in 1..(n - 1)}
  BY <1>4, <1>6
<1>10. A \ {s[i] : i \in 1..(n - 1)} = kept \cup {s[n]}
  BY <1>2, <1>3, <1>4, <1>5
<1>11. s[n] \in A \ kept
  BY <1>2, <1>3, <1>4, <1>5
<1>12. Total[kept \cup {s[n]}] > b.purchased
  <2>1. Available(Without(b, pre)) = b.purchased - Total[kept \cup {s[n]}]
    BY <1>8, <1>9, <1>10 DEF Available
  <2>2. b.purchased \in Int
    BY AvailableIsInt
  <2>3. kept \cup {s[n]} \in SUBSET OrderLines
    BY <1>3, <1>11
  <2>4. Total[kept \cup {s[n]}] \in Int
    BY <2>3, TotalAssumption
  <2>5. QED
    BY <1>7, <2>1, <2>2, <2>4
<1>13. QED
  BY <1>11, <1>12

-----------------------------------------------------------------------------
(* What the member functions change, field by field *)

LEMMA AllocateEffects ==
    ASSUME NEW p \in Aggregate, NEW line \in OrderLines, NEW q \in AllocateOutcomes(p, line)
    PROVE  /\ q.sku = p.sku
           /\ \/ /\ q.batches = p.batches /\ q.version = p.version
                 /\ q.modified = p.modified /\ q.modifiedRefs = p.modifiedRefs
              \/ \E r \in Preferred(p, line) :
                    /\ r \in Refs /\ Contains(p, r) /\ CanAllocate(p.batches[r], line)
                    /\ q.batches = [p.batches EXCEPT ![r] = AllocateLine(p.batches[r], line)]
                    /\ q.version = p.version + 1
                    /\ q.modified /\ q.modifiedRefs = p.modifiedRefs \cup {r}
           /\ p.messages = <<>> => \A i \in DOMAIN q.messages : q.messages[i].type # "Deallocated"
<1>1. CASE q = p
  BY <1>1
<1>2. CASE q = [p EXCEPT !.messages = Append(@, OutOfStock(line.sku))]
  <2>1. /\ q.sku = p.sku /\ q.batches = p.batches /\ q.version = p.version
        /\ q.modified = p.modified /\ q.modifiedRefs = p.modifiedRefs
        /\ q.messages = Append(p.messages, OutOfStock(line.sku))
    BY <1>2 DEF Aggregate
  <2>2. OutOfStock(line.sku).type # "Deallocated"
    BY DEF OutOfStock
  <2>3. p.messages = <<>> => \A i \in DOMAIN q.messages : q.messages[i].type # "Deallocated"
    BY <2>1, <2>2
  <2>4. QED
    BY <2>1, <2>3
<1>3. ASSUME NEW r \in Preferred(p, line), q = AllocatedTo(p, line, r)
      PROVE  /\ q.sku = p.sku
             /\ r \in Refs /\ Contains(p, r) /\ CanAllocate(p.batches[r], line)
             /\ q.batches = [p.batches EXCEPT ![r] = AllocateLine(p.batches[r], line)]
             /\ q.version = p.version + 1
             /\ q.modified /\ q.modifiedRefs = p.modifiedRefs \cup {r}
             /\ p.messages = <<>> =>
                    \A i \in DOMAIN q.messages : q.messages[i].type # "Deallocated"
  <2>1. r \in Refs /\ Contains(p, r) /\ CanAllocate(p.batches[r], line)
    BY DEF Preferred, Candidates
  <2>2. /\ q.sku = p.sku
        /\ q.batches = [p.batches EXCEPT ![r] = AllocateLine(p.batches[r], line)]
        /\ q.version = p.version + 1
        /\ q.modified /\ q.modifiedRefs = p.modifiedRefs \cup {r}
        /\ q.messages = Append(p.messages, Allocated(line, r))
    BY <1>3, <2>1 DEF AllocatedTo, Aggregate
  <2>3. Allocated(line, r).type # "Deallocated"
    BY DEF Allocated
  <2>4. p.messages = <<>> => \A i \in DOMAIN q.messages : q.messages[i].type # "Deallocated"
    BY <2>2, <2>3
  <2>5. QED
    BY <2>1, <2>2, <2>4
<1>4. QED
  BY <1>1, <1>2, <1>3 DEF AllocateOutcomes

LEMMA WithBatchEffects ==
    ASSUME NEW p \in Aggregate, NEW ref \in Refs, NEW b \in Batch
    PROVE  LET q == WithBatch(p, ref, b)
           IN  /\ q.sku = p.sku /\ q.version = p.version /\ q.messages = p.messages
               /\ \/ q = p
                  \/ /\ ~Contains(p, ref)
                     /\ q.batches = [p.batches EXCEPT ![ref] = b]
                     /\ q.modified /\ q.modifiedRefs = p.modifiedRefs \cup {ref}
BY DEF WithBatch, Aggregate

\* q is p with the quantity of batch ref changed and the lines in excess taken out of it.
QuantityChanged(p, q, ref, qty) ==
    /\ q.sku = p.sku /\ q.version = p.version
    /\ q.modified /\ q.modifiedRefs = p.modifiedRefs \cup {ref}
    /\ \E kept \in SUBSET p.batches[ref].allocations :
          /\ q.batches = [p.batches EXCEPT ![ref] =
                 [p.batches[ref] EXCEPT !.purchased = qty, !.allocations = kept]]
          /\ Total[kept] <= qty
          /\ \/ kept = p.batches[ref].allocations
             \/ \E l \in p.batches[ref].allocations \ kept : Total[kept \cup {l}] > qty

LEMMA ChangeQuantityEffects ==
    ASSUME NEW p \in Aggregate, NEW ref \in Refs, Contains(p, ref), NEW qty \in Quantities,
           NEW q \in ChangeQuantityOutcomes(p, ref, qty)
    PROVE  QuantityChanged(p, q, ref, qty)
<1> DEFINE b == [p.batches[ref] EXCEPT !.purchased = qty]
           old == p.batches[ref]
<1>1. /\ old \in Batch /\ b \in Batch /\ b.purchased = qty
      /\ b.allocations = old.allocations
      /\ \A S : [b EXCEPT !.allocations = S] = [old EXCEPT !.purchased = qty, !.allocations = S]
  BY DEF Aggregate, Batch, Contains
<1>2. PICK s \in DeallocationOrders(b) :
          q = [p EXCEPT !.batches[ref] = Without(b, s),
                        !.modifiedRefs = @ \cup {ref},
                        !.modified = TRUE,
                        !.messages = @ \o [i \in 1..Len(s) |-> Deallocated(s[i])]]
  BY DEF ChangeQuantityOutcomes
<1> HIDE DEF b, old
<1> DEFINE kept == Without(b, s).allocations
<1>3. /\ q.sku = p.sku /\ q.version = p.version
      /\ q.modified /\ q.modifiedRefs = p.modifiedRefs \cup {ref}
      /\ q.batches = [p.batches EXCEPT ![ref] = Without(b, s)]
  BY <1>2 DEF Aggregate
<1>4. /\ Without(b, s) = [b EXCEPT !.allocations = kept]
      /\ kept \subseteq b.allocations
      /\ Without(b, s).purchased = qty
  BY <1>1 DEF Without, Batch
<1>5. Available(Without(b, s)) >= 0 /\ Without(b, s) \in Batch
  BY <1>1, <1>2, DeallocationSound
<1>6. Total[kept] <= qty
  BY <1>4, <1>5, AvailableIsInt DEF Available
<1>7. kept = b.allocations \/ \E l \in b.allocations \ kept : Total[kept \cup {l}] > qty
  <2>1. ASSUME ~(b.allocations \subseteq kept)
        PROVE  \E l \in b.allocations \ kept : Total[kept \cup {l}] > b.purchased
    BY <1>1, <1>2, <2>1, LastLineWasExcess
  <2>2. QED
    BY <1>1, <1>4, <2>1
<1> HIDE DEF kept
<1>8. QED
  BY <1>1, <1>3, <1>4, <1>6, <1>7 DEF old, QuantityChanged

-----------------------------------------------------------------------------
(* The events the member functions raise *)

\* q is p with the line in batch r and an event that says so.
LineAllocated(p, q, line, r) ==
    /\ Contains(p, r) /\ CanAllocate(p.batches[r], line)
    /\ q.batches = [p.batches EXCEPT ![r] = AllocateLine(p.batches[r], line)]
    /\ q.modified /\ q.modifiedRefs = p.modifiedRefs \cup {r}
    /\ q.messages = Append(p.messages, Allocated(line, r))

\* Product::Allocate raises one event, unless the product has no batch.
LEMMA AllocateAnnounces ==
    ASSUME NEW p \in Aggregate, NEW line \in OrderLines, NEW q \in AllocateOutcomes(p, line)
    PROVE  \/ q = p /\ \A r \in Refs : ~Contains(p, r)
           \/ /\ q.batches = p.batches /\ q.modified = p.modified
              /\ q.modifiedRefs = p.modifiedRefs
              /\ q.messages = Append(p.messages, OutOfStock(line.sku))
           \/ \E r \in Refs : LineAllocated(p, q, line, r)
<1>1. CASE q = p /\ \A r \in Refs : ~Contains(p, r)
  BY <1>1
<1>2. CASE q = [p EXCEPT !.messages = Append(@, OutOfStock(line.sku))]
  BY <1>2 DEF Aggregate
<1>3. ASSUME NEW r \in Preferred(p, line), q = AllocatedTo(p, line, r)
      PROVE  r \in Refs /\ LineAllocated(p, q, line, r)
  <2>1. r \in Refs /\ Contains(p, r) /\ CanAllocate(p.batches[r], line)
    BY DEF Preferred, Candidates
  <2>2. /\ q.batches = [p.batches EXCEPT ![r] = AllocateLine(p.batches[r], line)]
        /\ q.modified /\ q.modifiedRefs = p.modifiedRefs \cup {r}
        /\ q.messages = Append(p.messages, Allocated(line, r))
    BY <1>3, <2>1 DEF AllocatedTo, Aggregate
  <2>3. QED
    BY <2>1, <2>2 DEF LineAllocated
<1>4. QED
  BY <1>1, <1>2, <1>3 DEF AllocateOutcomes

\* q is p without the lines of s in batch ref, each of them announced once.
LinesDeallocated(p, q, ref, s) ==
    /\ \A i, j \in DOMAIN s : s[i] = s[j] => i = j
    /\ q.batches[ref].allocations = p.batches[ref].allocations \ {s[i] : i \in DOMAIN s}
    /\ q.messages = p.messages \o [i \in 1..Len(s) |-> Deallocated(s[i])]

\* Product::ChangeBatchQuantity raises an event for each line it takes out, and for no other.
LEMMA ChangeQuantityAnnounces ==
    ASSUME NEW p \in Aggregate, NEW ref \in Refs, Contains(p, ref), NEW qty \in Quantities,
           NEW q \in ChangeQuantityOutcomes(p, ref, qty)
    PROVE  \E s \in Seq(p.batches[ref].allocations) : LinesDeallocated(p, q, ref, s)
<1> DEFINE b == [p.batches[ref] EXCEPT !.purchased = qty]
           old == p.batches[ref]
<1>1. /\ old \in Batch /\ b \in Batch /\ b.allocations = old.allocations
      /\ p.batches \in [Refs -> Batch \cup {NoBatch}]
  BY DEF Aggregate, Batch, Contains
<1>2. PICK s \in DeallocationOrders(b) :
          q = [p EXCEPT !.batches[ref] = Without(b, s),
                        !.modifiedRefs = @ \cup {ref},
                        !.modified = TRUE,
                        !.messages = @ \o [i \in 1..Len(s) |-> Deallocated(s[i])]]
  BY DEF ChangeQuantityOutcomes
<1> HIDE DEF b, old
<1>3. /\ q.batches = [p.batches EXCEPT ![ref] = Without(b, s)]
      /\ q.messages = p.messages \o [i \in 1..Len(s) |-> Deallocated(s[i])]
  BY <1>2 DEF Aggregate
<1>4. q.batches[ref] = Without(b, s)
  BY <1>1, <1>3
<1>5. Without(b, s).allocations = old.allocations \ {s[i] : i \in DOMAIN s}
  BY <1>1 DEF Without, Batch
<1>6. PICK n \in 0..Cardinality(b.allocations) : s \in Injection(1..n, b.allocations)
  BY <1>2 DEF DeallocationOrders
<1>7. n \in Nat /\ s \in [1..n -> old.allocations]
  BY <1>1, <1>6 DEF Injection
<1>8. \A i, j \in DOMAIN s : s[i] = s[j] => i = j
  BY <1>6 DEF Injection, IsInjective
<1>9. s \in Seq(old.allocations)
  BY <1>7
<1>10. LinesDeallocated(p, q, ref, s)
  BY <1>3, <1>4, <1>5, <1>8 DEF LinesDeallocated, old
<1>11. QED
  BY <1>9, <1>10 DEF old
=============================================================================
