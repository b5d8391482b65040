------------------------ MODULE AllocationHistoryProofs ------------------------
(***************************************************************************)
(* What clients are told and the read model shows is true of the stock,    *)
(* and comes to show all of it, for any number of threads and commands.    *)
(***************************************************************************)
EXTENDS AllocationLedgerProofs

-----------------------------------------------------------------------------
(* The step of a thread, seen from the others *)

\* A step of thread w leaves what the other threads hold alone.
LEMMA OthersRest ==
    ASSUME StockInvariant, NEW w \in Workers,
           Step(w) \/ \E c \in Commands : Receive(w, c)
    PROVE  \A v \in Workers \ {w} : Rests(v)
<1> USE DEF Rests, StockInvariant, TypeOK
<1>1. CASE \E c \in Commands : Receive(w, c)
  BY <1>1 DEF Receive, uowVars
<1>2. CASE \E status : Answered(w, status)
  BY <1>2 DEF Answered, CloseUnitOfWork
<1>3. CASE \E p : Track(w, p)
  BY <1>3 DEF Track
<1>4. CASE Execute(w)
  BY <1>4 DEF Execute, Commit
<1>5. CASE \E p, last : VersionIsOutdated(w, p, last) \/ StatementFails(w, p, last)
  BY <1>5 DEF VersionIsOutdated, StatementFails, Caught
<1>6. CASE \E p, q, last : Commit(w, q) /\ Handled(w, p, last)
  BY <1>6 DEF Handled, Commit
<1>7. CASE \E p, last : Handled(w, p, last) /\ UNCHANGED <<oldVersion, snapshot>>
  BY <1>7 DEF Handled
<1>8. CASE Reallocate(w)
  BY <1>8 DEF Reallocate
<1>9. CASE HandleEvent(w)
  BY <1>5, <1>6, <1>7, <1>8, <1>9
     DEF HandleEvent, PublishAllocatedEvent, AddAllocationToReadModel,
         RemoveAllocationFromReadModel, CommitReallocation, SendOutOfStockNotification,
         CommitFails
<1>10. CASE HandleCommand(w)
  BY <1>2, <1>3, <1>4, <1>10
     DEF HandleCommand, LoadForAddBatch, LoadForAllocate, LoadForChangeBatchQuantity,
         LoadFails, RejectUnknownSku, RejectUnknownReference, ExecuteFails
<1>11. CASE Finish(w)
  BY <1>2, <1>11 DEF Finish
<1>12. QED
  BY <1>1, <1>9, <1>10, <1>11 DEF Step

\* What is in the bus's queue once a handler of its first event has ended and m was appended.
LEMMA QueueMembers ==
    ASSUME NEW q \in Seq(Event), q # <<>>, NEW last \in BOOLEAN, NEW m \in Seq(Event)
    PROVE  /\ Rest(q, last) \o m \in Seq(Event)
           /\ \A i \in DOMAIN (Rest(q, last) \o m) :
                 \/ \E j \in DOMAIN q : (Rest(q, last) \o m)[i] = q[j]
                 \/ \E j \in DOMAIN m : (Rest(q, last) \o m)[i] = m[j]
           /\ \A j \in DOMAIN q : (last => j > 1) =>
                 \E i \in DOMAIN (Rest(q, last) \o m) : (Rest(q, last) \o m)[i] = q[j]
<1> DEFINE t == Rest(q, last)
<1>1. t \in Seq(Event) /\ Len(t) = (IF last THEN Len(q) - 1 ELSE Len(q))
  BY DEF Rest
<1>2. \A i \in 1..Len(t) : t[i] = (IF last THEN q[i + 1] ELSE q[i])
  BY <1>1 DEF Rest
<1> HIDE DEF t
<1>3. \A i \in 1..Len(t) : \E j \in DOMAIN q : t[i] = q[j]
  BY <1>1, <1>2
<1>4. \A j \in DOMAIN q : (last => j > 1) => \E i \in 1..Len(t) : t[i] = q[j]
  <2> SUFFICES ASSUME NEW j \in DOMAIN q, last => j > 1
               PROVE  \E i \in 1..Len(t) : t[i] = q[j]
    OBVIOUS
  <2>1. CASE last
    <3>1. j \in 1..Len(q) /\ j > 1 /\ j - 1 \in 1..Len(t)
      BY <1>1, <2>1
    <3>2. t[j - 1] = q[(j - 1) + 1]
      BY <1>2, <2>1, <3>1
    <3>3. QED
      BY <3>1, <3>2
  <2>2. CASE ~last
    BY <1>1, <1>2, <2>2
  <2>3. QED
    BY <2>1, <2>2
<1>5. /\ t \o m \in Seq(Event) /\ Len(t \o m) = Len(t) + Len(m)
      /\ \A i \in 1..Len(t) : (t \o m)[i] = t[i]
      /\ \A i \in (Len(t) + 1)..(Len(t) + Len(m)) : (t \o m)[i] = m[i - Len(t)]
  BY <1>1
<1>6. ASSUME NEW i \in DOMAIN (t \o m)
      PROVE  \/ \E j \in DOMAIN q : (t \o m)[i] = q[j]
             \/ \E j \in DOMAIN m : (t \o m)[i] = m[j]
  <2>1. i \in 1..(Len(t) + Len(m)) /\ Len(t) \in Nat /\ Len(m) \in Nat
    BY <1>1, <1>5
  <2>2. CASE i \in 1..Len(t)
    BY <1>3, <1>5, <2>2
  <2>3. CASE i \notin 1..Len(t)
    BY <1>5, <2>1, <2>3
  <2>4. QED
    BY <2>2, <2>3
<1>7. ASSUME NEW j \in DOMAIN q, last => j > 1
      PROVE  \E i \in DOMAIN (t \o m) : (t \o m)[i] = q[j]
  <2>1. PICK i \in 1..Len(t) : t[i] = q[j]
    BY <1>4, <1>7
  <2>2. i \in DOMAIN (t \o m)
    BY <1>1, <1>5
  <2>3. QED
    BY <1>5, <2>1, <2>2
<1>8. QED
  BY <1>5, <1>6, <1>7 DEF t

-----------------------------------------------------------------------------
(* The lines an object has, and the events it gathers *)

\* Allocate puts one line in one batch, marks it and announces it, or leaves the batches alone.
LEMMA AllocateLines ==
    ASSUME NEW p \in Aggregate, Sound(p), \A r \in p.modifiedRefs : Contains(p, r),
           NEW line \in OrderLines, NEW q \in AllocateOutcomes(p, line)
    PROVE  /\ \A r \in q.modifiedRefs : Contains(q, r)
           /\ \A r \in Refs : \A l \in OrderLines : HasLine(q, r, l) =>
                 \/ HasLine(p, r, l)
                 \/ /\ l = line /\ q.modified /\ r \in q.modifiedRefs
                    /\ q.messages = Append(p.messages, Allocated(line, r))
           /\ \A i \in DOMAIN q.messages :
                 \/ i \in DOMAIN p.messages /\ q.messages[i] = p.messages[i]
                 \/ q.messages[i] = OutOfStock(line.sku)
                 \/ \E r \in Refs : /\ q.messages[i] = Allocated(line, r)
                                    /\ q.modified /\ r \in q.modifiedRefs /\ HasLine(q, r, line)
<1>1. q \in Aggregate /\ p.messages \in Seq(Event) /\ p.modifiedRefs \subseteq Refs
  BY AllocateOutcomesSound DEF Aggregate
<1>2. CASE q = p
  BY <1>1, <1>2
<1>3. CASE /\ q.batches = p.batches /\ q.modified = p.modified
           /\ q.modifiedRefs = p.modifiedRefs
           /\ q.messages = Append(p.messages, OutOfStock(line.sku))
  <2>1. \A i \in DOMAIN q.messages :
            \/ i \in DOMAIN p.messages /\ q.messages[i] = p.messages[i]
            \/ q.messages[i] = OutOfStock(line.sku)
    BY <1>1, <1>3
  <2>2. \A r \in Refs : \A l \in OrderLines : HasLine(q, r, l) => HasLine(p, r, l)
    BY <1>3 DEF HasLine, Contains
  <2>3. \A r \in q.modifiedRefs : Contains(q, r)
    BY <1>3 DEF Contains
  <2>4. QED
    BY <2>1, <2>2, <2>3
<1>4. ASSUME NEW r \in Refs, LineAllocated(p, q, line, r)
      PROVE  /\ \A x \in q.modifiedRefs : Contains(q, x)
             /\ \A x \in Refs : \A l \in OrderLines : HasLine(q, x, l) =>
                   \/ HasLine(p, x, l)
                   \/ /\ l = line /\ q.modified /\ x \in q.modifiedRefs
                      /\ q.messages = Append(p.messages, Allocated(line, x))
             /\ \A i \in DOMAIN q.messages :
                   \/ i \in DOMAIN p.messages /\ q.messages[i] = p.messages[i]
                   \/ q.messages[i] = Allocated(line, r)
             /\ q.modified /\ r \in q.modifiedRefs /\ HasLine(q, r, line)
  <2>1. /\ Contains(p, r) /\ CanAllocate(p.batches[r], line)
        /\ q.batches = [p.batches EXCEPT ![r] = AllocateLine(p.batches[r], line)]
        /\ q.modified /\ q.modifiedRefs = p.modifiedRefs \cup {r}
        /\ q.messages = Append(p.messages, Allocated(line, r))
    BY <1>4 DEF LineAllocated
  <2>2. p.batches \in [Refs -> Batch \cup {NoBatch}] /\ p.batches[r] \in Batch
    BY <2>1 DEF Aggregate, Contains
  <2>3. /\ q.batches[r] = AllocateLine(p.batches[r], line)
        /\ \A x \in Refs \ {r} : q.batches[x] = p.batches[x]
    BY <2>1, <2>2
  <2>4. /\ q.batches[r].allocations = p.batches[r].allocations \cup {line}
        /\ q.batches[r] # NoBatch
    BY <2>1, <2>2, <2>3, NullAssumption DEF AllocateLine, Batch
  <2>5. \A x \in q.modifiedRefs : Contains(q, x)
    BY <1>1, <2>1, <2>3, <2>4 DEF Contains
  <2>6. ASSUME NEW x \in Refs, NEW l \in OrderLines, HasLine(q, x, l), ~HasLine(p, x, l)
        PROVE  l = line /\ x = r
    BY <2>1, <2>3, <2>4, <2>6 DEF HasLine, Contains
  <2>7. HasLine(q, r, line)
    BY <2>4 DEF HasLine, Contains
  <2>8. \A i \in DOMAIN q.messages :
            \/ i \in DOMAIN p.messages /\ q.messages[i] = p.messages[i]
            \/ q.messages[i] = Allocated(line, r)
    BY <1>1, <2>1
  <2>9. QED
    BY <2>1, <2>5, <2>6, <2>7, <2>8
<1>5. CASE \E r \in Refs : LineAllocated(p, q, line, r)
  <2>1. PICK r \in Refs : LineAllocated(p, q, line, r)
    BY <1>5
  <2>2. /\ \A x \in q.modifiedRefs : Contains(q, x)
        /\ \A x \in Refs : \A l \in OrderLines : HasLine(q, x, l) =>
              \/ HasLine(p, x, l)
              \/ /\ l = line /\ q.modified /\ x \in q.modifiedRefs
                 /\ q.messages = Append(p.messages, Allocated(line, x))
        /\ \A i \in DOMAIN q.messages :
              \/ i \in DOMAIN p.messages /\ q.messages[i] = p.messages[i]
              \/ q.messages[i] = Allocated(line, r)
        /\ q.modified /\ r \in q.modifiedRefs /\ HasLine(q, r, line)
    BY <1>4, <2>1
  <2>3. QED
    BY <2>2
<1>6. QED
  BY <1>2, <1>3, <1>5, AllocateAnnounces

\* ChangeBatchQuantity adds no line, and announces lines the object had.
LEMMA ChangeQuantityLines ==
    ASSUME NEW p \in Aggregate, Sound(p), p.modifiedRefs = {}, p.messages = <<>>,
           NEW ref \in Refs, Contains(p, ref), NEW qty \in Quantities,
           NEW q \in ChangeQuantityOutcomes(p, ref, qty)
    PROVE  /\ \A r \in q.modifiedRefs : Contains(q, r)
           /\ \A r \in Refs : \A l \in OrderLines : HasLine(q, r, l) => HasLine(p, r, l)
           /\ \A i \in DOMAIN q.messages : \E l \in OrderLines :
                 q.messages[i] = Deallocated(l) /\ HasLine(p, ref, l)
<1>0. QuantityChanged(p, q, ref, qty)
  BY ChangeQuantityEffects
<1>1. PICK kept \in SUBSET p.batches[ref].allocations :
          /\ q.batches = [p.batches EXCEPT ![ref] =
                 [p.batches[ref] EXCEPT !.purchased = qty, !.allocations = kept]]
          /\ q.modifiedRefs = {ref}
  BY <1>0 DEF QuantityChanged
<1>2. p.batches \in [Refs -> Batch \cup {NoBatch}] /\ p.batches[ref] \in Batch
  BY DEF Aggregate, Contains
<1>3. q \in Aggregate
  BY ChangeQuantityOutcomesSound
<1>4. /\ q.batches[ref] = [p.batches[ref] EXCEPT !.purchased = qty, !.allocations = kept]
      /\ \A r \in Refs \ {ref} : q.batches[r] = p.batches[r]
  BY <1>1, <1>2
<1>5. /\ q.batches[ref].allocations = kept
      /\ q.batches[ref] \in Batch
  BY <1>2, <1>4 DEF Batch
<1>6. \A r \in q.modifiedRefs : Contains(q, r)
  BY <1>1, <1>5, NullAssumption DEF Contains
<1>7. \A r \in Refs : \A l \in OrderLines : HasLine(q, r, l) => HasLine(p, r, l)
  BY <1>4, <1>5 DEF HasLine, Contains
<1>8. PICK s \in Seq(p.batches[ref].allocations) : LinesDeallocated(p, q, ref, s)
  BY ChangeQuantityAnnounces
<1>9. q.messages = <<>> \o [i \in 1..Len(s) |-> Deallocated(s[i])]
  BY <1>8 DEF LinesDeallocated
<1>10. ASSUME NEW i \in DOMAIN q.messages
       PROVE  \E l \in OrderLines : q.messages[i] = Deallocated(l) /\ HasLine(p, ref, l)
  <2> DEFINE m == [j \in 1..Len(s) |-> Deallocated(s[j])]
  <2>1. Len(s) \in Nat /\ m \in Seq({Deallocated(l) : l \in p.batches[ref].allocations})
    OBVIOUS
  <2>2. q.messages = m
    BY <1>9, <2>1
  <2>3. i \in 1..Len(s) /\ q.messages[i] = Deallocated(s[i]) /\ s[i] \in p.batches[ref].allocations
    BY <2>1, <2>2
  <2>4. s[i] \in OrderLines
    BY <1>2, <2>3 DEF Batch
  <2>5. QED
    BY <2>3, <2>4 DEF HasLine
<1>11. QED
  BY <1>6, <1>7, <1>10

\* AddBatch adds no line.
LEMMA WithBatchLines ==
    ASSUME NEW p \in Aggregate, p.modifiedRefs = {}, NEW ref \in Refs, NEW b \in Batch,
           b.allocations = {}, NEW q, q = WithBatch(p, ref, b)
    PROVE  /\ \A r \in q.modifiedRefs : Contains(q, r)
           /\ \A r \in Refs : \A l \in OrderLines : HasLine(q, r, l) => HasLine(p, r, l)
           /\ q.messages = p.messages
<1>1. CASE q = p
  BY <1>1
<1>2. CASE /\ q.batches = [p.batches EXCEPT ![ref] = b] /\ q.modifiedRefs = {ref}
  <2>1. p.batches \in [Refs -> Batch \cup {NoBatch}]
    BY DEF Aggregate
  <2>2. q.batches[ref] = b /\ \A r \in Refs \ {ref} : q.batches[r] = p.batches[r]
    BY <1>2, <2>1
  <2>3. q.messages = p.messages
    BY WithBatchEffects
  <2>4. QED
    BY <1>2, <2>2, <2>3, NullAssumption DEF HasLine, Contains
<1>3. QED
  BY <1>1, <1>2, WithBatchEffects

\* What a commit adds to the stock and to the history are lines its object has.
LEMMA CommitHistory ==
    ASSUME StockInvariant, NEW w \in Workers, NEW p \in Aggregate,
           \A r \in p.modifiedRefs : Contains(p, r), Commit(w, p)
    PROVE  /\ placed \subseteq placed'
           /\ ~p.modified => UNCHANGED <<products, batches, placed>>
           /\ \A r \in Refs : \A l \in OrderLines : Holds(r, l)' =>
                 Holds(r, l) \/ (p.modified /\ r \in p.modifiedRefs /\ HasLine(p, r, l))
           /\ \A r \in Refs : \A l \in OrderLines :
                 <<l, r>> \in placed' => <<l, r>> \in placed \/ HasLine(p, r, l)
           /\ p.modified => \A r \in p.modifiedRefs : \A l \in OrderLines :
                 HasLine(p, r, l) => <<l, r>> \in placed'
<1>1. CASE ~p.modified
  BY <1>1 DEF Commit, WriteBack, Holds
<1>2. CASE p.modified
  <2>1. /\ \A r \in Refs : batches'[r] = IF r \in p.modifiedRefs THEN p.batches[r] ELSE batches[r]
        /\ p.modifiedRefs \subseteq Refs
    BY <1>2, CommitEffects
  <2>2. placed' = placed \cup
            {x \in Pair : x[2] \in p.modifiedRefs /\ x[1] \in p.batches[x[2]].allocations}
    BY <1>2 DEF Commit, WriteBack
  <2>3. \A r \in Refs : \A l \in OrderLines :
            <<l, r>> \in placed' <=>
                <<l, r>> \in placed \/ (r \in p.modifiedRefs /\ l \in p.batches[r].allocations)
    BY <2>2 DEF Pair
  <2>4. placed \subseteq placed'
    BY <2>2
  <2>5. \A r \in Refs : \A l \in OrderLines : Holds(r, l)' =>
            Holds(r, l) \/ (r \in p.modifiedRefs /\ HasLine(p, r, l))
    BY <2>1 DEF Holds, HasLine, Contains
  <2>6. QED
    BY <1>2, <2>1, <2>3, <2>4, <2>5 DEF HasLine, Contains
<1>3. QED
  BY <1>1, <1>2

\* What a command makes of its object.
LEMMA OutcomesHistory ==
    ASSUME StockInvariant, PlacementInvariant, NEW w \in Workers, pc[w] = "execute",
           NEW p \in Outcomes(w)
    PROVE  /\ p \in Aggregate
           /\ \A r \in p.modifiedRefs : Contains(p, r)
           /\ \A r \in Refs : \A l \in OrderLines : HasLine(p, r, l) =>
                 \/ HasLine(tracked[w], r, l)
                 \/ /\ command[w].type = "Allocate" /\ l = command[w].line
                    /\ p.modified /\ r \in p.modifiedRefs
                    /\ p.messages = <<Allocated(l, r)>>
           /\ command[w].type = "CreateBatch" => p.messages = <<>>
           /\ command[w].type = "Allocate" => \A i \in DOMAIN p.messages :
                 \/ p.messages[i] = OutOfStock(command[w].line.sku)
                 \/ \E r \in Refs : /\ p.messages[i] = Allocated(command[w].line, r)
                                    /\ p.modified /\ r \in p.modifiedRefs
                                    /\ HasLine(p, r, command[w].line)
           /\ command[w].type = "ChangeBatchQuantity" => \A i \in DOMAIN p.messages :
                 \E l \in OrderLines : p.messages[i] = Deallocated(l) /\ WasPlaced(l)
<1> DEFINE t == tracked[w]
           c == command[w]
<1>1. /\ t \in Aggregate /\ Sound(t) /\ c \in Commands
      /\ c.type = "CreateBatch" => t.sku = c.sku
      /\ c.type = "ChangeBatchQuantity" => Contains(t, c.ref)
  BY DEF StockInvariant, TypeOK, TrackedIsSound, WorksOnItsProduct
<1>2. /\ t.modifiedRefs = {} /\ t.messages = <<>> /\ t # NoProduct
      /\ \A r \in Refs : \A l \in OrderLines : HasLine(t, r, l) => WasPlaced(l)
  BY <1>1, NullAssumption DEF PlacementInvariant, KnowsPlacedLines
<1>3. p \in Aggregate
  BY OutcomesSound
<1> HIDE DEF t
<1>4. CASE c.type = "CreateBatch"
  <2> DEFINE b == NewBatch(c.sku, c.qty, c.eta)
  <2>1. c.ref \in Refs /\ c.sku \in Skus /\ c.qty \in Quantities /\ c.eta \in Etas
    BY <1>1, <1>4, CommandFields
  <2>2. b \in Batch /\ b.allocations = {}
    BY <2>1 DEF NewBatch, Batch
  <2>3. p = WithBatch(t, c.ref, b)
    BY <1>4 DEF Outcomes, t
  <2> HIDE DEF b
  <2>4. /\ \A r \in p.modifiedRefs : Contains(p, r)
        /\ \A r \in Refs : \A l \in OrderLines : HasLine(p, r, l) => HasLine(t, r, l)
        /\ p.messages = t.messages
    BY <1>1, <1>2, <2>1, <2>2, <2>3, WithBatchLines
  <2>5. QED
    BY <1>2, <1>3, <1>4, <2>4 DEF t
<1>5. CASE c.type = "Allocate"
  <2>1. c.line \in OrderLines /\ p \in AllocateOutcomes(t, c.line)
    BY <1>1, <1>5, CommandFields DEF Outcomes, t
  <2>2. /\ \A r \in p.modifiedRefs : Contains(p, r)
        /\ \A r \in Refs : \A l \in OrderLines : HasLine(p, r, l) =>
              \/ HasLine(t, r, l)
              \/ /\ l = c.line /\ p.modified /\ r \in p.modifiedRefs
                 /\ p.messages = Append(t.messages, Allocated(c.line, r))
        /\ \A i \in DOMAIN p.messages :
              \/ i \in DOMAIN t.messages /\ p.messages[i] = t.messages[i]
              \/ p.messages[i] = OutOfStock(c.line.sku)
              \/ \E r \in Refs : /\ p.messages[i] = Allocated(c.line, r)
                                 /\ p.modified /\ r \in p.modifiedRefs /\ HasLine(p, r, c.line)
    BY <1>1, <1>2, <2>1, AllocateLines
  <2>3. DOMAIN t.messages = {} /\ \A e : Append(t.messages, e) = <<e>>
    BY <1>2
  <2>4. QED
    BY <1>3, <1>5, <2>2, <2>3 DEF t
<1>6. CASE c.type = "ChangeBatchQuantity"
  <2>1. c.ref \in Refs /\ c.qty \in Quantities /\ p \in ChangeQuantityOutcomes(t, c.ref, c.qty)
    BY <1>1, <1>6, CommandFields DEF Outcomes, t
  <2>2. /\ \A r \in p.modifiedRefs : Contains(p, r)
        /\ \A r \in Refs : \A l \in OrderLines : HasLine(p, r, l) => HasLine(t, r, l)
        /\ \A i \in DOMAIN p.messages : \E l \in OrderLines :
              p.messages[i] = Deallocated(l) /\ HasLine(t, c.ref, l)
    BY <1>1, <1>2, <1>6, <2>1, ChangeQuantityLines
  <2>3. QED
    BY <1>2, <1>3, <1>6, <2>1, <2>2 DEF t
<1>7. QED
  BY <1>1, <1>4, <1>5, <1>6, CommandFields

-----------------------------------------------------------------------------
(* A line is placed by the commit of its command before anything else knows of it *)

HeldWasPlaced == \A r \in Refs : \A l \in OrderLines : Holds(r, l) => <<l, r>> \in placed

\* The part of PlacementInvariant that is about thread w.
KnowsTheHistory(w) ==
    /\ KnowsPlacedLines(w)
    /\ w \in HttpWorkers => AnnouncesPlacedLines(w)
    /\ w = Listener /\ pc[w] # "idle" => command[w].type = "ChangeBatchQuantity"

LEMMA PlacementIsByThread ==
    PlacementInvariant <=> HeldWasPlaced /\ \A w \in Workers : KnowsTheHistory(w)
BY DEF PlacementInvariant, KnowsTheHistory, HeldWasPlaced, Workers

\* The history only grows, so the other threads still know it.
LEMMA HistoryStaysKnown ==
    ASSUME NEW v \in Workers, KnowsTheHistory(v), Rests(v), placed \subseteq placed'
    PROVE  KnowsTheHistory(v)'
<1>1. \A l : WasPlaced(l) => WasPlaced(l)'
  BY DEF WasPlaced
<1>2. KnowsPlacedLines(v)'
  BY <1>1 DEF KnowsTheHistory, KnowsPlacedLines, HasLine, Contains, Rests
<1>3. v \in HttpWorkers => AnnouncesPlacedLines(v)'
  BY DEF KnowsTheHistory, AnnouncesPlacedLines, ReallocatesNothing, Rests
<1>4. QED
  BY <1>2, <1>3 DEF KnowsTheHistory, Rests

LEMMA AnsweredPlacement ==
    ASSUME StockInvariant, HeldWasPlaced, NEW w \in Workers, NEW status, Answered(w, status)
    PROVE  HeldWasPlaced' /\ KnowsTheHistory(w)' /\ placed \subseteq placed'
<1>1. /\ pc'[w] = "idle" /\ queue'[w] = <<>> /\ tracked'[w] = NoProduct
      /\ UNCHANGED <<batches, placed>>
  BY DEF Answered, CloseUnitOfWork, dbVars, StockInvariant, TypeOK
<1>2. HeldWasPlaced'
  BY <1>1 DEF HeldWasPlaced, Holds
<1>3. KnowsTheHistory(w)'
  BY <1>1 DEF KnowsTheHistory, KnowsPlacedLines, AnnouncesPlacedLines, ReallocatesNothing
<1>4. QED
  BY <1>1, <1>2, <1>3

LEMMA ReceivePlacement ==
    ASSUME StockInvariant, HeldWasPlaced, NEW w \in Workers, KnowsTheHistory(w),
           NEW c \in Commands, Receive(w, c),
           w \in HttpWorkers => c.type # "ChangeBatchQuantity",
           w = Listener => c.type = "ChangeBatchQuantity"
    PROVE  HeldWasPlaced' /\ KnowsTheHistory(w)' /\ placed \subseteq placed'
<1>1. /\ pc'[w] = "load" /\ command'[w] = c
      /\ UNCHANGED <<batches, placed, queue, tracked>>
  BY DEF Receive, dbVars, uowVars, StockInvariant, TypeOK
<1>2. HeldWasPlaced'
  BY <1>1 DEF HeldWasPlaced, Holds
<1>3. KnowsPlacedLines(w)'
  BY <1>1 DEF KnowsTheHistory, KnowsPlacedLines, HasLine, Contains, WasPlaced
<1>4. w \in HttpWorkers => AnnouncesPlacedLines(w)'
  BY <1>1 DEF KnowsTheHistory, AnnouncesPlacedLines, ReallocatesNothing
<1>5. QED
  BY <1>1, <1>2, <1>3, <1>4 DEF KnowsTheHistory

\* Whatever command it is, the object it starts with is clean and holds what is stored.
LEMMA LoadFacts ==
    ASSUME StockInvariant, NEW w \in Workers,
           LoadForAddBatch(w) \/ LoadForAllocate(w) \/ LoadForChangeBatchQuantity(w)
    PROVE  /\ pc[w] = "load"
           /\ \E p \in Aggregate :
                 /\ Track(w, p) /\ IsCurrent(p)
                 /\ ~p.modified /\ p.modifiedRefs = {} /\ p.messages = <<>>
                 /\ command[w].type = "Allocate" => products[p.sku] # NoVersion
<1>1. pc[w] = "load" /\ command[w] \in Commands
  BY DEF LoadForAddBatch, LoadForAllocate, LoadForChangeBatchQuantity, StockInvariant, TypeOK
<1>2. ASSUME NEW sku \in Skus, products[sku] # NoVersion, Track(w, Find(sku))
      PROVE  \E p \in Aggregate :
                 /\ Track(w, p) /\ IsCurrent(p)
                 /\ ~p.modified /\ p.modifiedRefs = {} /\ p.messages = <<>>
                 /\ command[w].type = "Allocate" => products[p.sku] # NoVersion
  <2>1. /\ Find(sku) \in Aggregate /\ Find(sku).sku = sku /\ ~Find(sku).modified
        /\ Find(sku).modifiedRefs = {} /\ Find(sku).messages = <<>> /\ IsCurrent(Find(sku))
    BY <1>2, FindSound, FindIsCurrent
  <2>2. QED
    BY <1>2, <2>1
<1>3. CASE LoadForAddBatch(w)
  <2> DEFINE sku == command[w].sku
             new == SetModified(NewAggregate(sku), FALSE)
  <2>1. command[w].type = "CreateBatch" /\ sku \in Skus
    BY <1>1, <1>3, CommandFields DEF LoadForAddBatch
  <2>2. CASE products[sku] = NoVersion
    <3>1. new \in Aggregate
      BY <2>1, NewAggregateSound
    <3>2. /\ new.sku = sku /\ ~new.modified /\ new.modifiedRefs = {} /\ new.messages = <<>>
          /\ new.batches = [r \in Refs |-> NoBatch]
      BY DEF SetModified, NewAggregate
    <3>3. Track(w, new)
      BY <1>3, <2>2 DEF LoadForAddBatch
    <3> HIDE DEF new
    <3>4. \A r \in Refs : batches[r] = NoBatch \/ batches[r].sku # sku
      BY <2>2 DEF StockInvariant, BatchesHaveProducts
    <3>5. IsCurrent(new)
      BY <3>2, <3>4 DEF IsCurrent
    <3>6. QED
      BY <1>1, <2>1, <3>1, <3>2, <3>3, <3>5
  <2>3. CASE products[sku] # NoVersion
    BY <1>1, <1>2, <1>3, <2>1, <2>3 DEF LoadForAddBatch
  <2>4. QED
    BY <2>2, <2>3
<1>4. CASE LoadForAllocate(w)
  BY <1>1, <1>2, <1>4, CommandFields DEF LoadForAllocate
<1>5. CASE LoadForChangeBatchQuantity(w)
  <2>1. command[w].ref \in Refs /\ batches[command[w].ref] # NoBatch
    BY <1>1, <1>5, CommandFields DEF LoadForChangeBatchQuantity
  <2>2. batches[command[w].ref].sku \in Skus /\ products[batches[command[w].ref].sku] # NoVersion
    BY <2>1 DEF StockInvariant, TypeOK, BatchesHaveProducts, Batch
  <2>3. QED
    BY <1>1, <1>2, <1>5, <2>2 DEF LoadForChangeBatchQuantity
<1>6. QED
  BY <1>1, <1>3, <1>4, <1>5

LEMMA LoadPlacement ==
    ASSUME StockInvariant, HeldWasPlaced, NEW w \in Workers, KnowsTheHistory(w),
           LoadForAddBatch(w) \/ LoadForAllocate(w) \/ LoadForChangeBatchQuantity(w)
    PROVE  HeldWasPlaced' /\ KnowsTheHistory(w)' /\ placed \subseteq placed'
<1>1. PICK p \in Aggregate :
          /\ Track(w, p) /\ IsCurrent(p)
          /\ ~p.modified /\ p.modifiedRefs = {} /\ p.messages = <<>>
  BY LoadFacts
<1>2. /\ pc[w] = "load" /\ pc'[w] = "execute" /\ tracked'[w] = p
      /\ UNCHANGED <<batches, placed, queue, command>>
  BY <1>1, LoadFacts DEF Track, dbVars, StockInvariant, TypeOK
<1>3. HeldWasPlaced'
  BY <1>2 DEF HeldWasPlaced, Holds
<1>4. \A r \in Refs : \A l \in OrderLines : HasLine(p, r, l) => WasPlaced(l)
  BY <1>1 DEF HasLine, Contains, IsCurrent, HeldWasPlaced, Holds, WasPlaced
<1>5. KnowsPlacedLines(w)'
  BY <1>1, <1>2, <1>4 DEF KnowsTheHistory, KnowsPlacedLines, HasLine, Contains, WasPlaced
<1>6. w \in HttpWorkers => AnnouncesPlacedLines(w)'
  BY <1>2 DEF KnowsTheHistory, AnnouncesPlacedLines, ReallocatesNothing
<1>7. QED
  BY <1>2, <1>3, <1>5, <1>6 DEF KnowsTheHistory

LEMMA ExecutePlacement ==
    ASSUME StockInvariant, PlacementInvariant, NEW w \in Workers, Execute(w)
    PROVE  HeldWasPlaced' /\ KnowsTheHistory(w)' /\ placed \subseteq placed'
<1> DEFINE t == tracked[w]
           c == command[w]
<1>1. PICK p \in Outcomes(w) :
          /\ Commit(w, p)
          /\ pc' = [pc EXCEPT ![w] = "events"]
          /\ queue' = [queue EXCEPT ![w] = p.messages]
          /\ tracked' = [tracked EXCEPT ![w] = ClearMessages(SetModified(p, FALSE))]
  BY DEF Execute
<1>2. pc[w] = "execute" /\ command' = command /\ c \in Commands
  BY DEF Execute, StockInvariant, TypeOK
<1>3. /\ p \in Aggregate /\ \A r \in p.modifiedRefs : Contains(p, r)
      /\ \A r \in Refs : \A l \in OrderLines : HasLine(p, r, l) =>
            \/ HasLine(t, r, l)
            \/ /\ c.type = "Allocate" /\ l = c.line
               /\ p.modified /\ r \in p.modifiedRefs
               /\ p.messages = <<Allocated(l, r)>>
      /\ c.type = "CreateBatch" => p.messages = <<>>
      /\ c.type = "Allocate" => \A i \in DOMAIN p.messages :
            \/ p.messages[i] = OutOfStock(c.line.sku)
            \/ \E r \in Refs : /\ p.messages[i] = Allocated(c.line, r)
                               /\ p.modified /\ r \in p.modifiedRefs /\ HasLine(p, r, c.line)
      /\ c.type = "ChangeBatchQuantity" => \A i \in DOMAIN p.messages :
            \E l \in OrderLines : p.messages[i] = Deallocated(l) /\ WasPlaced(l)
  BY <1>1, <1>2, OutcomesHistory
<1>4. PICK n : n = tracked'[w]
  OBVIOUS
<1>5. /\ pc'[w] = "events" /\ queue'[w] = p.messages /\ command'[w] = c
      /\ n = ClearMessages(SetModified(p, FALSE))
  BY <1>1, <1>2, <1>4 DEF StockInvariant, TypeOK
<1>6. /\ n.batches = p.batches /\ n.modifiedRefs = p.modifiedRefs
      /\ ~n.modified /\ n.messages = <<>>
  BY <1>3, <1>5 DEF ClearMessages, SetModified, Aggregate
<1>7. /\ placed \subseteq placed'
      /\ \A r \in Refs : \A l \in OrderLines : Holds(r, l)' =>
            Holds(r, l) \/ (p.modified /\ r \in p.modifiedRefs /\ HasLine(p, r, l))
      /\ p.modified => \A r \in p.modifiedRefs : \A l \in OrderLines :
            HasLine(p, r, l) => <<l, r>> \in placed'
  BY <1>1, <1>3, CommitHistory
<1>8. /\ HeldWasPlaced /\ t # NoProduct
      /\ \A r \in Refs : \A l \in OrderLines : HasLine(t, r, l) => WasPlaced(l)
  BY <1>2 DEF PlacementInvariant, HeldWasPlaced, KnowsPlacedLines, StockInvariant, TypeOK
<1> HIDE DEF t
<1>9. HeldWasPlaced'
  BY <1>7, <1>8 DEF HeldWasPlaced
<1>10. \A l \in OrderLines : WasPlaced(l) => WasPlaced(l)'
  BY <1>7 DEF WasPlaced
<1>11. \A r \in Refs : \A l \in OrderLines : HasLine(p, r, l) => WasPlaced(l)'
  <2> SUFFICES ASSUME NEW r \in Refs, NEW l \in OrderLines, HasLine(p, r, l)
               PROVE  WasPlaced(l)'
    OBVIOUS
  <2>1. CASE HasLine(t, r, l)
    BY <1>8, <1>10, <2>1
  <2>2. CASE p.modified /\ r \in p.modifiedRefs
    BY <1>7, <2>2 DEF WasPlaced
  <2>3. QED
    BY <1>3, <2>1, <2>2
<1>12. \A i \in DOMAIN p.messages :
           /\ p.messages[i].type = "Deallocated" =>
                 c.type = "ChangeBatchQuantity" /\ WasPlaced(p.messages[i].line)'
           /\ p.messages[i].type = "Allocated" =>
                 <<p.messages[i].line, p.messages[i].batchref>> \in placed'
  <2> SUFFICES ASSUME NEW i \in DOMAIN p.messages
               PROVE  /\ p.messages[i].type = "Deallocated" =>
                            c.type = "ChangeBatchQuantity" /\ WasPlaced(p.messages[i].line)'
                      /\ p.messages[i].type = "Allocated" =>
                            <<p.messages[i].line, p.messages[i].batchref>> \in placed'
    OBVIOUS
  <2>1. CASE c.type = "CreateBatch"
    BY <1>3, <2>1
  <2>2. CASE c.type = "Allocate"
    <3>1. c.line \in OrderLines
      BY <1>2, <2>2, CommandFields
    <3>2. CASE p.messages[i] = OutOfStock(c.line.sku)
      BY <3>2 DEF OutOfStock
    <3>3. CASE \E r \in Refs : /\ p.messages[i] = Allocated(c.line, r)
                               /\ p.modified /\ r \in p.modifiedRefs /\ HasLine(p, r, c.line)
      BY <1>7, <3>1, <3>3 DEF Allocated
    <3>4. QED
      BY <1>3, <2>2, <3>2, <3>3
  <2>3. CASE c.type = "ChangeBatchQuantity"
    <3>1. PICK l \in OrderLines : p.messages[i] = Deallocated(l) /\ WasPlaced(l)
      BY <1>3, <2>3
    <3>2. p.messages[i].type = "Deallocated" /\ p.messages[i].line = l
      BY <3>1 DEF Deallocated
    <3>3. WasPlaced(l)'
      BY <1>10, <3>1
    <3>4. QED
      BY <2>3, <3>2, <3>3 DEF WasPlaced
  <2>4. QED
    BY <1>2, <2>1, <2>2, <2>3, CommandFields
<1>13. KnowsPlacedLines(w)'
  <2>1. \A r \in n.modifiedRefs : Contains(n, r)
    BY <1>3, <1>6 DEF Contains
  <2>2. \A r \in Refs : \A l \in OrderLines : HasLine(n, r, l) => WasPlaced(l)'
    BY <1>6, <1>11 DEF HasLine, Contains
  <2>3. KnowsPlacedLines(w)' <=>
            /\ n # NoProduct =>
                  /\ \A r \in n.modifiedRefs : Contains(n, r)
                  /\ \A r \in Refs : \A l \in OrderLines : HasLine(n, r, l) => WasPlaced(l)'
                  /\ \A i \in DOMAIN n.messages : n.messages[i].type # "Deallocated"
            /\ \A i \in DOMAIN p.messages :
                  p.messages[i].type = "Deallocated" => WasPlaced(p.messages[i].line)'
    BY <1>4, <1>5 DEF KnowsPlacedLines, WasPlaced, HasLine, Contains
  <2>4. \A i \in DOMAIN n.messages : n.messages[i].type # "Deallocated"
    BY <1>6
  <2>5. \A i \in DOMAIN p.messages :
            p.messages[i].type = "Deallocated" => WasPlaced(p.messages[i].line)'
    BY <1>12
  <2>6. QED
    BY <2>1, <2>2, <2>3, <2>4, <2>5
<1>14. w \in HttpWorkers => AnnouncesPlacedLines(w)'
  <2> SUFFICES ASSUME w \in HttpWorkers
               PROVE  AnnouncesPlacedLines(w)'
    OBVIOUS
  <2>1. c.type # "ChangeBatchQuantity"
    BY <1>2 DEF PlacementInvariant, AnnouncesPlacedLines, ReallocatesNothing
  <2>2. QED
    BY <1>4, <1>5, <1>6, <1>12, <2>1 DEF AnnouncesPlacedLines, ReallocatesNothing
<1>15. QED
  BY <1>2, <1>7, <1>9, <1>13, <1>14 DEF KnowsTheHistory, PlacementInvariant

\* A handler that returned, after a commit or without one, or threw.
LEMMA HandlerPlacement ==
    ASSUME StockInvariant, PlacementInvariant, NEW w \in Workers,
           pc[w] \in {"events", "reallocate"}, queue[w] # <<>>, NEW last \in BOOLEAN,
           \/ /\ Commit(w, tracked[w]) /\ Handled(w, SetModified(tracked[w], FALSE), last)
           \/ VersionIsOutdated(w, tracked[w], last) \/ StatementFails(w, tracked[w], last)
           \/ Handled(w, tracked[w], last) /\ UNCHANGED <<dbVars, placed>>
    PROVE  HeldWasPlaced' /\ KnowsTheHistory(w)' /\ placed \subseteq placed'
<1> DEFINE t == tracked[w]
<1>1. PICK n, k : n = tracked'[w] /\ k = queue'[w]
  OBVIOUS
<1>2. /\ t \in Aggregate /\ t # NoProduct /\ queue[w] \in Seq(Event) /\ t.messages \in Seq(Event)
  BY HandlingFacts, NullAssumption DEF Aggregate
<1>3. /\ pc'[w] = "events" /\ command'[w] = command[w]
      /\ \/ k = Rest(queue[w], last) \o t.messages
         \/ k = Rest(queue[w], last) \o <<>>
      /\ n.batches = t.batches /\ n.modifiedRefs = t.modifiedRefs
      /\ n.messages = <<>> \/ n.messages = t.messages
      /\ n.modified => t.modified
  <2>1. CASE Handled(w, SetModified(t, FALSE), last)
    <3>1. /\ pc'[w] = "events" /\ command'[w] = command[w]
          /\ queue'[w] = Rest(queue[w], last) \o SetModified(t, FALSE).messages
          /\ n = ClearMessages(SetModified(t, FALSE))
      BY <1>1, <2>1 DEF Handled, StockInvariant, TypeOK
    <3>2. QED
      BY <1>1, <1>2, <3>1 DEF ClearMessages, SetModified, Aggregate
  <2>2. CASE VersionIsOutdated(w, t, last) \/ StatementFails(w, t, last)
    <3>1. /\ pc'[w] = "events" /\ command'[w] = command[w]
          /\ queue'[w] = Rest(queue[w], last) /\ n = t
      BY <1>1, <2>2 DEF VersionIsOutdated, StatementFails, Caught, StockInvariant, TypeOK
    <3>2. Rest(queue[w], last) \in Seq(Event)
      BY <1>2 DEF Rest
    <3>3. Rest(queue[w], last) \o <<>> = Rest(queue[w], last)
      BY <3>2
    <3>4. QED
      BY <1>1, <3>1, <3>3
  <2>3. CASE Handled(w, t, last)
    <3>1. /\ pc'[w] = "events" /\ command'[w] = command[w]
          /\ queue'[w] = Rest(queue[w], last) \o t.messages /\ n = ClearMessages(t)
      BY <1>1, <2>3 DEF Handled, StockInvariant, TypeOK
    <3>2. QED
      BY <1>1, <1>2, <3>1 DEF ClearMessages, Aggregate
  <2>4. QED
    BY <2>1, <2>2, <2>3
<1>4. /\ \A r \in t.modifiedRefs : Contains(t, r)
      /\ \A r \in Refs : \A l \in OrderLines : HasLine(t, r, l) => WasPlaced(l)
      /\ \A i \in DOMAIN t.messages : t.messages[i].type # "Deallocated"
      /\ \A i \in DOMAIN queue[w] :
            queue[w][i].type = "Deallocated" => WasPlaced(queue[w][i].line)
  BY <1>2 DEF PlacementInvariant, KnowsPlacedLines
<1>5. /\ placed \subseteq placed'
      /\ HeldWasPlaced'
  <2>1. HeldWasPlaced
    BY DEF PlacementInvariant, HeldWasPlaced
  <2>2. CASE Commit(w, t)
    <3>1. /\ placed \subseteq placed'
          /\ \A r \in Refs : \A l \in OrderLines : Holds(r, l)' =>
                Holds(r, l) \/ (t.modified /\ r \in t.modifiedRefs /\ HasLine(t, r, l))
          /\ t.modified => \A r \in t.modifiedRefs : \A l \in OrderLines :
                HasLine(t, r, l) => <<l, r>> \in placed'
      BY <1>2, <1>4, <2>2, CommitHistory
    <3>2. QED
      BY <2>1, <3>1 DEF HeldWasPlaced
  <2>3. CASE UNCHANGED <<batches, placed>>
    BY <2>1, <2>3 DEF HeldWasPlaced, Holds
  <2>4. QED
    BY <2>2, <2>3 DEF VersionIsOutdated, StatementFails, Caught, dbVars
<1>6. \A l : WasPlaced(l) => WasPlaced(l)'
  BY <1>5 DEF WasPlaced
<1>7. \A i \in DOMAIN k :
          \/ \E j \in DOMAIN queue[w] : k[i] = queue[w][j]
          \/ \E j \in DOMAIN t.messages : k[i] = t.messages[j]
  <2>1. <<>> \in Seq(Event) /\ DOMAIN <<>> = {}
    OBVIOUS
  <2> HIDE DEF t
  <2>0. ASSUME NEW m \in Seq(Event), k = Rest(queue[w], last) \o m
        PROVE  \A i \in DOMAIN k : \/ \E j \in DOMAIN queue[w] : k[i] = queue[w][j]
                                  \/ \E j \in DOMAIN m : k[i] = m[j]
    <3>1. \A i \in DOMAIN (Rest(queue[w], last) \o m) :
              \/ \E j \in DOMAIN queue[w] : (Rest(queue[w], last) \o m)[i] = queue[w][j]
              \/ \E j \in DOMAIN m : (Rest(queue[w], last) \o m)[i] = m[j]
      BY <1>2, QueueMembers
    <3>2. QED
      BY <2>0, <3>1
  <2>2. CASE k = Rest(queue[w], last) \o t.messages
    BY <1>2, <2>0, <2>2
  <2>3. CASE k = Rest(queue[w], last) \o <<>>
    BY <2>0, <2>1, <2>3
  <2>4. QED
    BY <1>3, <2>2, <2>3
<1> HIDE DEF t
<1>8. KnowsPlacedLines(w)'
  <2>1. \A i \in DOMAIN k :
            k[i].type = "Deallocated" => WasPlaced(k[i].line)'
    BY <1>4, <1>6, <1>7
  <2>2. \A r \in n.modifiedRefs : Contains(n, r)
    BY <1>3, <1>4 DEF Contains
  <2>3. \A r \in Refs : \A l \in OrderLines : HasLine(n, r, l) => WasPlaced(l)'
    BY <1>3, <1>4, <1>6 DEF HasLine, Contains
  <2>4. \A i \in DOMAIN n.messages : n.messages[i].type # "Deallocated"
    BY <1>3, <1>4
  <2>5. KnowsPlacedLines(w)' <=>
            /\ n # NoProduct =>
                  /\ \A r \in n.modifiedRefs : Contains(n, r)
                  /\ \A r \in Refs : \A l \in OrderLines : HasLine(n, r, l) => WasPlaced(l)'
                  /\ \A i \in DOMAIN n.messages : n.messages[i].type # "Deallocated"
            /\ \A i \in DOMAIN k : k[i].type = "Deallocated" => WasPlaced(k[i].line)'
    BY <1>1, <1>3 DEF KnowsPlacedLines, WasPlaced, HasLine, Contains
  <2>6. QED
    BY <2>1, <2>2, <2>3, <2>4, <2>5
<1>9. w \in HttpWorkers => AnnouncesPlacedLines(w)'
  <2> SUFFICES ASSUME w \in HttpWorkers
               PROVE  AnnouncesPlacedLines(w)'
    OBVIOUS
  <2>1. /\ pc[w] = "events" /\ command[w].type # "ChangeBatchQuantity"
        /\ ~t.modified /\ t.messages = <<>>
        /\ \A i \in DOMAIN queue[w] : queue[w][i].type # "Deallocated"
        /\ \A i \in DOMAIN queue[w] : queue[w][i].type = "Allocated" =>
              <<queue[w][i].line, queue[w][i].batchref>> \in placed
    BY DEF PlacementInvariant, AnnouncesPlacedLines, ReallocatesNothing, t
  <2>2. \A i \in DOMAIN k : \E j \in DOMAIN queue[w] : k[i] = queue[w][j]
    BY <1>7, <2>1
  <2>3. \A i \in DOMAIN k :
            /\ k[i].type # "Deallocated"
            /\ k[i].type = "Allocated" =>
                  <<k[i].line, k[i].batchref>> \in placed'
    BY <1>5, <2>1, <2>2
  <2>4. QED
    BY <1>1, <1>3, <2>1, <2>3 DEF AnnouncesPlacedLines, ReallocatesNothing
<1>10. QED
  BY <1>3, <1>5, <1>8, <1>9 DEF KnowsTheHistory, PlacementInvariant

LEMMA ReallocatePlacement ==
    ASSUME StockInvariant, PlacementInvariant, NEW w \in Workers, Reallocate(w)
    PROVE  HeldWasPlaced' /\ KnowsTheHistory(w)' /\ placed \subseteq placed'
<1> DEFINE t == tracked[w]
           line == Head(queue[w]).line
<1>1. /\ pc[w] = "events" /\ queue[w] # <<>> /\ Head(queue[w]).type = "Deallocated"
      /\ UNCHANGED <<batches, placed, command, queue>>
      /\ pc' = [pc EXCEPT ![w] = "reallocate"]
  BY DEF Reallocate, Handling, dbVars
<1>2. PICK p \in AllocateOutcomes(t, line) : tracked' = [tracked EXCEPT ![w] = p]
  BY DEF Reallocate
<1>3. /\ t \in Aggregate /\ Sound(t) /\ t # NoProduct /\ line \in OrderLines
      /\ queue[w] \in Seq(Event) /\ t.messages \in Seq(Event)
  BY <1>1, HandlingFacts, EventFields, NullAssumption DEF Aggregate
<1>4. 1 \in DOMAIN queue[w] /\ queue[w][1].type = "Deallocated" /\ queue[w][1].line = line
  BY <1>1, <1>3
<1>5. /\ pc'[w] = "reallocate" /\ tracked'[w] = p
  BY <1>1, <1>2 DEF StockInvariant, TypeOK
<1>6. /\ \A r \in t.modifiedRefs : Contains(t, r)
      /\ \A r \in Refs : \A l \in OrderLines : HasLine(t, r, l) => WasPlaced(l)
      /\ \A i \in DOMAIN t.messages : t.messages[i].type # "Deallocated"
      /\ \A i \in DOMAIN queue[w] :
            queue[w][i].type = "Deallocated" => WasPlaced(queue[w][i].line)
  BY <1>3 DEF PlacementInvariant, KnowsPlacedLines
<1>7. WasPlaced(line)
  BY <1>4, <1>6
<1>8. w \notin HttpWorkers
  BY <1>4 DEF PlacementInvariant, AnnouncesPlacedLines, ReallocatesNothing
<1> HIDE DEF t, line
<1>9. /\ \A r \in p.modifiedRefs : Contains(p, r)
      /\ \A r \in Refs : \A l \in OrderLines : HasLine(p, r, l) =>
            \/ HasLine(t, r, l)
            \/ /\ l = line /\ p.modified /\ r \in p.modifiedRefs
               /\ p.messages = Append(t.messages, Allocated(line, r))
      /\ \A i \in DOMAIN p.messages :
            \/ i \in DOMAIN t.messages /\ p.messages[i] = t.messages[i]
            \/ p.messages[i] = OutOfStock(line.sku)
            \/ \E r \in Refs : /\ p.messages[i] = Allocated(line, r)
                               /\ p.modified /\ r \in p.modifiedRefs /\ HasLine(p, r, line)
  BY <1>2, <1>3, <1>6, AllocateLines
<1>10. \A i \in DOMAIN p.messages : p.messages[i].type # "Deallocated"
  <2>1. /\ \A sku : OutOfStock(sku).type = "OutOfStock"
        /\ \A l, r : Allocated(l, r).type = "Allocated"
    BY DEF OutOfStock, Allocated
  <2>2. QED
    BY <1>6, <1>9, <2>1
<1>11. \A r \in Refs : \A l \in OrderLines : HasLine(p, r, l) => WasPlaced(l)
  BY <1>6, <1>7, <1>9
<1>12. KnowsPlacedLines(w)'
  BY <1>1, <1>5, <1>6, <1>9, <1>10, <1>11 DEF KnowsPlacedLines, WasPlaced, HasLine, Contains
<1>13. HeldWasPlaced'
  BY <1>1 DEF PlacementInvariant, HeldWasPlaced, Holds
<1>14. QED
  BY <1>1, <1>8, <1>12, <1>13 DEF KnowsTheHistory, PlacementInvariant

LEMMA EventPlacement ==
    ASSUME StockInvariant, PlacementInvariant, NEW w \in Workers, HandleEvent(w)
    PROVE  HeldWasPlaced' /\ KnowsTheHistory(w)' /\ placed \subseteq placed'
<1>1. CASE Reallocate(w)
  BY <1>1, ReallocatePlacement
<1>2. CASE CommitReallocation(w)
  <2>1. pc[w] = "reallocate" /\ queue[w] # <<>>
    BY <1>2 DEF CommitReallocation, StockInvariant, ReallocatesAnEvent
  <2>2. \/ /\ Commit(w, tracked[w]) /\ Handled(w, SetModified(tracked[w], FALSE), TRUE)
        \/ VersionIsOutdated(w, tracked[w], TRUE) \/ StatementFails(w, tracked[w], TRUE)
    BY <1>2 DEF CommitReallocation, CommitFails
  <2>3. QED
    BY <2>1, <2>2, HandlerPlacement
<1>3. CASE PublishAllocatedEvent(w) \/ SendOutOfStockNotification(w)
  <2>1. pc[w] = "events" /\ queue[w] # <<>> /\ UNCHANGED <<dbVars, placed>>
    BY <1>3 DEF PublishAllocatedEvent, SendOutOfStockNotification, Handling, dbVars
  <2>2. Handled(w, tracked[w], FALSE) \/ Handled(w, tracked[w], TRUE)
    BY <1>3 DEF PublishAllocatedEvent, SendOutOfStockNotification
  <2>3. QED
    BY <2>1, <2>2, HandlerPlacement
<1>4. CASE AddAllocationToReadModel(w)
  <2>1. pc[w] = "events" /\ queue[w] # <<>>
    BY <1>4 DEF AddAllocationToReadModel, Handling
  <2>2. \/ /\ Commit(w, tracked[w]) /\ Handled(w, SetModified(tracked[w], FALSE), TRUE)
        \/ VersionIsOutdated(w, tracked[w], TRUE) \/ StatementFails(w, tracked[w], TRUE)
    BY <1>4 DEF AddAllocationToReadModel, CommitFails
  <2>3. QED
    BY <2>1, <2>2, HandlerPlacement
<1>5. CASE RemoveAllocationFromReadModel(w)
  <2>1. pc[w] = "events" /\ queue[w] # <<>>
    BY <1>5 DEF RemoveAllocationFromReadModel, Handling
  <2>2. \/ /\ Commit(w, tracked[w]) /\ Handled(w, SetModified(tracked[w], FALSE), FALSE)
        \/ VersionIsOutdated(w, tracked[w], FALSE) \/ StatementFails(w, tracked[w], FALSE)
    BY <1>5 DEF RemoveAllocationFromReadModel, CommitFails
  <2>3. QED
    BY <2>1, <2>2, HandlerPlacement
<1>6. QED
  BY <1>1, <1>2, <1>3, <1>4, <1>5 DEF HandleEvent

LEMMA StepPlacement ==
    ASSUME StockInvariant, PlacementInvariant, NEW w \in Workers,
           \/ Step(w)
           \/ \E c \in Commands :
                  \/ w = Listener /\ OnRedisMessage(c)
                  \/ w \in HttpWorkers /\ HandleRequest(w, c)
    PROVE  PlacementInvariant' /\ placed \subseteq placed' /\ \A v \in Workers \ {w} : Rests(v)
<1>1. HeldWasPlaced /\ \A v \in Workers : KnowsTheHistory(v)
  BY PlacementIsByThread
<1>2. /\ HeldWasPlaced' /\ KnowsTheHistory(w)' /\ placed \subseteq placed'
      /\ \A v \in Workers \ {w} : Rests(v)
  <2>1. CASE \E c \in Commands : \/ w = Listener /\ OnRedisMessage(c)
                                 \/ w \in HttpWorkers /\ HandleRequest(w, c)
    <3>1. PICK c \in Commands : \/ w = Listener /\ OnRedisMessage(c)
                                \/ w \in HttpWorkers /\ HandleRequest(w, c)
      BY <2>1
    <3>2. /\ Receive(w, c)
          /\ w \in HttpWorkers => c.type # "ChangeBatchQuantity"
          /\ w = Listener => c.type = "ChangeBatchQuantity"
      BY <3>1, ServiceAssumption DEF OnRedisMessage, HandleRequest
    <3>3. QED
      BY <1>1, <3>2, ReceivePlacement, OthersRest
  <2>2. CASE Step(w)
    <3>1. \A v \in Workers \ {w} : Rests(v)
      BY <2>2, OthersRest
    <3>2. CASE \E status : Answered(w, status)
      BY <1>1, <3>1, <3>2, AnsweredPlacement
    <3>3. CASE LoadForAddBatch(w) \/ LoadForAllocate(w) \/ LoadForChangeBatchQuantity(w)
      BY <1>1, <3>1, <3>3, LoadPlacement
    <3>4. CASE Execute(w)
      BY <3>1, <3>4, ExecutePlacement
    <3>5. CASE HandleEvent(w)
      BY <3>1, <3>5, EventPlacement
    <3>6. QED
      BY <2>2, <3>2, <3>3, <3>4, <3>5
         DEF Step, HandleCommand, LoadFails, RejectUnknownSku, RejectUnknownReference, ExecuteFails,
             Finish
  <2>3. QED
    BY <2>1, <2>2
<1>3. \A v \in Workers \ {w} : KnowsTheHistory(v)'
  BY <1>1, <1>2, HistoryStaysKnown
<1>4. \A v \in Workers : KnowsTheHistory(v)'
  BY <1>2, <1>3
<1>5. PlacementInvariant'
  BY <1>2, <1>4
     DEF PlacementInvariant, KnowsTheHistory, HeldWasPlaced, Workers
<1>6. QED
  BY <1>2, <1>5

LEMMA NextPlacement ==
    StockInvariant /\ PlacementInvariant /\ [Next]_vars => PlacementInvariant'
<1> SUFFICES ASSUME StockInvariant, PlacementInvariant, [Next]_vars
             PROVE  PlacementInvariant'
  OBVIOUS
<1>1. ASSUME NEW w \in Workers, Step(w)
      PROVE  PlacementInvariant'
  BY <1>1, StepPlacement
<1>2. ASSUME NEW c \in Commands, OnRedisMessage(c)
      PROVE  PlacementInvariant'
  <2>1. Listener \in Workers
    BY DEF Workers
  <2>2. QED
    BY <1>2, <2>1, StepPlacement
<1>3. ASSUME NEW c \in Commands, NEW w \in HttpWorkers, HandleRequest(w, c)
      PROVE  PlacementInvariant'
  <2>1. w \in Workers
    BY DEF Workers
  <2>2. QED
    BY <1>3, <2>1, StepPlacement
<1>4. CASE Crash
  <2>1. /\ \A w \in Workers : pc'[w] = "idle" /\ queue'[w] = <<>> /\ tracked'[w] = NoProduct
        /\ UNCHANGED <<batches, placed>>
    BY <1>4 DEF Crash, dbVars
  <2>2. QED
    BY <2>1 DEF PlacementInvariant, Holds, KnowsPlacedLines, AnnouncesPlacedLines,
                ReallocatesNothing, Workers
<1>5. CASE UNCHANGED vars
  <2>1. UNCHANGED <<batches, placed, pc, command, queue, tracked>>
    BY <1>5 DEF vars, dbVars, busVars, uowVars
  <2>2. QED
    BY <2>1 DEF PlacementInvariant, Holds, KnowsPlacedLines, AnnouncesPlacedLines,
                ReallocatesNothing, HasLine, Contains, WasPlaced
<1>6. QED
  BY <1>1, <1>2, <1>3, <1>4, <1>5 DEF Next, NothingToDo

\* Nothing knows of a line before its command has committed it: neither a batch, nor the object of
\* a thread, nor an event, nor what the listener reallocates.
THEOREM LinesComeFromCommits == Spec => []PlacementInvariant
<1>1. Init => PlacementInvariant
  <2> SUFFICES ASSUME Init PROVE PlacementInvariant
    OBVIOUS
  <2>1. /\ \A w \in Workers : pc[w] = "idle" /\ queue[w] = <<>> /\ tracked[w] = NoProduct
        /\ \A r \in Refs : batches[r] = NoBatch
    BY DEF Init
  <2>2. QED
    BY <2>1 DEF PlacementInvariant, Holds, KnowsPlacedLines, AnnouncesPlacedLines,
                ReallocatesNothing, Workers
<1>2. QED
  BY <1>1, NextPlacement, StockStaysSound, PTL DEF Spec

-----------------------------------------------------------------------------
(* What Redis hears *)

LEMMA OnlyPublishPublishes ==
    ASSUME NEW w \in Workers, Step(w)
    PROVE  \/ UNCHANGED published
           \/ /\ Handling(w, "Allocated", 1)
              /\ published' = published \cup {<<Head(queue[w]).line, Head(queue[w]).batchref>>}
<1>1. CASE \E status : Answered(w, status)
  BY <1>1 DEF Answered
<1>2. CASE HandleEvent(w)
  BY <1>2 DEF HandleEvent, PublishAllocatedEvent, AddAllocationToReadModel, Reallocate,
              RemoveAllocationFromReadModel, CommitReallocation, SendOutOfStockNotification, outVars
<1>3. CASE (\E p : Track(w, p)) \/ Execute(w)
  BY <1>3 DEF Track, Execute, outVars
<1>4. QED
  BY <1>1, <1>2, <1>3
     DEF Step, HandleCommand, Finish, LoadFails, RejectUnknownSku, RejectUnknownReference,
         ExecuteFails,
         LoadForAddBatch, LoadForAllocate, LoadForChangeBatchQuantity

\* As long as no batch shrinks, every Allocated event that reaches Redis is about an allocation
\* that was committed before: an HTTP thread gets the events of a product only from a command
\* whose commit went through.  (A reallocation may be announced without, see PublishedUncommitted.)
THEOREM PublishedIsTrue ==
    ASSUME NoQuantityChanges
    PROVE  Spec => []PublishedWasPlaced
<1>1. Init => PublishedWasPlaced
  BY DEF Init, PublishedWasPlaced
<1>2. StockInvariant /\ PlacementInvariant /\ PublishedWasPlaced /\ [Next]_vars
          => PublishedWasPlaced'
  <2> SUFFICES ASSUME StockInvariant, PlacementInvariant, PublishedWasPlaced, [Next]_vars
               PROVE  PublishedWasPlaced'
    OBVIOUS
  <2>1. ASSUME NEW w \in Workers, Step(w)
        PROVE  PublishedWasPlaced'
    <3>1. placed \subseteq placed'
      BY <2>1, StepPlacement
    <3>2. ASSUME Handling(w, "Allocated", 1)
          PROVE  <<Head(queue[w]).line, Head(queue[w]).batchref>> \in placed
      <4>1. /\ pc[w] = "events" /\ queue[w] \in Seq(Event) /\ queue[w] # <<>>
            /\ command[w] \in Commands /\ Head(queue[w]).type = "Allocated"
        BY <3>2 DEF Handling, StockInvariant, TypeOK
      <4>2. w \in HttpWorkers
        BY <4>1 DEF NoQuantityChanges, PlacementInvariant, Workers
      <4>3. 1 \in DOMAIN queue[w] /\ Head(queue[w]) = queue[w][1]
        BY <4>1
      <4>4. QED
        BY <4>1, <4>2, <4>3 DEF PlacementInvariant, AnnouncesPlacedLines
    <3>3. QED
      BY <2>1, <3>1, <3>2, OnlyPublishPublishes DEF PublishedWasPlaced
  <2>2. CASE \/ \E c \in Commands : OnRedisMessage(c)
             \/ \E c \in Commands, w \in HttpWorkers : HandleRequest(w, c)
             \/ Crash
             \/ UNCHANGED vars
    BY <2>2 DEF OnRedisMessage, HandleRequest, Receive, Crash, vars, outVars, PublishedWasPlaced
  <2>3. QED
    BY <2>1, <2>2 DEF Next, NothingToDo
<1>3. QED
  BY <1>1, <1>2, StockStaysSound, LinesComeFromCommits, PTL DEF Spec

-----------------------------------------------------------------------------
(* One attempt for each command that was sent once *)

\* A line that was never placed is placed by its own command only.
LEMMA FirstPlacement ==
    ASSUME StockInvariant, PlacementInvariant, NEW w \in Workers,
           Step(w) \/ \E c \in Commands : Receive(w, c),
           NEW l \in OrderLines, ~WasPlaced(l), WasPlaced(l)'
    PROVE  /\ pc[w] = "execute" /\ pc'[w] = "events"
           /\ command[w].type = "Allocate" /\ command[w].line = l
<1>1. PICK r \in Refs : <<l, r>> \in placed' /\ <<l, r>> \notin placed
  BY DEF WasPlaced
<1>2. ASSUME NEW p \in Aggregate, Commit(w, p), \A x \in p.modifiedRefs : Contains(p, x)
      PROVE  HasLine(p, r, l)
  BY <1>1, <1>2, CommitHistory
<1>3. ASSUME pc[w] \notin {"idle", "load"}
      PROVE  /\ tracked[w] \in Aggregate
             /\ \A x \in tracked[w].modifiedRefs : Contains(tracked[w], x)
             /\ ~HasLine(tracked[w], r, l)
  BY <1>3, NullAssumption DEF StockInvariant, TypeOK, PlacementInvariant, KnowsPlacedLines
<1>4. ASSUME pc[w] \notin {"idle", "load"}
      PROVE  ~Commit(w, tracked[w])
  BY <1>2, <1>3, <1>4
<1>5. ~UNCHANGED placed
  BY <1>1
<1>6. ~HandleEvent(w)
  BY <1>4, <1>5
     DEF HandleEvent, PublishAllocatedEvent, AddAllocationToReadModel, Reallocate, Handling,
         RemoveAllocationFromReadModel, CommitReallocation, SendOutOfStockNotification,
         CommitFails, VersionIsOutdated, StatementFails, Caught
<1>7. /\ \A status : ~Answered(w, status)
      /\ \A p : ~Track(w, p)
      /\ \A c \in Commands : ~Receive(w, c)
  BY <1>5 DEF Answered, Track, Receive
<1>8. Execute(w)
  BY <1>6, <1>7
     DEF Step, HandleCommand, Finish, LoadFails, RejectUnknownSku, RejectUnknownReference,
         ExecuteFails,
         LoadForAddBatch, LoadForAllocate, LoadForChangeBatchQuantity
<1>9. PICK p \in Outcomes(w) : Commit(w, p)
  BY <1>8 DEF Execute
<1>10. pc[w] = "execute" /\ pc'[w] = "events"
  BY <1>8 DEF Execute, StockInvariant, TypeOK
<1>11. /\ p \in Aggregate /\ \A x \in p.modifiedRefs : Contains(p, x)
       /\ \A x \in Refs : \A m \in OrderLines : HasLine(p, x, m) =>
             \/ HasLine(tracked[w], x, m)
             \/ command[w].type = "Allocate" /\ m = command[w].line
  BY <1>9, <1>10, OutcomesHistory
<1>12. QED
  BY <1>2, <1>3, <1>9, <1>10, <1>11

LEMMA OneCommandPerLine ==
    ASSUME NEW c \in Commands, NEW d \in Commands,
           c.type = "Allocate", d.type = "Allocate", c.line = d.line
    PROVE  c = d
<1>1. \A e \in Commands : e.type = "Allocate" => e = [type |-> "Allocate", line |-> e.line]
  BY ServiceAssumption DEF Command
<1>2. QED
  BY <1>1

\* A step ends a command with an answer, or leaves clients and answers alone.
LEMMA StepAnswers ==
    ASSUME StockInvariant, NEW w \in Workers, Step(w)
    PROVE  \/ \E status \in Status :
                 /\ Answered(w, status)
                 /\ pc[w] # "idle"
                 /\ pc[w] \in {"load", "execute"} \/ status = Success(command[w])
           \/ /\ UNCHANGED <<inbox, answers, command, crashes>>
              /\ pc[w] # "idle"
              /\ pc'[w] \in {"load", "execute"} => pc[w] \in {"load", "execute"}
<1>1. CASE LoadFails(w) \/ RejectUnknownSku(w) \/ RejectUnknownReference(w) \/ ExecuteFails(w)
  BY <1>1, FailureIsStatus DEF LoadFails, RejectUnknownSku, RejectUnknownReference, ExecuteFails
<1>2. CASE Finish(w)
  <2>1. command[w] \in Commands
    BY <1>2 DEF Finish, StockInvariant, TypeOK
  <2>2. Success(command[w]) \in Status
    BY <2>1, CommandFields DEF Success, Status
  <2>3. QED
    BY <1>2, <2>2 DEF Finish
<1>3. CASE LoadForAddBatch(w) \/ LoadForAllocate(w) \/ LoadForChangeBatchQuantity(w)
  BY <1>3 DEF LoadForAddBatch, LoadForAllocate, LoadForChangeBatchQuantity, Track, outVars
<1>4. CASE Execute(w)
  BY <1>4 DEF Execute, outVars, StockInvariant, TypeOK
<1>5. CASE HandleEvent(w)
  <2>1. pc[w] \in {"events", "reallocate"} /\ pc'[w] \in {"events", "reallocate"}
    BY <1>5 DEF HandleEvent, PublishAllocatedEvent, AddAllocationToReadModel, Reallocate, Handling,
         RemoveAllocationFromReadModel, CommitReallocation, SendOutOfStockNotification,
         CommitFails, VersionIsOutdated, StatementFails, Caught, Handled, StockInvariant, TypeOK
  <2>2. UNCHANGED <<inbox, answers, command, crashes>>
    BY <1>5 DEF HandleEvent, PublishAllocatedEvent, AddAllocationToReadModel, Reallocate,
         RemoveAllocationFromReadModel, CommitReallocation, SendOutOfStockNotification,
         CommitFails, VersionIsOutdated, StatementFails, Caught, Handled, outVars
  <2>3. QED
    BY <2>1, <2>2
<1>6. QED
  BY <1>1, <1>2, <1>3, <1>4, <1>5 DEF Step, HandleCommand

LEMMA AttemptStays ==
    ASSUME StockInvariant, PlacementInvariant,
           NEW c \in Commands, c.type = "Allocate", IsOneAttempt(c),
           NEW w \in Workers, Step(w) \/ \E d \in Commands : Receive(w, d)
    PROVE  IsOneAttempt(c)'
<1> DEFINE l == c.line
<1>1. /\ l \in OrderLines /\ inbox[c] \in Nat /\ c # NoCommand
      /\ \A v \in Workers \ {w} : pc'[v] = pc[v] /\ command'[v] = command[v]
      /\ command[w] \in Commands \cup {NoCommand}
  BY CommandFields, OthersRest, ServiceAssumption DEF Rests, StockInvariant, TypeOK
<1>2. ASSUME ~WasPlaced(l), WasPlaced(l)'
      PROVE  pc[w] = "execute" /\ pc'[w] = "events" /\ command[w] = c
  <2>1. /\ pc[w] = "execute" /\ pc'[w] = "events"
        /\ command[w].type = "Allocate" /\ command[w].line = l
    BY <1>1, <1>2, FirstPlacement
  <2>2. command[w] \in Commands
    BY <2>1 DEF StockInvariant, TypeOK
  <2>3. QED
    BY <2>1, <2>2, OneCommandPerLine
<1>3. /\ inbox[c] <= 1
      /\ inbox[c] = 1 => ~WasPlaced(l) /\ \A v \in Workers : command[v] # c
      /\ inbox[c] = 1 \/ (\E v \in Workers : command[v] = c) => \A a \in answers : a.command # c
      /\ \A v, u \in Workers : command[v] = c /\ command[u] = c => v = u
      /\ \A v \in Workers : command[v] = c /\ pc[v] \in {"load", "execute"} => ~WasPlaced(l)
      /\ \A a \in answers : a.command = c /\ a.status # "202" => ~WasPlaced(l)
  BY DEF IsOneAttempt
<1> HIDE DEF l
<1>4. IsOneAttempt(c)' <=>
          /\ inbox'[c] <= 1
          /\ inbox'[c] = 1 => ~WasPlaced(l)' /\ \A v \in Workers : command'[v] # c
          /\ inbox'[c] = 1 \/ (\E v \in Workers : command'[v] = c)
                 => \A a \in answers' : a.command # c
          /\ \A v, u \in Workers : command'[v] = c /\ command'[u] = c => v = u
          /\ \A v \in Workers : command'[v] = c /\ pc'[v] \in {"load", "execute"} => ~WasPlaced(l)'
          /\ \A a \in answers' : a.command = c /\ a.status # "202" => ~WasPlaced(l)'
  BY DEF IsOneAttempt, l, WasPlaced
<1>5. CASE \E d \in Commands : Receive(w, d)
  <2>1. PICK d \in Commands : Receive(w, d)
    BY <1>5
  <2>2. /\ pc[w] = "idle" /\ inbox[d] > 0 /\ command'[w] = d /\ answers' = answers
        /\ inbox'[c] = IF c = d THEN inbox[c] - 1 ELSE inbox[c]
        /\ pc'[w] = "load"
    BY <2>1 DEF Receive, StockInvariant, TypeOK
  <2>3. WasPlaced(l)' => WasPlaced(l)
    BY <1>2, <2>2
  <2>4. CASE c = d
    <3>1. inbox[c] = 1 /\ inbox'[c] = 0
      BY <1>1, <1>3, <2>2, <2>4
    <3>2. \A v \in Workers : command'[v] = c => v = w
      BY <1>1, <1>3, <3>1
    <3>3. QED
      BY <1>3, <1>4, <2>2, <2>3, <3>1, <3>2
  <2>5. CASE c # d
    <3>1. \A v \in Workers : command'[v] = c => v # w /\ command[v] = c /\ pc'[v] = pc[v]
      BY <1>1, <2>2, <2>5
    <3>2. inbox'[c] = inbox[c]
      BY <2>2, <2>5
    <3>3. QED
      BY <1>3, <1>4, <2>2, <2>3, <3>1, <3>2
  <2>6. QED
    BY <2>4, <2>5
<1>6. CASE \E status \in Status : /\ Answered(w, status)
                                  /\ pc[w] # "idle"
                                  /\ pc[w] \in {"load", "execute"} \/ status = Success(command[w])
  <2>1. PICK status \in Status : /\ Answered(w, status)
                                 /\ pc[w] \in {"load", "execute"} \/ status = Success(command[w])
    BY <1>6
  <2>2. /\ answers' = answers \cup {[command |-> command[w], status |-> status]}
        /\ command'[w] = NoCommand /\ inbox' = inbox /\ placed' = placed
    BY <2>1 DEF Answered, StockInvariant, TypeOK
  <2>3. WasPlaced(l)' <=> WasPlaced(l)
    BY <2>2 DEF WasPlaced
  <2>4. \A v \in Workers : command'[v] = c => v # w /\ command[v] = c /\ pc'[v] = pc[v]
    BY <1>1, <2>2
  <2>5. ASSUME command[w] = c, status # "202"
        PROVE  ~WasPlaced(l)
    <3>1. Success(c) = "202"
      BY DEF Success
    <3>2. pc[w] \in {"load", "execute"}
      BY <2>1, <2>5, <3>1
    <3>3. QED
      BY <1>3, <2>5, <3>2
  <2>6. \A a \in answers' : a \in answers \/ (a.command = command[w] /\ a.status = status)
    BY <2>2
  <2>7. \A a \in answers' : a.command = c /\ a.status # "202" => ~WasPlaced(l)'
    BY <1>3, <2>3, <2>5, <2>6
  <2>8. inbox'[c] = 1 \/ (\E v \in Workers : command'[v] = c) => \A a \in answers' : a.command # c
    <3>1. inbox'[c] = 1 \/ (\E v \in Workers : command'[v] = c) => command[w] # c
      BY <1>3, <2>2, <2>4
    <3>2. QED
      BY <1>3, <2>2, <2>4, <2>6, <3>1
  <2>9. QED
    BY <1>3, <1>4, <2>2, <2>3, <2>4, <2>7, <2>8
<1>7. CASE /\ UNCHANGED <<inbox, answers, command, crashes>>
           /\ pc'[w] \in {"load", "execute"} => pc[w] \in {"load", "execute"}
  <2>1. inbox[c] = 1 => ~WasPlaced(l)'
    BY <1>2, <1>3
  <2>2. \A v \in Workers : command[v] = c /\ pc'[v] \in {"load", "execute"} => ~WasPlaced(l)'
    <3> SUFFICES ASSUME NEW v \in Workers, command[v] = c, pc'[v] \in {"load", "execute"},
                        WasPlaced(l)'
                 PROVE  FALSE
      OBVIOUS
    <3>1. pc[v] \in {"load", "execute"}
      BY <1>1, <1>7
    <3>2. ~WasPlaced(l)
      BY <1>3, <3>1
    <3>3. command[w] = c /\ pc'[w] = "events"
      BY <1>2, <3>2
    <3>4. QED
      BY <1>3, <3>3
  <2>3. \A a \in answers : a.command = c /\ a.status # "202" => ~WasPlaced(l)'
    BY <1>2, <1>3
  <2>4. QED
    BY <1>3, <1>4, <1>7, <2>1, <2>2, <2>3
<1>8. QED
  BY <1>5, <1>6, <1>7, StepAnswers

\* Every step is one of a thread, a crash, or none.
LEMMA NextIsByThread ==
    ASSUME [Next]_vars
    PROVE  \/ \E w \in Workers : Step(w) \/ \E c \in Commands : Receive(w, c)
           \/ Crash
           \/ UNCHANGED vars
BY DEF Next, NothingToDo, OnRedisMessage, HandleRequest, Workers

\* A command sent once is with its client, with one thread, or over; while it is not over, and
\* when it was refused, its line has never been placed.
THEOREM AttemptsAreSingle == Spec => []AttemptInvariant
<1>1. Init => AttemptInvariant
  <2> SUFFICES ASSUME Init, NEW c \in Commands, Deliveries[c] = 1
               PROVE  IsOneAttempt(c)
    BY DEF AttemptInvariant
  <2>1. inbox[c] = 1 /\ answers = {} /\ placed = {} /\ \A w \in Workers : command[w] = NoCommand
    BY DEF Init
  <2>2. QED
    BY <2>1, ServiceAssumption DEF IsOneAttempt, WasPlaced
<1>2. StockInvariant /\ PlacementInvariant /\ AttemptInvariant /\ [Next]_vars => AttemptInvariant'
  <2> SUFFICES ASSUME StockInvariant, PlacementInvariant, AttemptInvariant, [Next]_vars,
                      NEW c \in Commands, c.type = "Allocate", Deliveries[c] = 1
               PROVE  IsOneAttempt(c)'
    BY DEF AttemptInvariant
  <2>1. IsOneAttempt(c)
    BY DEF AttemptInvariant
  <2>2. CASE \E w \in Workers : Step(w) \/ \E d \in Commands : Receive(w, d)
    BY <2>1, <2>2, AttemptStays
  <2>3. CASE Crash
    <3>1. /\ \A w \in Workers : command'[w] = NoCommand
          /\ UNCHANGED <<inbox, answers, placed>>
      BY <2>3 DEF Crash
    <3>2. QED
      BY <2>1, <3>1, ServiceAssumption DEF IsOneAttempt, WasPlaced
  <2>4. CASE UNCHANGED vars
    BY <2>1, <2>4 DEF vars, outVars, busVars, IsOneAttempt, WasPlaced
  <2>5. QED
    BY <2>2, <2>3, <2>4, NextIsByThread
<1>3. QED
  BY <1>1, <1>2, StockStaysSound, LinesComeFromCommits, PTL DEF Spec

\* A refused /allocate command left nothing in the stock, then or later: every failure closes the
\* unit of work before anything is committed, and a reallocation moves only lines that were placed.
THEOREM RefusalsLeaveNoTrace == Spec => []RefusedIsNotPlaced
<1>1. StockInvariant /\ AttemptInvariant => RefusedIsNotPlaced
  <2> SUFFICES ASSUME StockInvariant, AttemptInvariant, NEW l \in OrderLines, SentOnce(l),
                      AnsweredAllocate(l, {"400", "409", "500"}), NEW r \in Refs
               PROVE  <<l, r>> \notin placed
    BY DEF RefusedIsNotPlaced
  <2>1. PICK a \in answers : /\ a.command.type = "Allocate" /\ a.command.line = l
                             /\ a.status \in {"400", "409", "500"}
    BY DEF AnsweredAllocate
  <2>2. a.command \in Commands
    BY DEF StockInvariant, TypeOK, Answer
  <2>3. IsOneAttempt(a.command)
    BY <2>1, <2>2 DEF AttemptInvariant, SentOnce
  <2>4. QED
    BY <2>1, <2>3 DEF IsOneAttempt, WasPlaced
<1>2. QED
  BY <1>1, StockStaysSound, AttemptsAreSingle, PTL

-----------------------------------------------------------------------------
(* The events of an HTTP thread *)

\* Neither the read model nor the lists of refused rows and reported shortages lose anything: the
\* DELETE of RemoveAllocationFromReadModel is never executed.
LEMMA ReportsStay ==
    ASSUME NEW w \in Workers, Step(w) \/ \E c \in Commands : Receive(w, c)
    PROVE  view \subseteq view' /\ unshown \subseteq unshown' /\ notified \subseteq notified'
<1>1. CASE \E status : Answered(w, status)
  BY <1>1 DEF Answered, dbVars
<1>2. CASE HandleEvent(w)
  BY <1>2 DEF HandleEvent, PublishAllocatedEvent, AddAllocationToReadModel, Reallocate, outVars, dbVars,
       RemoveAllocationFromReadModel, CommitReallocation, SendOutOfStockNotification,
       CommitFails, VersionIsOutdated, StatementFails, Caught
<1>3. CASE (\E p : Track(w, p)) \/ Execute(w)
  BY <1>3 DEF Track, Execute, outVars, dbVars
<1>4. CASE \E c \in Commands : Receive(w, c)
  BY <1>4 DEF Receive, dbVars
<1>5. QED
  BY <1>1, <1>2, <1>3, <1>4
     DEF Step, HandleCommand, Finish, LoadFails, RejectUnknownSku, RejectUnknownReference,
         ExecuteFails,
         LoadForAddBatch, LoadForAllocate, LoadForChangeBatchQuantity

\* An HTTP thread has nothing left to commit after its command, so its handlers fail only when the
\* database refuses the INSERT: an event leaves the queue when the read model has the allocation,
\* or its row was refused, or the shortage is reported.
LEMMA HttpHandler ==
    ASSUME StockInvariant, PlacementInvariant, NEW w \in HttpWorkers, HandleEvent(w)
    PROVE  /\ pc[w] = "events" /\ pc'[w] = "events" /\ queue[w] # <<>>
           /\ UNCHANGED <<products, batches, command, answers>>
           /\ tracked'[w].batches = tracked[w].batches
           /\ \E last \in BOOLEAN :
                 /\ queue'[w] = Rest(queue[w], last) \o <<>>
                 /\ last => LET e == Head(queue[w])
                            IN  \/ /\ e.type = "Allocated"
                                   /\ <<e.line, e.batchref>> \in view' \cup unshown'
                                \/ e.type = "OutOfStock" /\ e.sku \in notified'
<1> DEFINE t == tracked[w]
           e == Head(queue[w])
<1>1. w \in Workers /\ pc[w] # "reallocate"
  BY DEF Workers, PlacementInvariant, AnnouncesPlacedLines, ReallocatesNothing
<1>2. pc[w] = "events" /\ queue[w] # <<>> /\ ~CommitReallocation(w)
  BY <1>1 DEF HandleEvent, PublishAllocatedEvent, AddAllocationToReadModel, Reallocate, Handling,
       RemoveAllocationFromReadModel, CommitReallocation, SendOutOfStockNotification
<1>3. /\ t \in Aggregate /\ queue[w] \in Seq(Event) /\ e \in Event
  BY <1>1, <1>2, HandlingFacts
<1>4. 1 \in DOMAIN queue[w] /\ e = queue[w][1]
  BY <1>2, <1>3
<1>5. /\ ~t.modified /\ t.messages = <<>> /\ e.type # "Deallocated"
  BY <1>2, <1>4 DEF PlacementInvariant, AnnouncesPlacedLines, ReallocatesNothing
<1>6. CanCommit(w, t)
  BY <1>5 DEF CanCommit, SqlError, VersionError
<1>7. ASSUME NEW n \in {t, SetModified(t, FALSE)}, NEW last \in BOOLEAN, Handled(w, n, last)
      PROVE  /\ pc'[w] = "events" /\ command' = command
             /\ queue'[w] = Rest(queue[w], last) \o <<>>
             /\ tracked'[w].batches = t.batches
  <2>1. /\ pc'[w] = "events" /\ command' = command
        /\ queue'[w] = Rest(queue[w], last) \o n.messages
        /\ tracked'[w] = ClearMessages(n)
    BY <1>1, <1>7 DEF Handled, StockInvariant, TypeOK
  <2>2. n.messages = <<>> /\ ClearMessages(n).batches = t.batches
    BY <1>3, <1>5, <1>7 DEF SetModified, ClearMessages, Aggregate
  <2>3. QED
    BY <2>1, <2>2
<1>8. CASE PublishAllocatedEvent(w)
  <2>1. Handled(w, t, FALSE) /\ UNCHANGED <<products, batches, answers>>
    BY <1>8 DEF PublishAllocatedEvent, dbVars
  <2>2. /\ pc'[w] = "events" /\ command' = command
        /\ queue'[w] = Rest(queue[w], FALSE) \o <<>> /\ tracked'[w].batches = t.batches
    BY <1>7, <2>1
  <2>3. QED
    BY <1>2, <2>1, <2>2
<1>9. CASE AddAllocationToReadModel(w)
  <2>1. /\ e.type = "Allocated" /\ UNCHANGED answers
        /\ \/ /\ Commit(w, t) /\ Handled(w, SetModified(t, FALSE), TRUE)
              /\ <<e.line, e.batchref>> \in view'
           \/ StatementFails(w, t, TRUE) /\ <<e.line, e.batchref>> \in unshown'
    BY <1>5, <1>9 DEF AddAllocationToReadModel, Handling, outVars, CommitFails, VersionIsOutdated,
                      VersionError
  <2>2. CASE Commit(w, t) /\ Handled(w, SetModified(t, FALSE), TRUE)
    <3>1. /\ pc'[w] = "events" /\ command' = command
          /\ queue'[w] = Rest(queue[w], TRUE) \o <<>> /\ tracked'[w].batches = t.batches
      BY <1>7, <2>2
    <3>2. UNCHANGED <<products, batches>>
      BY <1>5, <2>2 DEF Commit, WriteBack
    <3>3. QED
      BY <1>2, <2>1, <3>1, <3>2
  <2>3. CASE StatementFails(w, t, TRUE)
    <3>1. /\ pc'[w] = "events" /\ UNCHANGED <<products, batches, command>>
          /\ queue'[w] = Rest(queue[w], TRUE) /\ tracked'[w] = t
      BY <1>1, <2>3 DEF StatementFails, Caught, StockInvariant, TypeOK
    <3>2. Rest(queue[w], TRUE) = Rest(queue[w], TRUE) \o <<>>
      BY <1>2, <1>3 DEF Rest
    <3>3. QED
      BY <1>2, <2>1, <3>1, <3>2
  <2>4. QED
    BY <2>1, <2>2, <2>3
<1>10. CASE SendOutOfStockNotification(w)
  <2>1. /\ Handled(w, t, TRUE) /\ UNCHANGED <<products, batches, answers>>
        /\ e.type = "OutOfStock" /\ e.sku \in notified'
    BY <1>10 DEF SendOutOfStockNotification, Handling, dbVars
  <2>2. /\ pc'[w] = "events" /\ command' = command
        /\ queue'[w] = Rest(queue[w], TRUE) \o <<>> /\ tracked'[w].batches = t.batches
    BY <1>7, <2>1
  <2>3. QED
    BY <1>2, <2>1, <2>2
<1>11. QED
  BY <1>2, <1>5, <1>8, <1>9, <1>10
     DEF HandleEvent, RemoveAllocationFromReadModel, Reallocate, Handling

\* An event in the queue of an HTTP thread stays there until it has been handled.
LEMMA EventIsHandled ==
    ASSUME StockInvariant, PlacementInvariant, NEW w \in HttpWorkers, pc[w] = "events", Step(w),
           NEW e \in Event, IsQueued(w, e)
    PROVE  \/ /\ pc'[w] = "events" /\ command'[w] = command[w] /\ IsQueued(w, e)'
           \/ e.type = "Allocated" /\ <<e.line, e.batchref>> \in view' \cup unshown'
           \/ e.type = "OutOfStock" /\ e.sku \in notified'
<1>1. w \in Workers /\ queue[w] \in Seq(Event)
  BY DEF Workers, StockInvariant, TypeOK
<1>2. PICK j \in DOMAIN queue[w] : queue[w][j] = e
  BY DEF IsQueued
<1>3. HandleEvent(w)
  <2>1. ~Finish(w)
    BY <1>1, <1>2 DEF Finish
  <2>2. ~HandleCommand(w)
    BY DEF HandleCommand, LoadForAddBatch, LoadForAllocate, LoadForChangeBatchQuantity,
           LoadFails, RejectUnknownSku, RejectUnknownReference, Execute, ExecuteFails
  <2>3. QED
    BY <2>1, <2>2 DEF Step
<1>4. /\ pc'[w] = "events" /\ queue[w] # <<>> /\ command' = command
      /\ \E last \in BOOLEAN :
            /\ queue'[w] = Rest(queue[w], last) \o <<>>
            /\ last => \/ /\ Head(queue[w]).type = "Allocated"
                          /\ <<Head(queue[w]).line, Head(queue[w]).batchref>> \in view' \cup unshown'
                       \/ /\ Head(queue[w]).type = "OutOfStock"
                          /\ Head(queue[w]).sku \in notified'
  BY <1>3, HttpHandler
<1>5. PICK last \in BOOLEAN :
          /\ queue'[w] = Rest(queue[w], last) \o <<>>
          /\ last => \/ /\ Head(queue[w]).type = "Allocated"
                        /\ <<Head(queue[w]).line, Head(queue[w]).batchref>> \in view' \cup unshown'
                     \/ /\ Head(queue[w]).type = "OutOfStock"
                        /\ Head(queue[w]).sku \in notified'
  BY <1>4
<1>6. CASE last /\ j = 1
  <2>1. Head(queue[w]) = e
    BY <1>1, <1>2, <1>4, <1>6
  <2>2. QED
    BY <1>5, <1>6, <2>1
<1>7. CASE last => j > 1
  <2>1. <<>> \in Seq(Event)
    OBVIOUS
  <2>2. \A x \in DOMAIN queue[w] : (last => x > 1) =>
            \E i \in DOMAIN (Rest(queue[w], last) \o <<>>) :
                (Rest(queue[w], last) \o <<>>)[i] = queue[w][x]
    BY <1>1, <1>4, <2>1, QueueMembers
  <2>3. \E i \in DOMAIN (Rest(queue[w], last) \o <<>>) :
            (Rest(queue[w], last) \o <<>>)[i] = queue[w][j]
    BY <1>2, <1>7, <2>2
  <2>4. IsQueued(w, e)'
    BY <1>2, <1>5, <2>3 DEF IsQueued
  <2>5. QED
    BY <1>4, <2>4
<1>8. j = 1 \/ j > 1
  BY <1>1
<1>9. QED
  BY <1>6, <1>7, <1>8

-----------------------------------------------------------------------------
(* The read model comes to show what is in the stock *)

\* Line l is in batch r, as it is stored or as some thread has it in memory.
IsPresent(r, l) ==
    Holds(r, l) \/ \E w \in Workers : tracked[w] # NoProduct /\ HasLine(tracked[w], r, l)

LEMMA ShownStays ==
    ASSUME StockInvariant, PlacementInvariant, NEW w \in Workers,
           Step(w) \/ \E c \in Commands : Receive(w, c),
           NEW l \in OrderLines, NEW r \in Refs, IsShown(l, r)
    PROVE  IsShown(l, r)'
<1>1. CASE <<l, r>> \in view \cup unshown
  BY <1>1, ReportsStay DEF IsShown
<1>2. CASE \E v \in HttpWorkers : pc[v] = "events" /\ IsQueued(v, Allocated(l, r))
  <2>1. PICK v \in HttpWorkers : pc[v] = "events" /\ IsQueued(v, Allocated(l, r))
    BY <1>2
  <2>2. v \in Workers
    BY DEF Workers
  <2>3. CASE v # w
    <3>1. Rests(v)
      BY <2>2, <2>3, OthersRest
    <3>2. pc'[v] = "events" /\ IsQueued(v, Allocated(l, r))'
      BY <2>1, <3>1 DEF Rests, IsQueued
    <3>3. QED
      BY <3>2 DEF IsShown
  <2>4. CASE v = w
    <3>1. Step(w)
      BY <2>1, <2>4 DEF Receive
    <3>2. /\ Allocated(l, r) \in Event /\ Allocated(l, r).type = "Allocated"
          /\ Allocated(l, r).line = l /\ Allocated(l, r).batchref = r
      BY DEF Allocated, Event
    <3>3. \/ pc'[w] = "events" /\ IsQueued(w, Allocated(l, r))'
          \/ <<l, r>> \in view' \cup unshown'
      BY <2>1, <2>4, <3>1, <3>2, EventIsHandled
    <3>4. QED
      BY <2>1, <2>4, <3>3 DEF IsShown
  <2>5. QED
    BY <2>3, <2>4
<1>3. QED
  BY <1>1, <1>2 DEF IsShown

\* Only the command of an HTTP thread brings a line somewhere new, and it queues the event.
LEMMA AppearsWithItsEvent ==
    ASSUME NoQuantityChanges, StockInvariant, PlacementInvariant, NEW w \in Workers,
           Step(w) \/ \E c \in Commands : Receive(w, c),
           NEW l \in OrderLines, NEW r \in Refs, IsPresent(r, l)'
    PROVE  IsPresent(r, l) \/ IsShown(l, r)'
<1>1. /\ pc[w] # "idle" => w \in HttpWorkers
      /\ \A v \in Workers \ {w} : tracked'[v] = tracked[v]
  <2>1. pc[w] # "idle" => command[w] \in Commands
    BY DEF StockInvariant, TypeOK
  <2>2. QED
    BY <2>1, OthersRest DEF NoQuantityChanges, PlacementInvariant, Workers, Rests
<1>2. ASSUME ~IsPresent(r, l), UNCHANGED batches
      PROVE  tracked'[w] # NoProduct /\ HasLine(tracked'[w], r, l)
  <2>1. ~Holds(r, l)'
    BY <1>2 DEF IsPresent, Holds
  <2>2. PICK v \in Workers : tracked'[v] # NoProduct /\ HasLine(tracked'[v], r, l)
    BY <2>1 DEF IsPresent, HasLine, Contains
  <2>3. v = w
    BY <1>1, <1>2, <2>2 DEF IsPresent
  <2>4. QED
    BY <2>2, <2>3
<1>3. CASE \E c \in Commands : Receive(w, c)
  BY <1>2, <1>3 DEF Receive, dbVars, uowVars, IsPresent
<1>4. CASE \E status : Answered(w, status)
  <2>1. tracked'[w] = NoProduct /\ UNCHANGED batches
    BY <1>4 DEF Answered, CloseUnitOfWork, dbVars, StockInvariant, TypeOK
  <2>2. QED
    BY <1>2, <2>1
<1>5. CASE LoadForAddBatch(w) \/ LoadForAllocate(w) \/ LoadForChangeBatchQuantity(w)
  <2>1. PICK p \in Aggregate : Track(w, p) /\ IsCurrent(p)
    BY <1>5, LoadFacts
  <2>2. tracked'[w] = p /\ UNCHANGED batches
    BY <2>1 DEF Track, dbVars, StockInvariant, TypeOK
  <2>3. HasLine(p, r, l) => Holds(r, l)
    BY <2>1 DEF IsCurrent, HasLine, Contains, Holds
  <2>4. QED
    BY <1>2, <2>2, <2>3 DEF IsPresent
<1>6. CASE Execute(w)
  <2>1. PICK p \in Outcomes(w) :
            /\ Commit(w, p)
            /\ pc' = [pc EXCEPT ![w] = "events"]
            /\ queue' = [queue EXCEPT ![w] = p.messages]
            /\ tracked' = [tracked EXCEPT ![w] = ClearMessages(SetModified(p, FALSE))]
    BY <1>6 DEF Execute
  <2>2. /\ pc[w] = "execute" /\ pc'[w] = "events" /\ queue'[w] = p.messages
        /\ tracked'[w] = ClearMessages(SetModified(p, FALSE)) /\ tracked[w] # NoProduct
    BY <1>6, <2>1 DEF Execute, StockInvariant, TypeOK
  <2>3. /\ p \in Aggregate /\ \A x \in p.modifiedRefs : Contains(p, x)
        /\ \A x \in Refs : \A m \in OrderLines : HasLine(p, x, m) =>
              \/ HasLine(tracked[w], x, m)
              \/ p.messages = <<Allocated(m, x)>>
    BY <2>1, <2>2, OutcomesHistory
  <2>4. /\ Holds(r, l)' => Holds(r, l) \/ HasLine(p, r, l)
        /\ HasLine(tracked'[w], r, l) => HasLine(p, r, l)
    <3>1. Holds(r, l)' => Holds(r, l) \/ HasLine(p, r, l)
      BY <2>1, <2>3, CommitHistory
    <3>2. tracked'[w].batches = p.batches
      BY <2>2, <2>3 DEF ClearMessages, SetModified, Aggregate
    <3>3. QED
      BY <3>1, <3>2 DEF HasLine, Contains
  <2>5. ASSUME ~IsPresent(r, l)
        PROVE  HasLine(p, r, l)
    <3>1. CASE Holds(r, l)'
      BY <2>4, <2>5, <3>1 DEF IsPresent
    <3>2. CASE ~Holds(r, l)'
      <4>1. PICK v \in Workers : tracked'[v] # NoProduct /\ HasLine(tracked'[v], r, l)
        BY <3>2 DEF IsPresent, HasLine, Contains
      <4>2. v = w
        BY <1>1, <2>5, <4>1 DEF IsPresent
      <4>3. QED
        BY <2>4, <4>1, <4>2
    <3>3. QED
      BY <3>1, <3>2
  <2>6. ASSUME p.messages = <<Allocated(l, r)>>
        PROVE  IsShown(l, r)'
    <3>1. IsQueued(w, Allocated(l, r))'
      BY <2>2, <2>6 DEF IsQueued
    <3>2. QED
      BY <1>1, <2>2, <3>1 DEF IsShown
  <2>7. QED
    BY <2>2, <2>3, <2>5, <2>6 DEF IsPresent
<1>7. CASE HandleEvent(w)
  <2>1. pc[w] # "idle" /\ tracked[w] # NoProduct
    BY <1>7 DEF HandleEvent, PublishAllocatedEvent, AddAllocationToReadModel, Reallocate, Handling,
         RemoveAllocationFromReadModel, CommitReallocation, SendOutOfStockNotification,
         StockInvariant, TypeOK
  <2>2. tracked'[w].batches = tracked[w].batches /\ UNCHANGED batches
    BY <1>1, <1>7, <2>1, HttpHandler
  <2>3. QED
    BY <1>2, <2>1, <2>2 DEF IsPresent, HasLine, Contains
<1>8. QED
  BY <1>3, <1>4, <1>5, <1>6, <1>7
     DEF Step, HandleCommand, LoadFails, RejectUnknownSku, RejectUnknownReference, ExecuteFails,
             Finish

\* As long as no batch shrinks and nothing crashes, every allocation is in the read model, in the
\* queue of the thread that will add it, or among the rows whose INSERT the database refused.
THEOREM AllocationsAreShown ==
    ASSUME NoQuantityChanges
    PROVE  Spec => []ReadModelInvariant
<1>1. Init => ReadModelInvariant
  <2> SUFFICES ASSUME Init PROVE ReadModelInvariant
    OBVIOUS
  <2>1. /\ \A w \in Workers : tracked[w] = NoProduct
        /\ \A r \in Refs : batches[r] = NoBatch
    BY DEF Init
  <2>2. QED
    BY <2>1 DEF ReadModelInvariant, Holds
<1>2. StockInvariant /\ PlacementInvariant /\ ReadModelInvariant /\ [Next]_vars
          => ReadModelInvariant'
  <2> SUFFICES ASSUME StockInvariant, PlacementInvariant, ReadModelInvariant, [Next]_vars,
                      crashes' = 0, NEW r \in Refs, NEW l \in OrderLines, IsPresent(r, l)'
               PROVE  IsShown(l, r)'
    BY DEF ReadModelInvariant, IsPresent
  <2>1. crashes \in Nat /\ (crashes = 0 /\ IsPresent(r, l) => IsShown(l, r))
    BY DEF ReadModelInvariant, IsPresent, StockInvariant, TypeOK
  <2>2. ASSUME NEW w \in Workers, Step(w) \/ \E c \in Commands : Receive(w, c)
        PROVE  IsShown(l, r)'
    <3>1. UNCHANGED crashes
      BY <2>2, StepAnswers DEF Answered, Receive
    <3>2. QED
      BY <2>1, <2>2, <3>1, AppearsWithItsEvent, ShownStays
  <2>3. CASE Crash
    BY <2>1, <2>3 DEF Crash
  <2>4. CASE UNCHANGED vars
    BY <2>1, <2>4 DEF vars, dbVars, outVars, busVars, uowVars, IsPresent, IsShown, Holds, HasLine,
                      Contains, IsQueued
  <2>5. QED
    BY <2>2, <2>3, <2>4, NextIsByThread
<1>3. QED
  BY <1>1, <1>2, StockStaysSound, LinesComeFromCommits, PTL DEF Spec

\* Once no command is in progress the read model shows every allocation, as long as no batch shrinks
\* and nothing crashes, except those whose INSERT the database refused, which nobody repeats: Handle
\* does not return before the queue is empty.
THEOREM ReadModelCatchesUp ==
    ASSUME NoQuantityChanges
    PROVE  Spec => []ReadModelIsComplete
<1>1. ReadModelInvariant => ReadModelIsComplete
  BY DEF ReadModelInvariant, ReadModelIsComplete, Quiescent, IsShown, Workers
<1>2. QED
  BY <1>1, AllocationsAreShown, PTL

-----------------------------------------------------------------------------
(* 202 comes after the allocation can be read, or the shortage was reported *)

\* Each product has a batch: the row of a product is inserted with the one of its first batch.
ProductsHaveBatches ==
    \A s \in Skus : products[s] # NoVersion => \E r \in Refs : batches[r] # NoBatch /\ batches[r].sku = s

LEMMA ProductsKeepBatches ==
    ASSUME StockInvariant, StockInvariant', StockMoves, ProductsHaveBatches
    PROVE  ProductsHaveBatches'
<1>1. CASE UNCHANGED <<products, batches>>
  BY <1>1 DEF ProductsHaveBatches
<1>2. ASSUME NEW w \in Workers, NEW sku \in Skus, NEW r \in Refs, Writes(w, sku, r)
      PROVE  ProductsHaveBatches'
  <2>1. /\ batches[r] = NoBatch \/ batches[r].sku = sku
        /\ batches'[r].sku = sku
        /\ \A x \in Refs \ {r} : batches'[x] = batches[x]
        /\ \A s \in Skus \ {sku} : products'[s] = products[s]
    BY <1>2, WrittenRow DEF Writes
  <2>2. batches'[r] \in Batch
    <3>1. Registers(sku, r) \/ Places(sku, r) \/ ChangesQuantity(sku, r)
      BY <1>2 DEF Writes
    <3>2. batches[r] \in Batch \cup {NoBatch}
      BY DEF StockInvariant, TypeOK
    <3>3. QED
      BY <3>1, <3>2 DEF Registers, Places, ChangesQuantity, Batch
  <2>3. batches'[r] # NoBatch
    BY <2>2, NullAssumption
  <2>4. ASSUME NEW s \in Skus, s # sku, products'[s] # NoVersion
        PROVE  \E x \in Refs : batches'[x] # NoBatch /\ batches'[x].sku = s
    <3>1. PICK x \in Refs : batches[x] # NoBatch /\ batches[x].sku = s
      BY <2>1, <2>4 DEF ProductsHaveBatches
    <3>2. QED
      BY <2>1, <2>4, <3>1
  <2>5. QED
    BY <2>1, <2>3, <2>4 DEF ProductsHaveBatches
<1>3. QED
  BY <1>1, <1>2 DEF StockMoves

\* Only the return of Handle is answered with 202.
LEMMA OnlyFinishConfirms ==
    ASSUME NEW w \in Workers, Step(w), NEW a \in answers', a \notin answers, a.status = "202"
    PROVE  Finish(w) /\ a.command = command[w]
<1>1. ASSUME NEW status, Answered(w, status)
      PROVE  status = "202" /\ a.command = command[w]
  BY <1>1 DEF Answered
<1>2. \A c, exception : Failure(c, exception) # "202"
  BY DEF Failure
<1>3. ~UNCHANGED answers
  OBVIOUS
<1>4. /\ ~LoadFails(w) /\ ~RejectUnknownSku(w) /\ ~RejectUnknownReference(w) /\ ~ExecuteFails(w)
  BY <1>1, <1>2 DEF LoadFails, RejectUnknownSku, RejectUnknownReference, ExecuteFails
<1>5. /\ \A p : ~Track(w, p)
      /\ ~Execute(w)
  BY <1>3 DEF Track, Execute, outVars
<1>6. ~HandleEvent(w)
  BY <1>3 DEF HandleEvent, PublishAllocatedEvent, AddAllocationToReadModel, Reallocate, outVars,
       RemoveAllocationFromReadModel, CommitReallocation, SendOutOfStockNotification
<1>7. Finish(w)
  BY <1>4, <1>5, <1>6
     DEF Step, HandleCommand, LoadForAddBatch, LoadForAllocate, LoadForChangeBatchQuantity
<1>8. QED
  BY <1>1, <1>7 DEF Finish

\* What the client of a thread will find when the thread is done is there, or in its queue.
LEMMA ConfirmationIsDue ==
    ASSUME StockInvariant, PlacementInvariant, ProductsHaveBatches,
           NEW w \in HttpWorkers, WillBeConfirmed(w),
           Step(w) \/ \E c \in Commands : Receive(w, c)
    PROVE  WillBeConfirmed(w)'
<1>0. PICK l : l = command[w].line
  OBVIOUS
<1>1. w \in Workers
  BY DEF Workers
<1>2. PICK n, k, c, s : n = tracked'[w] /\ k = queue'[w] /\ c = command'[w] /\ s = pc'[w]
  OBVIOUS
<1>3. WillBeConfirmed(w)' <=>
          /\ s = "execute" /\ c.type = "Allocate" => \E r \in Refs : Contains(n, r)
          /\ s = "events" /\ c.type = "Allocate" =>
                 \/ IsConfirmed(c.line)'
                 \/ \E i \in DOMAIN k : k[i] = OutOfStock(c.line.sku)
                 \/ \E r \in Refs : \E i \in DOMAIN k : k[i] = Allocated(c.line, r)
  BY <1>2 DEF WillBeConfirmed, IsConfirmed, IsQueued, Contains
<1>4. CASE \/ \E d \in Commands : Receive(w, d)
           \/ \E status : Answered(w, status)
  <2>1. s \in {"load", "idle"}
    BY <1>1, <1>2, <1>4 DEF Receive, Answered, StockInvariant, TypeOK
  <2>2. QED
    BY <1>3, <2>1
<1>5. CASE LoadForAddBatch(w) \/ LoadForAllocate(w) \/ LoadForChangeBatchQuantity(w)
  <2>1. PICK p \in Aggregate :
            /\ Track(w, p) /\ IsCurrent(p)
            /\ command[w].type = "Allocate" => products[p.sku] # NoVersion
    BY <1>1, <1>5, LoadFacts
  <2>2. n = p /\ c = command[w] /\ s = "execute"
    BY <1>1, <1>2, <2>1 DEF Track, StockInvariant, TypeOK
  <2>3. p.sku \in Skus
    BY DEF Aggregate
  <2>4. command[w].type = "Allocate" => \E r \in Refs : Contains(p, r)
    BY <2>1, <2>3 DEF ProductsHaveBatches, IsCurrent, Contains
  <2>5. QED
    BY <1>3, <2>2, <2>4
<1>6. CASE Execute(w)
  <2>1. PICK p \in Outcomes(w) :
            /\ pc' = [pc EXCEPT ![w] = "events"]
            /\ queue' = [queue EXCEPT ![w] = p.messages]
    BY <1>6 DEF Execute
  <2>2. /\ pc[w] = "execute" /\ s = "events" /\ k = p.messages /\ c = command[w]
    BY <1>1, <1>2, <1>6, <2>1 DEF Execute, StockInvariant, TypeOK
  <2>3. /\ tracked[w] \in Aggregate /\ c \in Commands /\ tracked[w].messages = <<>>
    BY <1>1, <2>2, NullAssumption DEF StockInvariant, TypeOK, PlacementInvariant, KnowsPlacedLines
  <2>4. ASSUME c.type = "Allocate"
        PROVE  \/ \E i \in DOMAIN k : k[i] = OutOfStock(c.line.sku)
               \/ \E r \in Refs : \E i \in DOMAIN k : k[i] = Allocated(c.line, r)
    <3>1. /\ c.line \in OrderLines /\ p \in AllocateOutcomes(tracked[w], c.line)
          /\ \E r \in Refs : Contains(tracked[w], r)
      BY <2>2, <2>3, <2>4, CommandFields DEF Outcomes, WillBeConfirmed
    <3>2. \/ p.messages = Append(tracked[w].messages, OutOfStock(c.line.sku))
          \/ \E r \in Refs : LineAllocated(tracked[w], p, c.line, r)
      BY <2>3, <3>1, AllocateAnnounces
    <3>3. \A e : Append(tracked[w].messages, e) = <<e>>
      BY <2>3
    <3>4. \/ k = <<OutOfStock(c.line.sku)>>
          \/ \E r \in Refs : k = <<Allocated(c.line, r)>>
      BY <2>2, <3>2, <3>3 DEF LineAllocated
    <3>5. QED
      BY <3>4
  <2>5. QED
    BY <1>3, <2>2, <2>4
<1>7. CASE HandleEvent(w)
  <2>1. pc[w] = "events" /\ s = "events" /\ c = command[w]
    BY <1>2, <1>7, HttpHandler
  <2>2. CASE c.type # "Allocate"
    BY <1>3, <2>1, <2>2
  <2>3. CASE c.type = "Allocate"
    <3>1. l \in OrderLines /\ l.sku \in Skus /\ Step(w)
      BY <1>0, <1>1, <1>7, <2>1, <2>3, CommandFields, OrderLinesAssumption
         DEF StockInvariant, TypeOK, Step
    <3>2. ASSUME IsConfirmed(l)
          PROVE  IsConfirmed(l)'
      BY <1>1, <3>1, <3>2, ReportsStay DEF IsConfirmed
    <3>3. ASSUME IsQueued(w, OutOfStock(l.sku))
          PROVE  IsQueued(w, OutOfStock(l.sku))' \/ IsConfirmed(l)'
      <4>1. /\ OutOfStock(l.sku) \in Event /\ OutOfStock(l.sku).type = "OutOfStock"
            /\ OutOfStock(l.sku).sku = l.sku
        BY <3>1 DEF OutOfStock, Event
      <4>2. IsQueued(w, OutOfStock(l.sku))' \/ l.sku \in notified'
        BY <2>1, <3>1, <3>3, <4>1, EventIsHandled
      <4>3. QED
        BY <4>2 DEF IsConfirmed
    <3>4. ASSUME NEW r \in Refs, IsQueued(w, Allocated(l, r))
          PROVE  IsQueued(w, Allocated(l, r))' \/ IsConfirmed(l)'
      <4>1. /\ Allocated(l, r) \in Event /\ Allocated(l, r).type = "Allocated"
            /\ Allocated(l, r).line = l /\ Allocated(l, r).batchref = r
        BY <3>1 DEF Allocated, Event
      <4>2. IsQueued(w, Allocated(l, r))' \/ <<l, r>> \in view' \cup unshown'
        BY <2>1, <3>1, <3>4, <4>1, EventIsHandled
      <4>3. QED
        BY <4>2 DEF IsConfirmed
    <3>5. \/ IsConfirmed(l)'
          \/ IsQueued(w, OutOfStock(l.sku))'
          \/ \E r \in Refs : IsQueued(w, Allocated(l, r))'
      BY <1>0, <2>1, <2>3, <3>2, <3>3, <3>4 DEF WillBeConfirmed
    <3>6. QED
      BY <1>0, <1>2, <1>3, <2>1, <3>5 DEF IsQueued, IsConfirmed
  <2>4. QED
    BY <2>2, <2>3
<1>8. QED
  BY <1>4, <1>5, <1>6, <1>7
     DEF Step, HandleCommand, LoadFails, RejectUnknownSku, RejectUnknownReference, ExecuteFails,
             Finish

LEMMA ConfirmationIsByThread ==
    ConfirmationInvariant <=>
        /\ ProductsHaveBatches
        /\ \A w \in HttpWorkers : WillBeConfirmed(w)
        /\ \A a \in answers : a.command.type = "Allocate" /\ a.status = "202" =>
               IsConfirmed(a.command.line)
BY DEF ConfirmationInvariant, ProductsHaveBatches

LEMMA StepConfirms ==
    ASSUME StockInvariant, PlacementInvariant, ConfirmationInvariant, NEW w \in Workers,
           Step(w) \/ \E c \in Commands : Receive(w, c)
    PROVE  /\ \A v \in HttpWorkers : WillBeConfirmed(v)'
           /\ \A a \in answers' : a.command.type = "Allocate" /\ a.status = "202" =>
                  IsConfirmed(a.command.line)'
<1>1. \A l : IsConfirmed(l) => IsConfirmed(l)'
  BY ReportsStay DEF IsConfirmed
<1>2. ASSUME NEW v \in HttpWorkers, v # w
      PROVE  WillBeConfirmed(v)'
  <2>1. Rests(v) /\ WillBeConfirmed(v)
    BY <1>2, OthersRest DEF Workers, ConfirmationInvariant
  <2>2. QED
    BY <1>1, <2>1 DEF WillBeConfirmed, IsQueued, Rests, Contains
<1>3. w \in HttpWorkers => WillBeConfirmed(w)'
  BY ConfirmationIsDue, ConfirmationIsByThread
<1>4. ASSUME NEW a \in answers', a.command.type = "Allocate", a.status = "202"
      PROVE  IsConfirmed(a.command.line)'
  <2>1. CASE a \in answers
    BY <1>1, <1>4, <2>1 DEF ConfirmationInvariant
  <2>2. CASE a \notin answers
    <3>1. Step(w)
      BY <1>4, <2>2 DEF Receive
    <3>2. Finish(w) /\ a.command = command[w]
      BY <1>4, <2>2, <3>1, OnlyFinishConfirms
    <3>3. pc[w] = "events" /\ queue[w] = <<>>
      BY <3>2 DEF Finish
    <3>4. w \in HttpWorkers
      BY <1>4, <3>2, <3>3 DEF PlacementInvariant, Workers
    <3>5. IsConfirmed(a.command.line)
      BY <1>4, <3>2, <3>3, <3>4 DEF ConfirmationInvariant, WillBeConfirmed, IsQueued
    <3>6. QED
      BY <1>1, <3>5
  <2>3. QED
    BY <2>1, <2>2
<1>5. QED
  BY <1>2, <1>3, <1>4

\* An /allocate command that is executed finds a batch, and the event that says what became of its
\* line is handled before the command is answered: with a mail, a row, or a row the database refused.
THEOREM ConfirmationsAreDue ==
    ASSUME OneSkuPerReference
    PROVE  Spec => []ConfirmationInvariant
<1>1. Init => ConfirmationInvariant
  BY DEF Init, ConfirmationInvariant, WillBeConfirmed, Workers
<1>2. StockInvariant /\ StockInvariant' /\ LockingInvariant /\ PlacementInvariant
          /\ ConfirmationInvariant /\ [Next]_vars => ConfirmationInvariant'
  <2> SUFFICES ASSUME StockInvariant, StockInvariant', LockingInvariant, PlacementInvariant,
                      ConfirmationInvariant, [Next]_vars
               PROVE  ConfirmationInvariant'
    OBVIOUS
  <2>1. ProductsHaveBatches'
    BY NextGuarded, ProductsKeepBatches, ConfirmationIsByThread
  <2>2. /\ \A v \in HttpWorkers : WillBeConfirmed(v)'
        /\ \A a \in answers' : a.command.type = "Allocate" /\ a.status = "202" =>
               IsConfirmed(a.command.line)'
    <3>1. ASSUME NEW w \in Workers, Step(w) \/ \E c \in Commands : Receive(w, c)
          PROVE  /\ \A v \in HttpWorkers : WillBeConfirmed(v)'
                 /\ \A a \in answers' : a.command.type = "Allocate" /\ a.status = "202" =>
                        IsConfirmed(a.command.line)'
      BY <3>1, StepConfirms
    <3>2. CASE Crash
      BY <3>2 DEF Crash, dbVars, ConfirmationInvariant, WillBeConfirmed, IsConfirmed, Workers
    <3>3. CASE UNCHANGED vars
      BY <3>3 DEF vars, dbVars, outVars, busVars, uowVars, ConfirmationInvariant, WillBeConfirmed,
                  IsConfirmed, IsQueued, Contains
    <3>4. QED
      BY <3>1, <3>2, <3>3, NextIsByThread
  <2>3. QED
    BY <2>1, <2>2 DEF ConfirmationInvariant, ProductsHaveBatches
<1>3. QED
  BY <1>1, <1>2, StockStaysSound, LockingHolds, LinesComeFromCommits, PTL DEF Spec

\* Once /allocate was answered with 202, GET /allocations shows the line or its product was reported
\* out of stock, whatever crashes or is lost afterwards: nothing is acknowledged that is only in a
\* queue.  The one exception is a line whose row the database refused when it was to be added:
\* MessageBus::HandleEvent logs the exception and Handle returns.
THEOREM ConfirmedStaysReadable ==
    ASSUME OneSkuPerReference
    PROVE  Spec => []ConfirmedIsReadable
<1>1. ConfirmationInvariant => ConfirmedIsReadable
  <2> SUFFICES ASSUME ConfirmationInvariant, NEW l \in OrderLines, AnsweredAllocate(l, {"202"})
               PROVE  \/ l.sku \in notified
                      \/ \E r \in Refs :
                             <<l.sku, r>> \in Allocations(l.reference) \/ <<l, r>> \in unshown
    BY DEF ConfirmedIsReadable
  <2>1. IsConfirmed(l)
    BY DEF ConfirmationInvariant, AnsweredAllocate
  <2>2. ASSUME NEW r \in Refs, <<l, r>> \in view
        PROVE  <<l.sku, r>> \in Allocations(l.reference)
    BY <2>2 DEF Allocations
  <2>3. QED
    BY <2>1, <2>2 DEF IsConfirmed
<1>2. QED
  BY <1>1, ConfirmationsAreDue, PTL

-----------------------------------------------------------------------------
(* No line is reserved twice *)

\* Where the events of the bus's queue come from.
LEMMA QueueOrder ==
    ASSUME NEW q \in Seq(Event), q # <<>>, NEW last \in BOOLEAN, NEW m \in Seq(Event)
    PROVE  \A i \in DOMAIN (Rest(q, last) \o m) :
              \/ \E j \in DOMAIN m : (Rest(q, last) \o m)[i] = m[j]
              \/ /\ i + (IF last THEN 1 ELSE 0) \in DOMAIN q
                 /\ (Rest(q, last) \o m)[i] = q[i + (IF last THEN 1 ELSE 0)]
<1> DEFINE t == Rest(q, last)
           n == IF last THEN 1 ELSE 0
<1>1. t \in Seq(Event) /\ Len(t) = Len(q) - n /\ n \in Nat
  BY DEF Rest
<1>2. \A i \in 1..Len(t) : i + n \in DOMAIN q /\ t[i] = q[i + n]
  <2>1. CASE last
    BY <1>1, <2>1 DEF Rest
  <2>2. CASE ~last
    BY <1>1, <2>2 DEF Rest
  <2>3. QED
    BY <2>1, <2>2
<1> HIDE DEF t, n
<1>3. /\ t \o m \in Seq(Event) /\ Len(t \o m) = Len(t) + Len(m)
      /\ \A i \in 1..Len(t) : (t \o m)[i] = t[i]
      /\ \A i \in (Len(t) + 1)..(Len(t) + Len(m)) : (t \o m)[i] = m[i - Len(t)]
  BY <1>1
<1>4. ASSUME NEW i \in DOMAIN (t \o m)
      PROVE  \/ \E j \in DOMAIN m : (t \o m)[i] = m[j]
             \/ i + n \in DOMAIN q /\ (t \o m)[i] = q[i + n]
  <2>1. i \in 1..(Len(t) + Len(m)) /\ Len(t) \in Nat /\ Len(m) \in Nat
    BY <1>1, <1>3
  <2>2. CASE i \in 1..Len(t)
    BY <1>2, <1>3, <2>2
  <2>3. CASE i \notin 1..Len(t)
    BY <1>3, <2>1, <2>3
  <2>4. QED
    BY <2>2, <2>3
<1>5. QED
  BY <1>4 DEF t, n

\* The events to come move up in the queue, and no line is added to those to reallocate.
LEMMA ReallocationsMoveUp ==
    ASSUME StockInvariant, PlacementInvariant, NEW w \in Workers, HandleEvent(w)
    PROVE  \E n \in {0, 1} :
              /\ pc[w] = "reallocate" => n = 1
              /\ \A i \in DOMAIN queue'[w] : queue'[w][i].type = "Deallocated" =>
                    i \in Nat /\ i + n \in DOMAIN queue[w] /\ queue'[w][i] = queue[w][i + n]
<1> DEFINE t == tracked[w]
<1>1. pc[w] \in {"events", "reallocate"} /\ queue[w] # <<>>
  BY DEF HandleEvent, PublishAllocatedEvent, AddAllocationToReadModel, Reallocate, Handling,
         RemoveAllocationFromReadModel, CommitReallocation, SendOutOfStockNotification,
         StockInvariant, ReallocatesAnEvent
<1>2. /\ t \in Aggregate /\ t # NoProduct /\ queue[w] \in Seq(Event) /\ t.messages \in Seq(Event)
  BY <1>1, HandlingFacts, NullAssumption DEF Aggregate
<1>3. \A i \in DOMAIN t.messages : t.messages[i].type # "Deallocated"
  BY <1>2 DEF PlacementInvariant, KnowsPlacedLines
<1>4. CASE Reallocate(w)
  <2>1. queue'[w] = queue[w] /\ pc[w] = "events"
    BY <1>4 DEF Reallocate, Handling
  <2>2. \A i \in DOMAIN queue[w] : i \in Nat /\ i + 0 = i
    BY <1>2
  <2>3. QED
    BY <2>1, <2>2
<1>5. CASE ~Reallocate(w)
  <2>1. PICK last \in BOOLEAN :
            /\ \/ Handled(w, SetModified(t, FALSE), last)
               \/ Caught(w, t, last)
               \/ Handled(w, t, last)
            /\ pc[w] = "reallocate" => last
    BY <1>5 DEF HandleEvent, PublishAllocatedEvent, AddAllocationToReadModel, Handling,
         RemoveAllocationFromReadModel, CommitReallocation, SendOutOfStockNotification,
         CommitFails, VersionIsOutdated, StatementFails
  <2>2. SetModified(t, FALSE).messages = t.messages
    BY <1>2 DEF SetModified, Aggregate
  <2>3. \/ queue'[w] = Rest(queue[w], last) \o t.messages
        \/ queue'[w] = Rest(queue[w], last)
    <3>1. ASSUME NEW p, Handled(w, p, last), p.messages = t.messages
          PROVE  queue'[w] = Rest(queue[w], last) \o t.messages
      BY <3>1 DEF Handled, StockInvariant, TypeOK
    <3>2. ASSUME Caught(w, t, last)
          PROVE  queue'[w] = Rest(queue[w], last)
      BY <3>2 DEF Caught, StockInvariant, TypeOK
    <3>3. QED
      BY <2>1, <2>2, <3>1, <3>2
  <2>4. Rest(queue[w], last) \in Seq(Event)
    BY <1>1, <1>2 DEF Rest
  <2>5. Rest(queue[w], last) \o <<>> = Rest(queue[w], last) /\ <<>> \in Seq(Event) /\ DOMAIN <<>> = {}
    BY <2>4
  <2>6. PICK m \in Seq(Event) :
            /\ queue'[w] = Rest(queue[w], last) \o m
            /\ \A j \in DOMAIN m : m[j].type # "Deallocated"
    BY <1>2, <1>3, <2>3, <2>5
  <2>7. PICK n \in {0, 1} : n = (IF last THEN 1 ELSE 0)
    OBVIOUS
  <2>8. \A i \in DOMAIN (Rest(queue[w], last) \o m) :
            \/ \E j \in DOMAIN m : (Rest(queue[w], last) \o m)[i] = m[j]
            \/ /\ i + (IF last THEN 1 ELSE 0) \in DOMAIN queue[w]
               /\ (Rest(queue[w], last) \o m)[i] = queue[w][i + (IF last THEN 1 ELSE 0)]
    BY <1>1, <1>2, QueueOrder
  <2>9. \A i \in DOMAIN queue'[w] : queue'[w][i].type = "Deallocated" =>
            i + n \in DOMAIN queue[w] /\ queue'[w][i] = queue[w][i + n]
    BY <2>6, <2>7, <2>8
  <2>10. \A i \in DOMAIN queue'[w] : i \in Nat
    BY <2>4, <2>6
  <2>11. QED
    BY <2>1, <2>7, <2>9, <2>10
<1>6. QED
  BY <1>4, <1>5

\* A line sent once gets into a batch only when it is in none, and is then not to be reallocated:
\* its own command places it for the first time, or the listener reallocates it.
LEMMA OnlyFreeLinesArrive ==
    ASSUME StockInvariant, LockingInvariant, PlacementInvariant, AttemptInvariant,
           ReallocatesFreeLines,
           NEW w \in Workers, Step(w) \/ \E c \in Commands : Receive(w, c),
           NEW r \in Refs, NEW l \in OrderLines, SentOnce(l), Holds(r, l)', ~Holds(r, l)
    PROVE  /\ \A x \in Refs : ~Holds(x, l)
           /\ \A i \in DOMAIN queue'[Listener] :
                 queue'[Listener][i].type = "Deallocated" => queue'[Listener][i].line # l
<1>1. Guarded(w) /\ (pc[w] # "idle" => command[w] \in Commands)
  BY LockingIsByThread DEF StockInvariant, TypeOK
<1>2. /\ \A status : ~Answered(w, status)
      /\ \A p : ~Track(w, p)
      /\ \A c \in Commands : ~Receive(w, c)
      /\ \A p, last : ~VersionIsOutdated(w, p, last) /\ ~StatementFails(w, p, last)
  BY DEF Answered, Track, Receive, VersionIsOutdated, StatementFails, Caught, dbVars, Holds
<1>3. Execute(w) \/ HandleEvent(w)
  BY <1>2 DEF Step, HandleCommand, Finish, LoadFails, RejectUnknownSku, RejectUnknownReference,
         ExecuteFails,
              LoadForAddBatch, LoadForAllocate, LoadForChangeBatchQuantity
<1>4. ASSUME NEW p \in Aggregate, Commit(w, p), \A x \in p.modifiedRefs : Contains(p, x)
      PROVE  p.modified /\ r \in p.modifiedRefs /\ HasLine(p, r, l)
  <2>1. /\ ~p.modified => UNCHANGED <<products, batches, placed>>
        /\ Holds(r, l)' => Holds(r, l) \/ (p.modified /\ r \in p.modifiedRefs /\ HasLine(p, r, l))
    BY <1>4, CommitHistory
  <2>2. QED
    BY <2>1
<1>5. CASE Execute(w)
  <2>1. PICK p \in Outcomes(w) : Commit(w, p)
    BY <1>5 DEF Execute
  <2>3. pc[w] = "execute"
    BY <1>5 DEF Execute
  <2>4. /\ p \in Aggregate /\ \A x \in p.modifiedRefs : Contains(p, x)
        /\ \A x \in Refs : \A m \in OrderLines : HasLine(p, x, m) =>
              \/ HasLine(tracked[w], x, m)
              \/ command[w].type = "Allocate" /\ m = command[w].line
    BY <2>1, <2>3, OutcomesHistory
  <2>5. p.modified /\ HasLine(p, r, l)
    BY <1>4, <2>1, <2>4
  <2>6. IsCurrent(tracked[w])
    BY <1>1, <2>1, <2>3, <2>5, ExecuteFacts
  <2>7. ~HasLine(tracked[w], r, l)
    BY <2>6 DEF IsCurrent, HasLine, Contains, Holds
  <2>8. command[w].type = "Allocate" /\ l = command[w].line /\ command[w] \in Commands
    BY <1>1, <2>3, <2>4, <2>5, <2>7
  <2>9. ~WasPlaced(l)
    <3>1. IsOneAttempt(command[w])
      BY <2>8 DEF SentOnce, AttemptInvariant
    <3>2. QED
      BY <2>3, <2>8, <3>1 DEF IsOneAttempt
  <2>10. w # Listener /\ queue'[Listener] = queue[Listener] /\ Listener \in Workers
    <3>1. w # Listener
      BY <2>3, <2>8 DEF PlacementInvariant
    <3>2. Listener \in Workers
      BY DEF Workers
    <3>3. Rests(Listener)
      BY <1>5, <3>1, <3>2, OthersRest DEF Step, HandleCommand
    <3>4. QED
      BY <3>1, <3>2, <3>3 DEF Rests
  <2>11. \A x \in Refs : ~Holds(x, l)
    BY <2>9 DEF PlacementInvariant, WasPlaced
  <2>12. \A i \in DOMAIN queue[Listener] :
             queue[Listener][i].type = "Deallocated" => queue[Listener][i].line # l
    BY <2>9, <2>10 DEF PlacementInvariant, KnowsPlacedLines
  <2>13. QED
    BY <2>10, <2>11, <2>12
<1>6. CASE HandleEvent(w)
  <2> DEFINE t == tracked[w]
  <2>1. Commit(w, t)
    BY <1>2, <1>6 DEF HandleEvent, PublishAllocatedEvent, AddAllocationToReadModel, Reallocate,
         RemoveAllocationFromReadModel, CommitReallocation, SendOutOfStockNotification, CommitFails,
         dbVars, Holds
  <2>2. pc[w] \in {"events", "reallocate"}
    BY <1>6 DEF HandleEvent, PublishAllocatedEvent, AddAllocationToReadModel, Reallocate, Handling,
         RemoveAllocationFromReadModel, CommitReallocation, SendOutOfStockNotification
  <2>3. t \in Aggregate /\ \A x \in t.modifiedRefs : Contains(t, x)
    BY <2>2, NullAssumption DEF StockInvariant, TypeOK, PlacementInvariant, KnowsPlacedLines
  <2>4. t.modified /\ r \in t.modifiedRefs /\ HasLine(t, r, l) /\ CanCommit(w, t)
    BY <1>4, <2>1, <2>3 DEF Commit
  <2>5. w = Listener /\ pc[w] = "reallocate"
    BY <1>1, <2>2, <2>4 DEF Guarded, ReallocatesNothing, ReallocatesUnderTheVersion, Workers
  <2>6. /\ Head(queue[w]).type = "Deallocated" /\ PlacesOneLine(t, Head(queue[w]).line)
    BY <1>1, <2>4, <2>5 DEF Guarded, ReallocatesUnderTheVersion
  <2>7. queue[w] # <<>> /\ queue[w] \in Seq(Event)
    BY <2>5 DEF StockInvariant, TypeOK, ReallocatesAnEvent
  <2>8. 1 \in DOMAIN queue[w] /\ queue[w][1] = Head(queue[w])
    BY <2>7
  <2>9. l = Head(queue[w]).line
    <3>1. PICK x \in t.modifiedRefs :
              /\ batches[x] # NoBatch
              /\ CanAllocate(batches[x], Head(queue[w]).line)
              /\ t.batches[x] = AllocateLine(batches[x], Head(queue[w]).line)
              /\ \A y \in t.modifiedRefs \ {x} : t.batches[y] = batches[y]
      BY <2>6 DEF PlacesOneLine
    <3>2. r = x
      BY <2>3, <2>4, <3>1 DEF HasLine, Contains, Holds
    <3>3. batches[r] \in Batch
      BY <3>1, <3>2 DEF StockInvariant, TypeOK
    <3>4. t.batches[r].allocations = batches[r].allocations \cup {Head(queue[w]).line}
      BY <3>1, <3>2, <3>3 DEF AllocateLine, Batch
    <3>5. QED
      BY <2>4, <3>1, <3>2, <3>4 DEF HasLine, Holds
  <2>10. \A x \in Refs : ~Holds(x, l)
    BY <2>5, <2>6, <2>8, <2>9 DEF ReallocatesFreeLines
  <2>11. \A i \in DOMAIN queue'[w] : queue'[w][i].type = "Deallocated" =>
             i \in Nat /\ i + 1 \in DOMAIN queue[w] /\ queue'[w][i] = queue[w][i + 1]
    BY <1>6, <2>5, ReallocationsMoveUp
  <2>12. ASSUME NEW i \in DOMAIN queue'[w], queue'[w][i].type = "Deallocated",
                queue'[w][i].line = l
         PROVE  FALSE
    <3>1. i \in Nat /\ i + 1 \in DOMAIN queue[w] /\ queue'[w][i] = queue[w][i + 1]
      BY <2>11, <2>12
    <3>2. queue[w][i + 1] = queue[w][1]
      <4>1. queue[w][i + 1] \in Event /\ queue[w][1] \in Event
        BY <2>7, <2>8, <3>1
      <4>2. \A e \in Event : e.type = "Deallocated" => e = [type |-> "Deallocated", line |-> e.line]
        BY DEF Event
      <4>3. QED
        BY <2>6, <2>8, <2>9, <2>12, <3>1, <4>1, <4>2
    <3>3. i + 1 = 1
      <4>1. queue[w][1].type = "Deallocated" /\ queue[w][1].line = l
        BY <2>6, <2>8, <2>9
      <4>2. SentOnce(queue[w][1].line)
        BY <4>1
      <4>3. QED
        BY <2>5, <2>8, <3>1, <3>2, <4>1, <4>2 DEF ReallocatesFreeLines
    <3>4. i = 0 /\ i \in DOMAIN queue'[w]
      BY <2>12, <3>1, <3>3
    <3>5. queue'[w] \in Seq(Event)
      <4>1. StockInvariant'
        BY <1>6, EventSound
      <4>2. QED
        BY <4>1 DEF StockInvariant, TypeOK
    <3>6. QED
      BY <3>4, <3>5
  <2>13. QED
    BY <2>5, <2>10, <2>12
<1>7. QED
  BY <1>3, <1>5, <1>6

\* The lines that a shrunken batch loses were in no other batch, and are announced once each.
LEMMA DeallocationFreesLines ==
    ASSUME StockInvariant, LockingInvariant, PlacementInvariant, OneBatchPerLine,
           Execute(Listener)
    PROVE  ReallocatesFreeLines'
<1> DEFINE t == tracked[Listener]
           ref == command[Listener].ref
           qty == command[Listener].qty
<1>1. /\ Listener \in Workers /\ Guarded(Listener) /\ pc[Listener] = "execute"
      /\ command[Listener].type = "ChangeBatchQuantity"
  <2>1. Listener \in Workers /\ pc[Listener] = "execute"
    BY DEF Workers, Execute
  <2>2. QED
    BY <2>1, LockingIsByThread DEF PlacementInvariant
<1>2. PICK p \in Outcomes(Listener) :
          /\ Commit(Listener, p)
          /\ queue' = [queue EXCEPT ![Listener] = p.messages]
  BY DEF Execute
<1>3. /\ t \in Aggregate /\ t.messages = <<>> /\ t.modifiedRefs = {}
      /\ command[Listener] \in Commands /\ p \in Aggregate /\ (p.modified => IsCurrent(t))
  BY <1>1, <1>2, ExecuteFacts
<1>4. p.modified
  BY <1>1, <1>2, ChangeQuantityWrites
<1>5. /\ ref \in Refs /\ qty \in Quantities /\ Contains(t, ref)
      /\ p \in ChangeQuantityOutcomes(t, ref, qty)
  BY <1>1, <1>2, <1>3, CommandFields DEF Outcomes, StockInvariant, WorksOnItsProduct
<1>6. queue'[Listener] = p.messages
  BY <1>1, <1>2 DEF StockInvariant, TypeOK
<1> HIDE DEF t, ref, qty
<1>7. PICK s \in Seq(t.batches[ref].allocations) : LinesDeallocated(t, p, ref, s)
  BY <1>3, <1>5, ChangeQuantityAnnounces
<1>8. p.modifiedRefs = {ref}
  <2>1. QuantityChanged(t, p, ref, qty)
    BY <1>3, <1>5, ChangeQuantityEffects
  <2>2. QED
    BY <1>3, <2>1 DEF QuantityChanged
<1>9. \A x \in Refs : batches'[x] = IF x = ref THEN p.batches[ref] ELSE batches[x]
  <2>1. \A x \in Refs : batches'[x] = IF x \in p.modifiedRefs THEN p.batches[x] ELSE batches[x]
    BY <1>1, <1>2, <1>3, <1>4, CommitEffects
  <2>2. QED
    BY <1>5, <1>8, <2>1
<1>10. t.batches[ref] = batches[ref] /\ batches[ref] # NoBatch
  BY <1>3, <1>4, <1>5 DEF IsCurrent, Contains
<1>11. ASSUME NEW l \in t.batches[ref].allocations
       PROVE  /\ l \in OrderLines
              /\ SentOnce(l) => \A x \in Refs \ {ref} : ~Holds(x, l)
  <2>1. l \in OrderLines
    BY <1>5, <1>10 DEF StockInvariant, TypeOK, Batch
  <2>2. Holds(ref, l)
    BY <1>10 DEF Holds
  <2>3. QED
    BY <1>5, <2>1, <2>2 DEF OneBatchPerLine
<1>12. ASSUME NEW i \in DOMAIN s, SentOnce(s[i]), NEW x \in Refs
       PROVE  ~Holds(x, s[i])'
  <2>1. s[i] \in t.batches[ref].allocations
    OBVIOUS
  <2>2. CASE x = ref
    <3>1. s[i] \notin p.batches[ref].allocations
      BY <1>7 DEF LinesDeallocated
    <3>2. QED
      BY <1>9, <2>2, <3>1 DEF Holds
  <2>3. CASE x # ref
    BY <1>9, <1>11, <1>12, <2>1, <2>3 DEF Holds
  <2>4. QED
    BY <2>2, <2>3
<1>13. \A i \in DOMAIN p.messages : i \in DOMAIN s /\ p.messages[i] = Deallocated(s[i])
  <2> DEFINE m == [j \in 1..Len(s) |-> Deallocated(s[j])]
  <2>1. p.messages = <<>> \o m
    BY <1>3, <1>7 DEF LinesDeallocated
  <2>2. Len(s) \in Nat /\ DOMAIN s = 1..Len(s)
        /\ m \in Seq({Deallocated(l) : l \in t.batches[ref].allocations})
    OBVIOUS
  <2>3. p.messages = m
    BY <2>1, <2>2
  <2>4. QED
    BY <2>2, <2>3
<1>14. \A l : Deallocated(l).line = l
  BY DEF Deallocated
<1>15. ASSUME NEW i \in DOMAIN p.messages, SentOnce(p.messages[i].line)
       PROVE  /\ \A x \in Refs : ~Holds(x, p.messages[i].line)'
              /\ \A j \in DOMAIN p.messages : p.messages[j] = p.messages[i] => j = i
  <2>1. i \in DOMAIN s /\ p.messages[i].line = s[i]
    BY <1>13, <1>14
  <2>2. \A x \in Refs : ~Holds(x, p.messages[i].line)'
    BY <1>12, <1>15, <2>1 DEF Holds
  <2>3. \A j \in DOMAIN p.messages : j \in DOMAIN s /\ p.messages[j].line = s[j]
    BY <1>13, <1>14
  <2>4. \A j, k \in DOMAIN s : s[j] = s[k] => j = k
    BY <1>7 DEF LinesDeallocated
  <2>5. QED
    BY <2>1, <2>2, <2>3, <2>4
<1>16. QED
  BY <1>6, <1>15 DEF ReallocatesFreeLines, Holds

\* Lines that nothing places stay free while they are in the listener's queue.
LEMMA FreeLinesStayFree ==
    ASSUME StockInvariant, ReallocatesFreeLines,
           \A r \in Refs : \A l \in OrderLines : SentOnce(l) /\ Holds(r, l)' /\ ~Holds(r, l) =>
               \A i \in DOMAIN queue'[Listener] :
                   queue'[Listener][i].type = "Deallocated" => queue'[Listener][i].line # l,
           NEW n \in {0, 1},
           \A i \in DOMAIN queue'[Listener] : queue'[Listener][i].type = "Deallocated" =>
               /\ i \in Nat /\ i + n \in DOMAIN queue[Listener]
               /\ queue'[Listener][i] = queue[Listener][i + n]
    PROVE  ReallocatesFreeLines'
<1> DEFINE q == queue[Listener]
<1>1. PICK k : k = queue'[Listener]
  OBVIOUS
<1>2. q \in Seq(Event) /\ \A i \in DOMAIN q : q[i] \in Event
  <2>1. Listener \in Workers
    BY DEF Workers
  <2>2. q \in Seq(Event)
    BY <2>1 DEF StockInvariant, TypeOK
  <2>3. QED
    BY <2>2
<1>3. ASSUME NEW i \in DOMAIN k, k[i].type = "Deallocated", SentOnce(k[i].line)
      PROVE  /\ \A r \in Refs : ~Holds(r, k[i].line)'
             /\ \A j \in DOMAIN k : k[j] = k[i] => j = i
  <2>1. /\ i \in Nat /\ i + n \in DOMAIN q /\ k[i] = q[i + n]
        /\ \A j \in DOMAIN k : k[j] = k[i] => j \in Nat /\ j + n \in DOMAIN q /\ k[j] = q[j + n]
    BY <1>1, <1>3
  <2>2. /\ \A r \in Refs : ~Holds(r, k[i].line)
        /\ \A j \in DOMAIN q : q[j] = k[i] => j = i + n
    BY <1>3, <2>1 DEF ReallocatesFreeLines
  <2>3. k[i].line \in OrderLines
    BY <1>2, <1>3, <2>1, EventFields
  <2>4. PICK l \in OrderLines : l = k[i].line
    BY <2>3
  <2>5. \A r \in Refs : ~Holds(r, l)'
    BY <1>1, <1>3, <2>2, <2>4
  <2>6. \A r \in Refs : ~Holds(r, k[i].line)'
    BY <2>4, <2>5 DEF Holds
  <2>7. \A j \in DOMAIN k : k[j] = k[i] => j = i
    BY <2>1, <2>2
  <2>8. QED
    BY <2>6, <2>7
<1>4. QED
  BY <1>1, <1>3 DEF ReallocatesFreeLines, Holds

LEMMA StepKeepsLinesSingle ==
    ASSUME StockInvariant, LockingInvariant, PlacementInvariant, AttemptInvariant,
           SingleBatchInvariant, StockMoves,
           NEW w \in Workers, Step(w) \/ \E c \in Commands : Receive(w, c)
    PROVE  SingleBatchInvariant'
<1>1. ASSUME NEW r \in Refs, NEW l \in OrderLines, SentOnce(l), Holds(r, l)', ~Holds(r, l)
      PROVE  /\ \A x \in Refs : ~Holds(x, l)
             /\ \A i \in DOMAIN queue'[Listener] :
                   queue'[Listener][i].type = "Deallocated" => queue'[Listener][i].line # l
  BY <1>1, OnlyFreeLinesArrive DEF SingleBatchInvariant
<1>2. OneBatchPerLine'
  <2>1. ASSUME NEW l \in OrderLines, SentOnce(l), NEW r \in Refs, NEW x \in Refs,
               Holds(r, l)', Holds(x, l)'
        PROVE  r = x
    <3>1. CASE Holds(r, l) /\ Holds(x, l)
      BY <2>1, <3>1 DEF SingleBatchInvariant, OneBatchPerLine
    <3>2. CASE ~Holds(r, l) \/ ~Holds(x, l)
      <4>1. ~Holds(r, l) /\ ~Holds(x, l)
        BY <1>1, <2>1, <3>2
      <4>2. batches'[r] # batches[r] /\ batches'[x] # batches[x]
        BY <2>1, <4>1 DEF Holds
      <4>3. QED
        BY <4>2 DEF StockMoves, Writes
    <3>3. QED
      BY <3>1, <3>2
  <2>2. QED
    BY <2>1 DEF OneBatchPerLine, Holds
<1>3. ReallocatesFreeLines'
  <2>1. Listener \in Workers
    BY DEF Workers
  <2>2. \A i \in DOMAIN queue[Listener] : i \in Nat /\ i + 0 = i
    BY <2>1 DEF StockInvariant, TypeOK
  <2>3. CASE queue'[Listener] = queue[Listener] \/ queue'[Listener] = <<>>
    <3>1. \A i \in DOMAIN queue'[Listener] :
              /\ i \in Nat /\ i + 0 \in DOMAIN queue[Listener]
              /\ queue'[Listener][i] = queue[Listener][i + 0]
      BY <2>2, <2>3
    <3>2. QED
      BY <1>1, <3>1, FreeLinesStayFree DEF SingleBatchInvariant
  <2>4. CASE w # Listener
    BY <2>1, <2>3, <2>4, OthersRest DEF Rests
  <2>5. CASE w = Listener /\ Execute(w)
    BY <2>5, DeallocationFreesLines DEF SingleBatchInvariant
  <2>6. CASE w = Listener /\ HandleEvent(w)
    <3>1. \E n \in {0, 1} :
              /\ pc[w] = "reallocate" => n = 1
              /\ \A i \in DOMAIN queue'[w] : queue'[w][i].type = "Deallocated" =>
                    i \in Nat /\ i + n \in DOMAIN queue[w] /\ queue'[w][i] = queue[w][i + n]
      BY <2>6, ReallocationsMoveUp
    <3>2. QED
      BY <1>1, <2>6, <3>1, FreeLinesStayFree DEF SingleBatchInvariant
  <2>7. CASE (\E c \in Commands : Receive(w, c)) \/ (\E p : Track(w, p))
    BY <2>3, <2>7 DEF Receive, Track
  <2>8. CASE w = Listener /\ \E status : Answered(w, status)
    BY <2>1, <2>3, <2>8 DEF Answered, StockInvariant, TypeOK
  <2>9. QED
    BY <2>4, <2>5, <2>6, <2>7, <2>8
       DEF Step, HandleCommand, Finish, LoadFails, RejectUnknownSku, RejectUnknownReference,
         ExecuteFails,
           LoadForAddBatch, LoadForAllocate, LoadForChangeBatchQuantity
<1>4. QED
  BY <1>2, <1>3 DEF SingleBatchInvariant

\* A line sent once enters a batch only when it is in none and the listener is not about to
\* reallocate it: its command places it for the first time, or the listener takes its event off
\* the queue.
THEOREM LinesAreHeldOnce ==
    ASSUME OneSkuPerReference
    PROVE  Spec => []SingleBatchInvariant
<1>1. Init => SingleBatchInvariant
  <2> SUFFICES ASSUME Init PROVE SingleBatchInvariant
    OBVIOUS
  <2>1. /\ Listener \in Workers /\ queue[Listener] = <<>>
        /\ \A r \in Refs : batches[r] = NoBatch
    BY DEF Init, Workers
  <2>2. QED
    BY <2>1 DEF SingleBatchInvariant, OneBatchPerLine, ReallocatesFreeLines, Holds
<1>2. StockInvariant /\ LockingInvariant /\ PlacementInvariant /\ AttemptInvariant
          /\ SingleBatchInvariant /\ [Next]_vars => SingleBatchInvariant'
  <2> SUFFICES ASSUME StockInvariant, LockingInvariant, PlacementInvariant, AttemptInvariant,
                      SingleBatchInvariant, [Next]_vars
               PROVE  SingleBatchInvariant'
    OBVIOUS
  <2>1. StockMoves
    BY NextGuarded
  <2>2. ASSUME NEW w \in Workers, Step(w) \/ \E c \in Commands : Receive(w, c)
        PROVE  SingleBatchInvariant'
    BY <2>1, <2>2, StepKeepsLinesSingle
  <2>3. CASE Crash
    <3>1. Listener \in Workers
      BY DEF Workers
    <3>2. queue'[Listener] = <<>> /\ UNCHANGED batches
      BY <2>3, <3>1 DEF Crash, dbVars
    <3>3. QED
      BY <3>2 DEF SingleBatchInvariant, OneBatchPerLine, ReallocatesFreeLines, Holds
  <2>4. CASE UNCHANGED vars
    BY <2>4 DEF vars, dbVars, busVars, SingleBatchInvariant, OneBatchPerLine, ReallocatesFreeLines,
                Holds
  <2>5. QED
    BY <2>2, <2>3, <2>4, NextIsByThread
<1>3. QED
  BY <1>1, <1>2, StockStaysSound, LockingHolds, LinesComeFromCommits, AttemptsAreSingle, PTL DEF Spec

\* The goods of an order line are reserved once, whatever is deallocated and reallocated while other
\* threads allocate, unless its client sends the command twice.
THEOREM OneBatchHoldsEachLine ==
    ASSUME OneSkuPerReference
    PROVE  Spec => []OneBatchPerLine
<1>1. SingleBatchInvariant => OneBatchPerLine
  BY DEF SingleBatchInvariant
<1>2. QED
  BY <1>1, LinesAreHeldOnce, PTL
==============================================================================
