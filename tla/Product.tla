------------------------------ MODULE Product ------------------------------
(***************************************************************************)
(* The domain model: batches of one product and the aggregate that         *)
(* allocates order lines to them (src/src/Domain/Product).  Only           *)
(* operators, no variables: every member function is the value (or, where  *)
(* the code leaves a choice open, the set of values) it leaves behind.     *)
(*                                                                         *)
(* Dates of arrival are numbers; "no date" is a number below every date,   *)
(* because operator< puts batches without a date first.  Quantities are    *)
(* mathematical integers, compared as CanAllocate does, int with size_t;   *)
(* ProductAggregate shows that the machine's arithmetic gives the same.    *)
(***************************************************************************)
EXTENDS Integers, Sequences, FiniteSets, Functions

CONSTANTS
    Skus,        \* product identifiers
    Refs,        \* batch references
    OrderLines,  \* the order lines customers may send: records with a sku and a quantity
    Etas,        \* dates of arrival, the absent date being the smallest
    Quantities,  \* purchased quantities
    Total,       \* Total[S]: the quantities of the set S of lines, added up
    NoBatch,     \* "the product has no batch of this reference"
    NoProduct    \* the null ProductPtr

ASSUME OrderLinesAssumption ==
    \A l \in OrderLines : l.sku \in Skus /\ l.quantity \in Int

ASSUME NumbersAssumption == Etas \subseteq Int /\ Quantities \subseteq Int

\* What pins Total down on finite sets of lines without a recursive definition.
ASSUME TotalAssumption ==
    /\ Total \in [SUBSET OrderLines -> Int]
    /\ Total[{}] = 0
    /\ \A S \in SUBSET OrderLines : \A l \in OrderLines \ S :
           Total[S \cup {l}] = Total[S] + l.quantity

Batch == [sku : Skus, purchased : Quantities, eta : Etas, allocations : SUBSET OrderLines]

Event == [type : {"Allocated"}, line : OrderLines, batchref : Refs]
         \cup [type : {"Deallocated"}, line : OrderLines]
         \cup [type : {"OutOfStock"}, sku : Skus]

Aggregate == [sku : Skus, version : Nat, batches : [Refs -> Batch \cup {NoBatch}],
              modifiedRefs : SUBSET Refs, modified : BOOLEAN, messages : Seq(Event)]

ASSUME NullAssumption == NoBatch \notin Batch /\ NoProduct \notin Aggregate

-----------------------------------------------------------------------------
(* Batch *)

NewBatch(sku, qty, eta) == [sku |-> sku, purchased |-> qty, eta |-> eta, allocations |-> {}]

Available(b) == b.purchased - Total[b.allocations]

\* The comparison int >= size_t: a negative left or right operand counts as huge.
UnsignedGeq(a, q) == \/ a < 0 /\ q >= 0
                     \/ (a < 0 <=> q < 0) /\ a >= q

\* Mutant: any room will do.
AnyRoom(b, line) == line.sku = b.sku /\ Available(b) > 0
CanAllocate(b, line) == line.sku = b.sku /\ UnsignedGeq(Available(b), line.quantity)

AllocateLine(b, line) ==
    IF CanAllocate(b, line) THEN [b EXCEPT !.allocations = @ \cup {line}] ELSE b

\* Batch b once DeallocateOne has taken the lines of sequence s out of it.
Without(b, s) == [b EXCEPT !.allocations = @ \ {s[i] : i \in DOMAIN s}]

\* Mutants: the lines stay whatever the quantity; the loop goes on while nothing is left over (<= 0).
KeepAllLines(b) == {<<>>}
DeallocationsToSpare(b) ==
    {s \in UNION {Injection(1..n, b.allocations) : n \in 0..Cardinality(b.allocations)} :
        /\ Available(Without(b, s)) > 0
        /\ \A k \in 0..(Len(s) - 1) : Available(Without(b, SubSeq(s, 1, k))) <= 0}

\* The sequences of lines the loop of ChangeBatchQuantity may deallocate, whatever the
\* iteration order of the hash set: it stops as soon as nothing is oversold.  None when the
\* batch is emptied and still oversold: DeallocateOne then throws.
DeallocationOrders(b) ==
    {s \in UNION {Injection(1..n, b.allocations) : n \in 0..Cardinality(b.allocations)} :
        /\ Available(Without(b, s)) >= 0
        /\ \A k \in 0..(Len(s) - 1) : Available(Without(b, SubSeq(s, 1, k))) < 0}

-----------------------------------------------------------------------------
(* Product *)

Allocated(line, ref) == [type |-> "Allocated", line |-> line, batchref |-> ref]
Deallocated(line)    == [type |-> "Deallocated", line |-> line]
OutOfStock(sku)      == [type |-> "OutOfStock", sku |-> sku]

NewAggregate(sku) ==
    [sku |-> sku, version |-> 0, batches |-> [r \in Refs |-> NoBatch],
     modifiedRefs |-> {}, modified |-> TRUE, messages |-> <<>>]

StoredAggregate(sku, version, batches) ==
    [NewAggregate(sku) EXCEPT !.version = version, !.batches = batches, !.modified = FALSE]

SetModified(p, flag) == [p EXCEPT !.modified = flag]

ClearMessages(p) == [p EXCEPT !.messages = <<>>]

Contains(p, ref) == p.batches[ref] # NoBatch

\* AddBatches(new): new is a partial function from references to batches, all of the
\* product's SKU; either every batch is added or, when one reference is taken, none.
WithBatches(p, new) ==
    IF \E r \in DOMAIN new : Contains(p, r)
    THEN p
    ELSE [p EXCEPT !.batches = [r \in Refs |-> IF r \in DOMAIN new THEN new[r] ELSE @[r]],
                   !.modifiedRefs = @ \cup DOMAIN new,
                   !.modified = TRUE]

WithBatch(p, ref, b) ==
    IF Contains(p, ref)
    THEN p
    ELSE [p EXCEPT !.batches[ref] = b, !.modifiedRefs = @ \cup {ref}, !.modified = TRUE]

\* May b stand before c once the batches are sorted?  Batches of equal date keep the hash
\* map's order, so each may.
MayPrecede(b, c) == b.eta <= c.eta

\* The batches the line fits in, and those of them that may come first.
Candidates(p, line) == {r \in Refs : Contains(p, r) /\ CanAllocate(p.batches[r], line)}

Preferred(p, line) ==
    {r \in Candidates(p, line) :
        \A q \in Candidates(p, line) : MayPrecede(p.batches[r], p.batches[q])}

\* Mutants: no new version; a version that counts down; no event.
AllocatedSilently(p, line, ref) ==
    [p EXCEPT !.batches[ref] = AllocateLine(@, line), !.version = @ + 1,
              !.modifiedRefs = @ \cup {ref}, !.modified = TRUE]
AllocatedVersionDown(p, line, ref) ==
    [AllocatedSilently(p, line, ref) EXCEPT !.version = p.version - 1,
                                            !.messages = Append(@, Allocated(line, ref))]
AllocatedSameVersion(p, line, ref) ==
    [AllocatedSilently(p, line, ref) EXCEPT !.version = p.version,
                                            !.messages = Append(@, Allocated(line, ref))]
AllocatedTo(p, line, ref) ==
    [p EXCEPT !.batches[ref] = AllocateLine(@, line),
              !.version = @ + 1,
              !.modifiedRefs = @ \cup {ref},
              !.modified = TRUE,
              !.messages = Append(@, Allocated(line, ref))]

\* What Allocate(line) may leave: nothing happens to a product without batches, a line that
\* fits nowhere only raises OutOfStock.
AllocateOutcomes(p, line) ==
    IF \A r \in Refs : ~Contains(p, r) THEN {p}
    ELSE IF Candidates(p, line) = {}
         THEN {[p EXCEPT !.messages = Append(@, OutOfStock(line.sku))]}
         ELSE {AllocatedTo(p, line, r) : r \in Preferred(p, line)}

\* Mutants: the batch is not marked; the events name other lines (*it read after the erase).
UnmarkedQuantityOutcomes(p, ref, qty) ==
    LET b == [p.batches[ref] EXCEPT !.purchased = qty]
    IN {[p EXCEPT !.batches[ref] = Without(b, s), !.modified = TRUE,
                  !.messages = @ \o [i \in 1..Len(s) |-> Deallocated(s[i])]] :
        s \in DeallocationOrders(b)}
MisannouncedQuantityOutcomes(p, ref, qty) ==
    LET b == [p.batches[ref] EXCEPT !.purchased = qty]
    IN UNION {{[p EXCEPT !.batches[ref] = Without(b, s),
                         !.modifiedRefs = @ \cup {ref}, !.modified = TRUE,
                         !.messages = @ \o [i \in 1..Len(s) |-> Deallocated(t[i])]] :
               t \in Injection(1..Len(s), b.allocations)} : s \in DeallocationOrders(b)}

\* What ChangeBatchQuantity(ref, qty) may leave when the product has the batch; empty when
\* the call throws.
ChangeQuantityOutcomes(p, ref, qty) ==
    LET b == [p.batches[ref] EXCEPT !.purchased = qty]
    IN {[p EXCEPT !.batches[ref] = Without(b, s),
                  !.modifiedRefs = @ \cup {ref},
                  !.modified = TRUE,
                  !.messages = @ \o [i \in 1..Len(s) |-> Deallocated(s[i])]] :
        s \in DeallocationOrders(b)}

\* The batches of p are of its SKU, and none holds more than was purchased.
Sound(p) == \A r \in Refs : Contains(p, r) =>
    p.batches[r].sku = p.sku /\ Available(p.batches[r]) >= 0

-----------------------------------------------------------------------------
(* Loading a batch: the mapper allocates the stored lines again, one by one, to a fresh     *)
(* batch.  All of them fit exactly when the row is not oversold; otherwise a maximal set    *)
(* that fits remains (quantities are positive in the database).                             *)

Reload(b) ==
    IF Available(b) >= 0 THEN b
    ELSE [b EXCEPT !.allocations =
             CHOOSE S \in SUBSET b.allocations :
                 LET kept == [b EXCEPT !.allocations = S]
                 IN Available(kept) >= 0 /\ \A l \in b.allocations \ S : ~CanAllocate(kept, l)]
=============================================================================
