-------------------------- MODULE ProductAggregate --------------------------
(***************************************************************************)
(* One Product object in memory, under every sequence of calls a handler   *)
(* may make on it, together with what its repository keeps: `stored` is    *)
(* the state of the rows, written from the modified references only.       *)
(***************************************************************************)
EXTENDS Product

CONSTANTS Sku,       \* the SKU of the aggregate
          MaxCalls,  \* bound of the number of calls, for model checking
          IntRange,  \* the number of values of an int
          SizeRange  \* the number of values of a size_t

ASSUME AggregateAssumption == Sku \in Skus /\ MaxCalls \in Nat

\* The domain takes quantities of type size_t; those that fit in an int.
ASSUME SizeAssumption == Quantities \subseteq Nat

\* Their widths; what the parsers let pass as a quantity fits in an int.
ASSUME WidthAssumption ==
    /\ IntRange \in Nat \ {0} /\ IntRange % 2 = 0
    /\ SizeRange \in Nat /\ SizeRange >= IntRange /\ SizeRange % IntRange = 0
    /\ \A q \in Quantities \cup {l.quantity : l \in OrderLines} : q >= 0 /\ 2 * q < IntRange
    /\ \A S \in SUBSET OrderLines : Total[S] >= 0

VARIABLES
    product,   \* the object
    stored,    \* its batches as last written to the database
    balance,   \* ghost: per line, Allocated minus Deallocated events raised so far
    calls      \* the number of calls so far

vars == <<product, stored, balance, calls>>

TypeOK ==
    /\ product \in Aggregate
    /\ stored \in [Refs -> Batch \cup {NoBatch}]
    /\ balance \in [OrderLines -> Int]
    /\ calls \in 0..MaxCalls

-----------------------------------------------------------------------------

Init ==
    /\ product = NewAggregate(Sku)
    /\ stored = [r \in Refs |-> NoBatch]
    /\ balance = [l \in OrderLines |-> 0]
    /\ calls = 0

\* The events p carries beyond those of the object as it is, counted per line.
Raised(p) ==
    LET new == SubSeq(p.messages, Len(product.messages) + 1, Len(p.messages))
        Of(type, l) == Cardinality({i \in DOMAIN new : new[i].type = type /\ new[i].line = l})
    IN [l \in OrderLines |-> Of("Allocated", l) - Of("Deallocated", l)]

\* A call that may change the contents; the calls that only drain, write or read are not counted.
Call(p) ==
    /\ calls < MaxCalls
    /\ calls' = calls + 1
    /\ product' = p
    /\ balance' = [l \in OrderLines |-> balance[l] + Raised(p)[l]]
    /\ UNCHANGED stored

AddBatch(ref, b) == Call(WithBatch(product, ref, b))

AddBatches(new) == Call(WithBatches(product, new))

Allocate(line) == \E p \in AllocateOutcomes(product, line) : Call(p)

ChangeBatchQuantity(ref, qty) ==
    /\ Contains(product, ref)
    /\ \E p \in ChangeQuantityOutcomes(product, ref, qty) : Call(p)

\* GetNewMessages of the unit of work.
TakeMessages ==
    /\ product.messages # <<>>
    /\ product' = ClearMessages(product)
    /\ UNCHANGED <<stored, balance, calls>>

\* The repository rewrites the batches in modifiedRefs, no other, and clears the flag; it
\* never clears modifiedRefs.
Save ==
    /\ product.modified
    /\ product' = SetModified(product, FALSE)
    /\ stored' = [r \in Refs |-> IF r \in product.modifiedRefs THEN product.batches[r]
                                 ELSE stored[r]]
    /\ UNCHANGED <<balance, calls>>

\* A later unit of work reads the rows into a new object; events not taken are gone.
Load ==
    /\ ~product.modified
    /\ product.messages = <<>>
    /\ product' = StoredAggregate(Sku, product.version,
                      [r \in Refs |-> IF stored[r] = NoBatch THEN NoBatch ELSE Reload(stored[r])])
    /\ UNCHANGED <<stored, balance, calls>>

Batches == {NewBatch(Sku, q, e) : q \in Quantities, e \in Etas}

Next ==
    \/ \E r \in Refs, b \in Batches : AddBatch(r, b)
    \/ \E rs \in SUBSET Refs : \E new \in [rs -> Batches] : AddBatches(new)
    \/ \E l \in OrderLines : Allocate(l)
    \/ \E r \in Refs, q \in Quantities : ChangeBatchQuantity(r, q)
    \/ TakeMessages
    \/ Save
    \/ Load

Spec == Init /\ [][Next]_vars

-----------------------------------------------------------------------------
(* The arithmetic of the machine *)

ToSize(n) == n % SizeRange

\* The narrowing conversion from size_t.
ToInt(n) == LET low == n % IntRange IN IF 2 * low < IntRange THEN low ELSE low - IntRange

\* The lines are added up, and subtracted, as size_t.
GetAvailableQuantity(b) == ToInt(ToSize(b.purchased - ToSize(Total[b.allocations])))

\* The int becomes a size_t to be compared with the line's quantity.
Fits(b, line) == line.sku = b.sku /\ ToSize(GetAvailableQuantity(b)) >= line.quantity

-----------------------------------------------------------------------------
(* Properties *)

\* Dirty tracking loses nothing: a batch that differs from its row is among the references
\* Update will rewrite, and the flag that makes Commit call Update is up.
UnsavedIsMarked ==
    \A r \in Refs : stored[r] # product.batches[r] =>
        r \in product.modifiedRefs /\ product.modified

\* However allocations, quantity changes and reloads follow each other, no batch ever holds
\* more than was purchased, so Reload never drops a line.
NeverOversold ==
    \A r \in Refs : Contains(product, r) => Available(product.batches[r]) >= 0

\* No sequence of calls makes the machine's arithmetic differ from that of the integers: not for
\* a batch as it is, nor for one whose quantity has just been changed and is oversold.
ArithmeticIsExact ==
    \A r \in Refs : \A q \in Quantities : Contains(product, r) =>
        LET b == [product.batches[r] EXCEPT !.purchased = q]
        IN  /\ GetAvailableQuantity(b) = Available(b)
            /\ Available(b) >= 0 => \A l \in OrderLines :
                   Fits(b, l) <=> l.sku = b.sku /\ l.quantity <= Available(b)

\* The events tell the whole story: a line held by n batches was announced as allocated at
\* least n times more often than as deallocated (more, because allocating a line to the batch
\* that holds it already announces it again).
EventsCoverAllocations ==
    \A l \in OrderLines :
        balance[l] >= Cardinality({r \in Refs : /\ Contains(product, r)
                                                /\ l \in product.batches[r].allocations})

\* ChangeBatchQuantity takes a line out of a batch only when the new quantity does not cover
\* the lines it held, and leaves no room for the last line it took.
DeallocatesOnlyTheExcess ==
    [][\A r \in Refs :
          LET held == product.batches[r].allocations
              kept == product'.batches[r].allocations
          IN Contains(product, r) /\ Contains(product', r) /\ ~(held \subseteq kept) =>
                \E l \in held \ kept : Total[kept \cup {l}] > product'.batches[r].purchased]_product
=============================================================================
