----------------------------- MODULE StockLedger -----------------------------
(***************************************************************************)
(* What the service promises about the stock, whatever the number of       *)
(* threads: every change of the stored batches is one atomic step on the   *)
(* stock as it is at that moment, and one of three.                        *)
(***************************************************************************)
EXTENDS Product

VARIABLE stock   \* the registered batches and the lines they hold

Init == stock = [r \in Refs |-> NoBatch]

\* A free reference gets a batch, with goods and without lines.
Register(r) ==
    /\ stock[r] = NoBatch
    /\ \E b \in Batch :
        /\ b.allocations = {} /\ b.purchased > 0
        /\ stock' = [stock EXCEPT ![r] = b]

\* One line is placed in one batch of its SKU that has the goods.
Place(l, r) ==
    /\ stock[r] # NoBatch
    /\ stock[r].sku = l.sku
    /\ l.quantity > 0
    /\ Total[stock[r].allocations \cup {l}] <= stock[r].purchased
    /\ stock' = [stock EXCEPT ![r].allocations = @ \cup {l}]

\* The purchased quantity of one batch changes; lines leave it only as far as it takes for
\* the others to be covered.
ChangeQuantity(r, qty) ==
    /\ stock[r] # NoBatch
    /\ qty > 0
    /\ \E kept \in SUBSET stock[r].allocations :
        /\ Total[kept] <= qty
        /\ kept = stock[r].allocations \/
               \E l \in stock[r].allocations \ kept : Total[kept \cup {l}] > qty
        /\ stock' = [stock EXCEPT ![r].purchased = qty, ![r].allocations = kept]

Next ==
    \/ \E r \in Refs : Register(r)
    \/ \E r \in Refs, l \in OrderLines : Place(l, r)
    \/ \E r \in Refs, qty \in Quantities : ChangeQuantity(r, qty)

Spec == Init /\ [][Next]_stock
=============================================================================
