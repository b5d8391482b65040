---------------------------- MODULE AtomicCommit ----------------------------
(***************************************************************************)
(* What CommitFlush promises and AllocationService takes for granted: a    *)
(* commit writes the row of one product and the rows of some batches in    *)
(* one step, from what is stored at that moment.                           *)
(***************************************************************************)
EXTENDS Naturals

CONSTANTS Skus, Refs, Stored

VARIABLE version  \* how often each row was written by a commit; 0: there is no such row

ProductRow(sku) == <<"products", sku>>
BatchRows(refs) == {"batches"} \X refs

Rows == ({"products"} \X Skus) \cup ({"batches"} \X Refs)

Init == version = [x \in Rows |-> IF x \in Stored THEN 1 ELSE 0]

Commit(sku, refs) ==
    version' = [x \in Rows |-> IF x \in {ProductRow(sku)} \cup BatchRows(refs)
                               THEN version[x] + 1 ELSE version[x]]

Next == \E sku \in Skus : \E refs \in SUBSET Refs : Commit(sku, refs)

Spec == Init /\ [][Next]_version
=============================================================================
