------------------------- MODULE MCProductAggregate -------------------------
EXTENDS ProductAggregate, FiniteSetsExt

CONSTANTS chair, b1, b2, o1, o2, o3

MCLines == {[reference |-> o1, sku |-> chair, quantity |-> 1],
            [reference |-> o2, sku |-> chair, quantity |-> 2],
            [reference |-> o3, sku |-> chair, quantity |-> 3]}

MCTotal == [S \in SUBSET MCLines |-> MapThenSumSet(LAMBDA l : l.quantity, S)]

\* No date, and one date.
MCEtas == {-1, 7}

MCQuantities == {1, 3}
=============================================================================
