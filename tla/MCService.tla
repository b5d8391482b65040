------------------------------ MODULE MCService ------------------------------
(***************************************************************************)
(* Small instances of the service.  Each run picks its commands.           *)
(***************************************************************************)
EXTENDS ServiceProperties, FiniteSetsExt, TLC

CONSTANTS chair, table, b1, b2, b3, o1, o2, o3, w1, w2

Line(orderid, sku, qty) == [reference |-> orderid, sku |-> sku, quantity |-> qty]

Two == Line(o1, chair, 2)
One == Line(o2, chair, 1)
More == Line(o3, chair, 1)
TableLine == Line(o2, table, 1)

TwoLines == {Two, One}
ThreeLines == {Two, One, More}
TableLines == {Two, TableLine}

\* Total for the lines of the run.
SumOf(lines) == [S \in SUBSET lines |-> MapThenSumSet(LAMBDA l : l.quantity, S)]
TotalOfTwo == SumOf(TwoLines)
TotalOfThree == SumOf(ThreeLines)
TotalOfTables == SumOf(TableLines)

\* No date, and one date.
NoDate == -1
Dates == {NoDate, 7}
FewQuantities == 1..3

Create(ref, sku, qty, eta) ==
    [type |-> "CreateBatch", ref |-> ref, sku |-> sku, qty |-> qty, eta |-> eta]
Buy(line) == [type |-> "Allocate", line |-> line]
Change(ref, qty) == [type |-> "ChangeBatchQuantity", ref |-> ref, qty |-> qty]

Once(commands) == [c \in commands |-> 1]

\* Quantities no one should send.
OddLine == Line(o2, chair, 0)
NegativeLine == Line(o3, chair, -1)
HttpLines == {Two, One, NegativeLine}
OddLines == {Two, One, OddLine}
TotalOfHttp == SumOf(HttpLines)
TotalOfOdd == SumOf(OddLines)

\* Two dates, two lines that compete for the earlier batch, HTTP only; one client does not
\* trust the first answer, another one orders a negative quantity.
HttpCommands == {Create(b1, chair, 2, 7), Create(b2, chair, 2, NoDate), Buy(Two), Buy(One),
                 Buy(NegativeLine)}
HttpDeliveries == [c \in HttpCommands |-> IF c = Buy(One) THEN 2 ELSE 1]

\* The same with a batch that shrinks and grows again under the threads' hands.
MixedCommands == {Create(b1, chair, 3, NoDate), Create(b2, chair, 2, 7), Buy(Two), Buy(One),
                  Change(b1, 1), Change(b1, 3)}
MixedDeliveries == Once(MixedCommands)

OddQuantities == -1..3

\* A batch that loses one or two lines and has room for one of them again; a batch, a line and a
\* change of quantity nobody should send.
OddCommands == {Create(b1, chair, 3, 7), Create(b2, chair, -1, 7), Buy(Two), Buy(One),
                Buy(OddLine), Change(b1, 1), Change(b1, -1)}
OddDeliveries == Once(OddCommands)

\* One batch shrinks.
ShrinkCommands == {Create(b1, chair, 2, NoDate), Buy(Two), Change(b1, 1)}
ShrinkDeliveries == Once(ShrinkCommands)

\* One batch loses two lines, another one has room for both.
CascadeCommands == {Create(b1, chair, 3, 7), Create(b2, chair, 3, NoDate), Buy(Two), Buy(One),
                    Change(b1, 1)}
CascadeDeliveries == Once(CascadeCommands)

\* More than the stock.
ScarceCommands == {Create(b1, chair, 1, NoDate), Buy(Two)}
ScarceDeliveries == Once(ScarceCommands)

\* Two customers at a time, stock for both.
RaceCommands == {Create(b1, chair, 3, NoDate), Buy(Two), Buy(One)}
RaceDeliveries == Once(RaceCommands)

\* A reference used for two products.
StolenReferenceCommands == {Create(b1, chair, 2, NoDate), Buy(Two), Create(b1, table, 2, NoDate)}
StolenReferenceDeliveries == Once(StolenReferenceCommands)

Threads == Permutations({w1, w2})
=============================================================================
