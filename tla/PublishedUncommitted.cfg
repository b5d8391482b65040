SPECIFICATION Spec
CONSTANTS
    chair = chair
    table = table
    b1 = b1
    b2 = b2
    b3 = b3
    o1 = o1
    o2 = o2
    o3 = o3
    w1 = w1
    w2 = w2
    Skus = {chair}
    Refs = {b1, b2}
    OrderLines <- TwoLines
    Total <- TotalOfTwo
    Etas <- Dates
    Quantities <- FewQuantities
    Commands <- CascadeCommands
    Deliveries <- CascadeDeliveries
    HttpWorkers = {w1}
    Listener = Listener
    MaxCrashes = 0
    NoBatch = NoBatch
    NoProduct = NoProduct
    NoVersion = NoVersion
    NoCommand = NoCommand
INVARIANT
    PublishedWasPlaced
