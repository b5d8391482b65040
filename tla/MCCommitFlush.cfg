SPECIFICATION FairSpec
CONSTANTS
    chair = chair
    table = table
    b1 = b1
    b2 = b2
    w1 = w1
    w2 = w2
    HttpWorkers = {w1, w2}
    Listener = Listener
    Skus = {chair, table}
    Refs = {b1, b2}
    Stored <- OneProduct
    NoOne = NoOne
    NoRow = NoRow
    MaxTransactions = 4
INVARIANTS
    FlushInvariant
    NoCircularWait
PROPERTIES
    ImplementsAtomicCommit
    FlushesEnd
