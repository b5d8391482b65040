SPECIFICATION Spec
CONSTANTS
    chair = chair
    b1 = b1
    b2 = b2
    o1 = o1
    o2 = o2
    o3 = o3
    Skus = {chair}
    Sku = chair
    Refs = {b1, b2}
    OrderLines <- MCLines
    Total <- MCTotal
    Etas <- MCEtas
    Quantities <- MCQuantities
    NoBatch = NoBatch
    NoProduct = NoProduct
    MaxCalls = 5
    IntRange = 8
    SizeRange = 16
INVARIANTS
    TypeOK
    UnsavedIsMarked
    NeverOversold
    ArithmeticIsExact
    EventsCoverAllocations
PROPERTY
    DeallocatesOnlyTheExcess
