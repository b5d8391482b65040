SPECIFICATION FairSpec
CONSTANTS
    w1 = w1
    w2 = w2
    NoObject = NoObject
    HttpWorkers = {w1, w2}
    Reader = Reader
    Requests <- AllRequests
    Payloads <- AllPayloads
    MaxSessions = 3
    MaxTaken = 2
INVARIANTS
    LifecycleInvariant
    EventsAreHeard
    RequestsFindTheirHandler
    SessionsAreCounted
    NeverExhausted
    
PROPERTIES
    RequestsAreAnswered
    OneMessageEndsTheProcess
