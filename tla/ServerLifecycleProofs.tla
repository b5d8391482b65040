------------------------ MODULE ServerLifecycleProofs ------------------------
(***************************************************************************)
(* Start, stop and the session pool, for any number of HTTP threads, any   *)
(* requests and payloads and any limit of the pool.                        *)
(***************************************************************************)
EXTENDS ServerLifecycle, FiniteSetTheorems, TLAPS

LEMMA ProgramIs ==
    /\ Program[1] = "ConfigureRedis" /\ Program[2] = "Subscribe" /\ Program[3] = "StartReader"
    /\ Program[4] = "ConfigurePool" /\ Program[5] = "PublishAllocatedEvent"
    /\ Program[6] = "AddAllocationToReadModel" /\ Program[7] = "RemoveAllocationFromReadModel"
    /\ Program[8] = "Reallocate" /\ Program[9] = "SendOutOfStockNotification"
    /\ Program[10] = "Allocate" /\ Program[11] = "AddBatch" /\ Program[12] = "ChangeBatchQuantity"
    /\ Program[13] = "StartServer" /\ Program[14] = "StopServer" /\ Program[15] = "StopReader"
    /\ Program[16] = "ShutdownPool" /\ Program[17] = "DestroyListener"
BY DEF Program

\* What the order of the program means for the threads.
LEMMA OrderOfStart ==
    ASSUME StepsInOrder
    PROVE  /\ \A c \in CommandHandlers : c \in done => EventHandlers \subseteq done
           /\ "StartServer" \in done => CommandHandlers \cup {"ConfigurePool"} \subseteq done
           /\ \A c \in CommandHandlers : c \in done => "ConfigurePool" \in done
<1>1. \A i \in 1..14 : Program[i] \in done => \A j \in 1..i : Program[j] \in done
  BY DEF StepsInOrder
<1>2. \A i \in 10..13 : Program[i] \in done => EventHandlers \cup {"ConfigurePool"} \subseteq done
  BY <1>1, ProgramIs DEF EventHandlers
<1>3. Program[13] \in done => CommandHandlers \subseteq done
  BY <1>1, ProgramIs DEF CommandHandlers
<1>4. QED
  BY <1>2, <1>3, ProgramIs DEF CommandHandlers

LEMMA StepTypes == \A i \in 1..17 : Program[i] \in Steps
BY DEF Steps

\* A request is answered at once, or goes on to a command or to the query.
LEMMA ReadingARequest ==
    ASSUME NEW r
    PROVE  /\ HandlerOf(r) \in Handlers
           /\ Read(r) \in {"no object", "invalid", "out of range", "no order", "done", "command", "query"}
           /\ Read(r) \in {"no object", "invalid", "out of range", "command"} => HandlerOf(r) \in {"Allocate", "AddBatch"}
           /\ Read(r) \in {"no order", "query"} => HandlerOf(r) = "AllocationsView"
           /\ Read(r) = "done" => HandlerOf(r) \notin {"Allocate", "AddBatch", "AllocationsView"}
<1>1. HandlerOf(r) \in Handlers
  BY DEF HandlerOf, Handlers
<1>2. \A c : Parse(c, r.body) \in {"no object", "invalid", "out of range", "command"}
  BY DEF Parse
<1>3. QED
  BY <1>1, <1>2 DEF Read, Handlers

\* The statuses of all endings, one kind at a time.
LEMMA PocoStatus == \A h, how : how \in PocoExceptions => Status(h, how) = "INTERNAL_SERVER_ERROR"
BY DEF Status, PocoExceptions, RuntimeErrors, OtherExceptions

LEMMA RuntimeStatus ==
    \A h, how : how \in RuntimeErrors => Status(h, how) = IF h = "Allocate" THEN "CONFLICT" ELSE "BAD_REQUEST"
BY DEF Status, PocoExceptions, RuntimeErrors, OtherExceptions

LEMMA OtherStatus == \A h, how : how \in OtherExceptions => Status(h, how) = "BAD_REQUEST"
BY DEF Status, PocoExceptions, RuntimeErrors, OtherExceptions

LEMMA DoneStatus == \A h : Status(h, "done") = Success[h] /\ Status(h, "no rows") = "NOT_FOUND"
BY DEF Status, PocoExceptions, RuntimeErrors, OtherExceptions

LEMMA Tables ==
    /\ Documented["Allocate"] = {"ACCEPTED", "BAD_REQUEST", "CONFLICT", "INTERNAL_SERVER_ERROR"}
    /\ Documented["AddBatch"] = {"CREATED", "BAD_REQUEST", "INTERNAL_SERVER_ERROR"}
    /\ Documented["AllocationsView"] = {"OK", "BAD_REQUEST", "NOT_FOUND", "INTERNAL_SERVER_ERROR"}
    /\ Documented["Ping"] = {"OK"} /\ Documented["Options"] = {"OK"}
    /\ Documented["NotFound"] = {"NOT_FOUND"}
    /\ \A h \in Handlers : Success[h] \in Documented[h] /\ Promised[h] = Success[h]
BY DEF Documented, Success, Promised, Handlers

\* What the description says, one kind of ending at a time.
LEMMA DescribedStatuses ==
    ASSUME NEW h, NEW how
    PROVE  /\ how = "done" => Described(h, how) = {Promised[h]}
           /\ how \in {"no object", "invalid", "out of range", "no order"} =>
                  Described(h, how) = {"BAD_REQUEST"}
           /\ how = "unknown sku" => Described(h, how) = {"BAD_REQUEST", "CONFLICT"}
           /\ how = "no rows" => Described(h, how) = {"NOT_FOUND"}
           /\ how \in {"version", "serialization"} =>
                  Described(h, how) = IF h = "Allocate" THEN {"CONFLICT"} ELSE {"INTERNAL_SERVER_ERROR"}
           /\ how \in {"database", "exhausted", "session closed", "no pool"} =>
                  Described(h, how) = {"INTERNAL_SERVER_ERROR"}
BY DEF Described

\* The answers of requests that end before a unit of work is opened ...
LEMMA DocumentedReadings ==
    ASSUME NEW h, NEW how,
           \/ how \in {"no object", "invalid", "out of range"} /\ h \in {"Allocate", "AddBatch"}
           \/ how = "no order" /\ h = "AllocationsView"
           \/ how = "done" /\ h \in {"Ping", "Options", "NotFound"}
    PROVE  IsDocumented(h, how)
<1>1. CASE how \in {"no object", "out of range"} /\ h \in {"Allocate", "AddBatch"}
  <2>1. Status(h, how) = "INTERNAL_SERVER_ERROR"
    BY <1>1, PocoStatus DEF PocoExceptions
  <2>2. Described(h, how) = {"BAD_REQUEST"} /\ how \in Disagreements(h)
    BY <1>1, DescribedStatuses DEF Disagreements
  <2>3. QED
    BY <1>1, <2>1, <2>2, Tables DEF IsDocumented
<1>2. CASE how \in {"invalid", "no order"} /\ h \in {"Allocate", "AddBatch", "AllocationsView"}
  <2>1. Status(h, how) = "BAD_REQUEST"
    BY <1>2, OtherStatus DEF OtherExceptions
  <2>2. Described(h, how) = {"BAD_REQUEST"} /\ how \notin Disagreements(h)
    BY <1>2, DescribedStatuses DEF Disagreements
  <2>3. QED
    BY <1>2, <2>1, <2>2, Tables DEF IsDocumented
<1>3. CASE how = "done" /\ h \in {"Ping", "Options", "NotFound"}
  <2>1. h \in Handlers /\ Status(h, how) = Success[h]
    BY <1>3, DoneStatus DEF Handlers
  <2>2. Described(h, how) = {Promised[h]} /\ how \notin Disagreements(h)
    BY <1>3, DescribedStatuses DEF Disagreements
  <2>3. QED
    BY <2>1, <2>2, Tables DEF IsDocumented
<1>4. QED
  BY <1>1, <1>2, <1>3

\* ... and of those that open one.
LEMMA DocumentedEndings ==
    ASSUME NEW h \in {"Allocate", "AddBatch", "AllocationsView"},
           NEW how \in {"done", "database", "serialization", "exhausted", "session closed",
                        "unknown sku", "version", "no rows", "no pool"},
           how \in {"unknown sku", "version"} => h = "Allocate",
           how = "no rows" => h = "AllocationsView"
    PROVE  IsDocumented(h, how)
<1>1. CASE how \in {"database", "exhausted", "session closed"}
  <2>1. Status(h, how) = "INTERNAL_SERVER_ERROR"
    BY <1>1, PocoStatus DEF PocoExceptions
  <2>2. Described(h, how) = {"INTERNAL_SERVER_ERROR"} /\ how \notin Disagreements(h)
    BY <1>1, DescribedStatuses DEF Disagreements
  <2>3. QED
    BY <2>1, <2>2, Tables DEF IsDocumented
<1>2. CASE how = "serialization"
  <2>1. Status(h, how) = "INTERNAL_SERVER_ERROR"
    BY <1>2, PocoStatus DEF PocoExceptions
  <2>2. Described(h, how) = IF h = "Allocate" THEN {"CONFLICT"} ELSE {"INTERNAL_SERVER_ERROR"}
    BY <1>2, DescribedStatuses
  <2>3. how \in Disagreements(h) <=> h = "Allocate"
    BY <1>2 DEF Disagreements
  <2>4. QED
    BY <2>1, <2>2, <2>3, Tables DEF IsDocumented
<1>3. CASE how = "version"
  <2>1. h = "Allocate" /\ Status(h, how) = "CONFLICT"
    BY <1>3, RuntimeStatus DEF RuntimeErrors
  <2>2. Described(h, how) = {"CONFLICT"} /\ how \notin Disagreements(h)
    BY <1>3, <2>1, DescribedStatuses DEF Disagreements
  <2>3. QED
    BY <2>1, <2>2, Tables DEF IsDocumented
<1>4. CASE how = "no pool"
  <2>1. Status(h, how) = IF h = "Allocate" THEN "CONFLICT" ELSE "BAD_REQUEST"
    BY <1>4, RuntimeStatus DEF RuntimeErrors
  <2>2. Described(h, how) = {"INTERNAL_SERVER_ERROR"} /\ how \in Disagreements(h)
    BY <1>4, DescribedStatuses DEF Disagreements
  <2>3. QED
    BY <2>1, <2>2, Tables DEF IsDocumented
<1>5. CASE how = "unknown sku"
  <2>1. h = "Allocate" /\ Status(h, how) = "BAD_REQUEST"
    BY <1>5, OtherStatus DEF OtherExceptions
  <2>2. Described(h, how) = {"BAD_REQUEST", "CONFLICT"} /\ how \notin Disagreements(h)
    BY <1>5, <2>1, DescribedStatuses DEF Disagreements
  <2>3. QED
    BY <2>1, <2>2, Tables DEF IsDocumented
<1>6. CASE how = "done"
  <2>1. h \in Handlers /\ Status(h, how) = Success[h]
    BY <1>6, DoneStatus DEF Handlers
  <2>2. Described(h, how) = {Promised[h]} /\ how \notin Disagreements(h)
    BY <1>6, DescribedStatuses DEF Disagreements
  <2>3. QED
    BY <2>1, <2>2, Tables DEF IsDocumented
<1>7. CASE how = "no rows"
  <2>1. h = "AllocationsView" /\ Status(h, how) = "NOT_FOUND"
    BY <1>7, DoneStatus
  <2>2. Described(h, how) = {"NOT_FOUND"} /\ how \notin Disagreements(h)
    BY <1>7, DescribedStatuses DEF Disagreements
  <2>3. QED
    BY <2>1, <2>2, Tables DEF IsDocumented
<1>8. QED
  BY <1>1, <1>2, <1>3, <1>4, <1>5, <1>6, <1>7

LEMMA InitLifecycle == Init => LifecycleInvariant
<1> SUFFICES ASSUME Init PROVE LifecycleInvariant
  OBVIOUS
<1>1. TypeOK
  BY LifecycleAssumption DEF Init, TypeOK
<1>2. StepsInOrder /\ WellRouted /\ EventsAreHeard /\ RequestsFindTheirHandler
  BY LifecycleAssumption DEF Init, StepsInOrder, WellRouted, EventsAreHeard, RequestsFindTheirHandler, Workers
<1>3. AnswersAreDocumented /\ SessionsAreCounted
  BY DEF Init, AnswersAreDocumented, SessionsAreCounted, PoolIsOpen, Workers
<1>4. NoSessionsBeforeThePool
  BY DEF Init, NoSessionsBeforeThePool, Holding
<1>5. QED
  BY <1>1, <1>2, <1>3, <1>4 DEF LifecycleInvariant

-----------------------------------------------------------------------------
(* The session pool's count *)

LEMMA WorkersAreFinite == IsFiniteSet(Workers) /\ IsFiniteSet(Holding) /\ Cardinality(Holding) \in Nat
<1>1. IsFiniteSet(Workers)
  BY LifecycleAssumption, FS_AddElement DEF Workers
<1>2. QED
  BY <1>1, FS_Subset, FS_CardinalityType DEF Holding

\* A thread takes a session, gives one back, or does neither.
LEMMA HoldingGrows ==
    ASSUME NEW w \in Workers, TypeOK, pc[w] \notin {"looking", "working", "querying"},
           NEW p \in {"looking", "working", "querying"}, pc' = [pc EXCEPT ![w] = p]
    PROVE  Cardinality(Holding') = Cardinality(Holding) + 1
<1>1. Holding' = Holding \cup {w} /\ w \notin Holding
  BY DEF Holding, TypeOK
<1>2. QED
  BY <1>1, WorkersAreFinite, FS_AddElement

LEMMA HoldingShrinks ==
    ASSUME NEW w \in Holding, TypeOK,
           NEW p, p \notin {"looking", "working", "querying"}, pc' = [pc EXCEPT ![w] = p]
    PROVE  /\ Cardinality(Holding') = Cardinality(Holding) - 1
           /\ Cardinality(Holding) > 0
           /\ Holding' \subseteq Holding
<1>1. Holding' = Holding \ {w} /\ w \in Workers
  BY DEF Holding, TypeOK
<1>2. Cardinality(Holding') = Cardinality(Holding) - 1 /\ Cardinality(Holding) # 0
  BY <1>1, WorkersAreFinite, FS_RemoveElement, FS_EmptySet
<1>3. QED
  BY <1>1, <1>2, WorkersAreFinite

LEMMA HoldingStays ==
    ASSUME NEW w \in Workers, TypeOK, NEW p, pc' = [pc EXCEPT ![w] = p],
           pc[w] \in {"looking", "working", "querying"} <=> p \in {"looking", "working", "querying"}
    PROVE  Holding' = Holding
BY DEF Holding, TypeOK

\* A thread's step leaves the start as it is.
LEMMA SameStart ==
    ASSUME LifecycleInvariant, UNCHANGED <<step, done>>
    PROVE  StepsInOrder' /\ PoolIsOpen' = PoolIsOpen
BY DEF LifecycleInvariant, StepsInOrder, PoolIsOpen

-----------------------------------------------------------------------------
(* One lemma per kind of step *)

LEMMA TakeStep ==
    ASSUME LifecycleInvariant, NEW w \in Workers, NEW h, NEW reading, Take(w, h, reading),
           w \in HttpWorkers =>
              /\ "StartServer" \in done
              /\ \E r \in Requests : h = HandlerOf(r) /\ reading = Read(r),
           w = Reader => h = "ChangeBatchQuantity" /\ reading = "command"
    PROVE  LifecycleInvariant'
<1>1. StepsInOrder' /\ PoolIsOpen' = PoolIsOpen
  BY SameStart DEF Take
<1>2. w \in HttpWorkers =>
        /\ h \in Handlers
        /\ reading \in {"no object", "invalid", "out of range", "no order", "done", "command", "query"}
        /\ reading \in {"no object", "invalid", "out of range", "command"} => h \in {"Allocate", "AddBatch"}
        /\ reading \in {"no order", "query"} => h = "AllocationsView"
        /\ reading = "done" => h \notin {"Allocate", "AddBatch", "AllocationsView"}
  <2> SUFFICES ASSUME w \in HttpWorkers, NEW r \in Requests, h = HandlerOf(r), reading = Read(r)
               PROVE  <1>2!2
    OBVIOUS
  <2>1. QED
    BY ReadingARequest
<1>3. reading \in Endings <=> reading \notin {"command", "query"}
  BY <1>2, LifecycleAssumption DEF Endings, PocoExceptions, RuntimeErrors, OtherExceptions, Workers
<1>4. reading \in Endings => w \in HttpWorkers /\ pc' = [pc EXCEPT ![w] = "answering"] /\ ending' = [ending EXCEPT ![w] = reading]
  BY <1>3, LifecycleAssumption DEF Take, Workers
<1>5. reading \notin Endings => pc' = [pc EXCEPT ![w] = "opening"] /\ ending' = ending
  BY DEF Take
<1>6. /\ pc[w] = "waiting" /\ handler' = [handler EXCEPT ![w] = h]
      /\ taken' = [taken EXCEPT ![w] = @ + 1] /\ taken[w] < MaxTaken
      /\ UNCHANGED <<step, done, inUse>>
  BY DEF Take
<1>7. TypeOK'
  <2>1. h \in Handlers \cup CommandHandlers
    BY <1>2 DEF CommandHandlers, Workers
  <2>2. taken' \in [Workers -> 0..MaxTaken]
    BY <1>6, LifecycleAssumption DEF LifecycleInvariant, TypeOK
  <2>3. pc' \in [Workers -> {"off", "waiting", "opening", "looking", "working", "querying", "answering"}]
    BY <1>4, <1>5 DEF LifecycleInvariant, TypeOK
  <2>4. ending' \in [Workers -> Endings \cup {"none"}]
    BY <1>4, <1>5 DEF LifecycleInvariant, TypeOK
  <2>5. QED
    BY <1>6, <2>1, <2>2, <2>3, <2>4 DEF LifecycleInvariant, TypeOK
<1>8. Holding' = Holding
  BY <1>4, <1>5, <1>6, HoldingStays DEF LifecycleInvariant
<1>. DEFINE goesOn == reading \notin Endings
<1>9. /\ \A v \in Workers \ {w} : pc'[v] = pc[v] /\ handler'[v] = handler[v] /\ ending'[v] = ending[v]
      /\ handler'[w] = h
      /\ goesOn => pc'[w] = "opening"
      /\ ~goesOn => w \in HttpWorkers /\ pc'[w] = "answering" /\ ending'[w] = reading
      /\ goesOn => ending'[w] = ending[w]
      /\ UNCHANGED done
  BY <1>4, <1>5, <1>6 DEF LifecycleInvariant, TypeOK
<1>10. goesOn /\ w \in HttpWorkers => h \in {"Allocate", "AddBatch", "AllocationsView"}
  BY <1>2, <1>3
<1>11. w \in HttpWorkers => h # "ChangeBatchQuantity"
  BY <1>2 DEF Handlers
<1>. HIDE DEF goesOn
<1>12. WellRouted'
  <2>1. \A v \in HttpWorkers : pc'[v] \notin {"waiting", "off"} => "StartServer" \in done'
    BY <1>9 DEF LifecycleInvariant, WellRouted, Workers
  <2>2. ASSUME NEW v \in Workers
        PROVE  /\ pc'[v] \in {"opening", "looking", "working"} => handler'[v] \in CommandHandlers \cup {"AllocationsView"}
               /\ pc'[v] \in {"looking", "working"} => handler'[v] \in CommandHandlers
               /\ pc'[v] = "querying" => handler'[v] = "AllocationsView"
               /\ v \in HttpWorkers => handler'[v] # "ChangeBatchQuantity"
    <3>1. CASE v # w
      BY <3>1, <1>9 DEF LifecycleInvariant, WellRouted
    <3>2. CASE v = w
      BY <3>2, <1>9, <1>10, <1>11 DEF CommandHandlers, Workers
    <3>3. QED
      BY <3>1, <3>2
  <2>3. QED
    BY <2>1, <2>2 DEF WellRouted
<1>13. EventsAreHeard'
  BY <1>9 DEF LifecycleInvariant, EventsAreHeard
<1>14. RequestsFindTheirHandler'
  BY <1>2, <1>9 DEF LifecycleInvariant, RequestsFindTheirHandler, Workers
<1>15. AnswersAreDocumented'
  <2> SUFFICES ASSUME NEW v \in HttpWorkers, pc'[v] = "answering"
               PROVE  IsDocumented(handler[v], ending[v])'
    BY DEF AnswersAreDocumented
  <2>1. CASE v # w
    BY <2>1, <1>9 DEF LifecycleInvariant, AnswersAreDocumented, IsDocumented, Workers
  <2>2. CASE v = w
    <3>1. \/ reading \in {"no object", "invalid", "out of range"} /\ h \in {"Allocate", "AddBatch"}
          \/ reading = "no order" /\ h = "AllocationsView"
          \/ reading = "done" /\ h \in {"Ping", "Options", "NotFound"}
      <4>1. /\ w \in HttpWorkers
            /\ reading \in {"no object", "invalid", "out of range", "no order", "done"}
        BY <2>2, <1>2, <1>3, <1>9 DEF goesOn
      <4>2. QED
        BY <4>1, <1>2 DEF Handlers
    <3>2. IsDocumented(h, reading)
      BY <3>1, DocumentedReadings
    <3>3. QED
      BY <2>2, <3>2, <1>3, <1>9 DEF IsDocumented, goesOn
  <2>3. QED
    BY <2>1, <2>2
<1>16. QED
  BY <1>1, <1>6, <1>7, <1>8, <1>12, <1>13, <1>14, <1>15
     DEF LifecycleInvariant, SessionsAreCounted, NoSessionsBeforeThePool

\* What a step of one thread has to keep, apart from the pool's count.
ThreadsAreSound ==
    /\ pc \in [Workers -> {"off", "waiting", "opening", "looking", "working", "querying", "answering"}]
    /\ handler \in [Workers -> Handlers \cup CommandHandlers \cup {"none"}]
    /\ ending \in [Workers -> Endings \cup {"none"}]
    /\ WellRouted
    /\ EventsAreHeard
    /\ RequestsFindTheirHandler
    /\ AnswersAreDocumented

LEMMA ReleaseStep ==
    ASSUME LifecycleInvariant, NEW w \in Workers, Release(w), UNCHANGED done
    PROVE  /\ ThreadsAreSound'
           /\ \E p \in {"off", "waiting"} : pc' = [pc EXCEPT ![w] = p]
<1>1. PICK p \in {"off", "waiting"} : pc' = [pc EXCEPT ![w] = p]
  BY DEF Release
<1>2. /\ handler' = [handler EXCEPT ![w] = "none"] /\ ending' = [ending EXCEPT ![w] = "none"]
      /\ UNCHANGED done
  BY DEF Release
<1>3. /\ \A v \in Workers \ {w} : pc'[v] = pc[v] /\ handler'[v] = handler[v] /\ ending'[v] = ending[v]
      /\ pc'[w] = p /\ handler'[w] = "none" /\ ending'[w] = "none"
  BY <1>1, <1>2 DEF LifecycleInvariant, TypeOK
<1>4. /\ pc' \in [Workers -> {"off", "waiting", "opening", "looking", "working", "querying", "answering"}]
      /\ handler' \in [Workers -> Handlers \cup CommandHandlers \cup {"none"}]
      /\ ending' \in [Workers -> Endings \cup {"none"}]
  BY <1>1, <1>2 DEF LifecycleInvariant, TypeOK
<1>5. WellRouted' /\ EventsAreHeard'
  BY <1>2, <1>3 DEF LifecycleInvariant, WellRouted, EventsAreHeard, Workers
<1>6. RequestsFindTheirHandler'
  BY <1>2, <1>3 DEF LifecycleInvariant, RequestsFindTheirHandler, Workers
<1>7. AnswersAreDocumented'
  BY <1>2, <1>3 DEF LifecycleInvariant, AnswersAreDocumented, IsDocumented, Workers
<1>8. QED
  BY <1>1, <1>4, <1>5, <1>6, <1>7 DEF ThreadsAreSound

LEMMA EndStep ==
    ASSUME LifecycleInvariant, NEW w \in Workers, NEW how \in Endings, End(w, how), UNCHANGED done,
           pc[w] \in {"opening", "looking", "working", "querying"},
           w \in HttpWorkers =>
              /\ how # "no handler"
              /\ how \in {"no pool", "session closed"} => "ShutdownPool" \in done
              /\ IsDocumented(handler[w], how)
    PROVE  /\ ThreadsAreSound'
           /\ \E p \in {"off", "waiting", "answering"} : pc' = [pc EXCEPT ![w] = p]
<1>1. CASE w = Reader
  BY <1>1, ReleaseStep DEF End
<1>2. CASE w # Reader
  <2>1. /\ pc' = [pc EXCEPT ![w] = "answering"] /\ ending' = [ending EXCEPT ![w] = how]
        /\ UNCHANGED <<handler, done>> /\ w \in HttpWorkers
    BY <1>2 DEF End, Workers
  <2>2. /\ \A v \in Workers \ {w} : pc'[v] = pc[v] /\ ending'[v] = ending[v]
        /\ pc'[w] = "answering" /\ ending'[w] = how
    BY <2>1 DEF LifecycleInvariant, TypeOK
  <2>3. /\ pc' \in [Workers -> {"off", "waiting", "opening", "looking", "working", "querying", "answering"}]
        /\ handler' \in [Workers -> Handlers \cup CommandHandlers \cup {"none"}]
        /\ ending' \in [Workers -> Endings \cup {"none"}]
    BY <2>1 DEF LifecycleInvariant, TypeOK
  <2>4. WellRouted' /\ EventsAreHeard'
    BY <2>1, <2>2 DEF LifecycleInvariant, WellRouted, EventsAreHeard, Workers
  <2>5. RequestsFindTheirHandler'
    BY <2>1, <2>2 DEF LifecycleInvariant, RequestsFindTheirHandler, Workers
  <2>6. AnswersAreDocumented'
    <3> SUFFICES ASSUME NEW v \in HttpWorkers, pc'[v] = "answering"
                 PROVE  IsDocumented(handler[v], ending[v])'
      BY DEF AnswersAreDocumented
    <3>1. CASE v # w
      BY <3>1, <2>1, <2>2 DEF LifecycleInvariant, AnswersAreDocumented, IsDocumented, Workers
    <3>2. CASE v = w
      BY <3>2, <2>1, <2>2 DEF IsDocumented
    <3>3. QED
      BY <3>1, <3>2
  <2>7. QED
    BY <2>1, <2>3, <2>4, <2>5, <2>6 DEF ThreadsAreSound
<1>3. QED
  BY <1>1, <1>2

LEMMA SessionGivenBack ==
    ASSUME LifecycleInvariant, NEW w \in Holding, NEW p \in {"off", "waiting", "answering"},
           pc' = [pc EXCEPT ![w] = p], ReturnSession, UNCHANGED <<step, done>>
    PROVE  inUse' \in 0..MaxSessions /\ SessionsAreCounted' /\ NoSessionsBeforeThePool'
<1>1. /\ Cardinality(Holding') = Cardinality(Holding) - 1
      /\ Cardinality(Holding) > 0
      /\ Holding' \subseteq Holding
  BY HoldingShrinks DEF LifecycleInvariant
<1>2. PoolIsOpen' = PoolIsOpen
  BY DEF PoolIsOpen
<1>3. CASE PoolIsOpen
  BY <1>1, <1>2, <1>3, WorkersAreFinite, LifecycleAssumption
     DEF LifecycleInvariant, TypeOK, ReturnSession, SessionsAreCounted, NoSessionsBeforeThePool
<1>4. CASE ~PoolIsOpen
  BY <1>1, <1>2, <1>4 DEF LifecycleInvariant, TypeOK, ReturnSession, SessionsAreCounted, NoSessionsBeforeThePool
<1>5. QED
  BY <1>3, <1>4

\* The pieces of a thread's step together.
LEMMA StepOfAThread ==
    ASSUME LifecycleInvariant, UNCHANGED <<step, done, taken>>, ThreadsAreSound',
           inUse' \in 0..MaxSessions, SessionsAreCounted', NoSessionsBeforeThePool'
    PROVE  LifecycleInvariant'
BY SameStart DEF LifecycleInvariant, TypeOK, ThreadsAreSound

\* Without a session nothing changes for the pool.
LEMMA SameSessions ==
    ASSUME LifecycleInvariant, UNCHANGED <<done, inUse>>, Holding' = Holding
    PROVE  inUse' \in 0..MaxSessions /\ SessionsAreCounted' /\ NoSessionsBeforeThePool'
BY DEF LifecycleInvariant, TypeOK, SessionsAreCounted, NoSessionsBeforeThePool, PoolIsOpen

-----------------------------------------------------------------------------
(* The actions *)

LEMMA OpenSessionStep ==
    ASSUME LifecycleInvariant, NEW w \in Workers, OpenSession(w)
    PROVE  LifecycleInvariant'
<1>1. PICK p \in {"looking", "querying"} :
        /\ pc' = [pc EXCEPT ![w] = p]
        /\ p = IF handler[w] = "AllocationsView" THEN "querying" ELSE "looking"
  BY DEF OpenSession
<1>2. /\ PoolIsOpen /\ inUse < MaxSessions /\ inUse' = inUse + 1 /\ pc[w] = "opening"
      /\ UNCHANGED <<step, done, handler, ending, taken>>
  BY DEF OpenSession
<1>3. Cardinality(Holding') = Cardinality(Holding) + 1
  BY <1>1, <1>2, HoldingGrows DEF LifecycleInvariant
<1>4. PoolIsOpen' = PoolIsOpen
  BY <1>2 DEF PoolIsOpen
<1>5. inUse' \in 0..MaxSessions /\ SessionsAreCounted' /\ NoSessionsBeforeThePool'
  BY <1>2, <1>3, <1>4, LifecycleAssumption
     DEF LifecycleInvariant, TypeOK, SessionsAreCounted, NoSessionsBeforeThePool, PoolIsOpen
<1>6. (\A v \in Workers \ {w} : pc'[v] = pc[v]) /\ pc'[w] = p
  BY <1>1 DEF LifecycleInvariant, TypeOK
<1>7. WellRouted' /\ EventsAreHeard' /\ RequestsFindTheirHandler'
  BY <1>1, <1>2, <1>6 DEF LifecycleInvariant, WellRouted, EventsAreHeard, RequestsFindTheirHandler, Workers
<1>8. AnswersAreDocumented'
  BY <1>2, <1>6 DEF LifecycleInvariant, AnswersAreDocumented, IsDocumented, Workers
<1>9. ThreadsAreSound'
  BY <1>1, <1>2, <1>7, <1>8 DEF LifecycleInvariant, TypeOK, ThreadsAreSound
<1>10. QED
  BY <1>2, <1>5, <1>9, StepOfAThread

LEMMA NoSessionStep ==
    ASSUME LifecycleInvariant, NEW w \in Workers, NoSession(w)
    PROVE  LifecycleInvariant'
<1>1. PICK how \in {"exhausted", "no pool"} :
        End(w, how) /\ (how = "no pool" => ~PoolIsOpen)
  BY DEF NoSession
<1>2. pc[w] = "opening" /\ UNCHANGED <<step, done, inUse, taken>>
  BY DEF NoSession
<1>3. how \in Endings
  BY DEF Endings, PocoExceptions, RuntimeErrors
<1>4. ASSUME w \in HttpWorkers
      PROVE  /\ how # "no handler"
             /\ how \in {"no pool", "session closed"} => "ShutdownPool" \in done
             /\ IsDocumented(handler[w], how)
  <2>1. "StartServer" \in done
    BY <1>2, <1>4 DEF LifecycleInvariant, WellRouted
  <2>2. "ConfigurePool" \in done
    BY <2>1, OrderOfStart DEF LifecycleInvariant
  <2>3. handler[w] \in {"Allocate", "AddBatch", "AllocationsView"}
    BY <1>2, <1>4 DEF LifecycleInvariant, WellRouted, CommandHandlers
  <2>4. how = "no pool" => "ShutdownPool" \in done
    BY <1>1, <2>2 DEF PoolIsOpen
  <2>5. IsDocumented(handler[w], how)
    BY <2>3, <2>4, DocumentedEndings
  <2>6. QED
    BY <2>4, <2>5
<1>5. ThreadsAreSound' /\ \E p \in {"off", "waiting", "answering"} : pc' = [pc EXCEPT ![w] = p]
  BY <1>1, <1>2, <1>3, <1>4, EndStep
<1>6. Holding' = Holding
  BY <1>2, <1>5, HoldingStays DEF LifecycleInvariant
<1>7. QED
  BY <1>2, <1>5, <1>6, SameSessions, StepOfAThread

LEMMA FindHandlerStep ==
    ASSUME LifecycleInvariant, NEW w \in Workers, FindHandler(w)
    PROVE  LifecycleInvariant'
<1>1. /\ pc[w] = "looking" /\ pc' = [pc EXCEPT ![w] = "working"] /\ handler[w] \in done
      /\ UNCHANGED <<step, done, handler, ending, inUse, taken>>
  BY DEF FindHandler
<1>2. (\A v \in Workers \ {w} : pc'[v] = pc[v]) /\ pc'[w] = "working"
  BY <1>1 DEF LifecycleInvariant, TypeOK
<1>3. handler[w] \in CommandHandlers
  BY <1>1 DEF LifecycleInvariant, WellRouted
<1>4. EventHandlers \subseteq done
  BY <1>1, <1>3, OrderOfStart DEF LifecycleInvariant
<1>5. WellRouted' /\ EventsAreHeard' /\ RequestsFindTheirHandler'
  BY <1>1, <1>2, <1>3, <1>4
     DEF LifecycleInvariant, WellRouted, EventsAreHeard, RequestsFindTheirHandler, Workers
<1>6. AnswersAreDocumented'
  BY <1>1, <1>2 DEF LifecycleInvariant, AnswersAreDocumented, IsDocumented, Workers
<1>7. ThreadsAreSound'
  BY <1>1, <1>5, <1>6 DEF LifecycleInvariant, TypeOK, ThreadsAreSound
<1>8. Holding' = Holding
  BY <1>1, HoldingStays DEF LifecycleInvariant
<1>9. QED
  BY <1>1, <1>7, <1>8, SameSessions, StepOfAThread

\* A request that held a session ends and gives it back.
LEMMA EndOfAHolder ==
    ASSUME LifecycleInvariant, NEW w \in Holding, NEW how \in Endings, End(w, how), ReturnSession,
           UNCHANGED <<step, done, taken>>,
           w \in HttpWorkers =>
              /\ how # "no handler"
              /\ how \in {"no pool", "session closed"} => "ShutdownPool" \in done
              /\ IsDocumented(handler[w], how)
    PROVE  LifecycleInvariant'
<1>1. w \in Workers /\ pc[w] \in {"opening", "looking", "working", "querying"}
  BY DEF Holding
<1>2. ThreadsAreSound' /\ \E p \in {"off", "waiting", "answering"} : pc' = [pc EXCEPT ![w] = p]
  BY <1>1, EndStep
<1>3. inUse' \in 0..MaxSessions /\ SessionsAreCounted' /\ NoSessionsBeforeThePool'
  BY <1>2, SessionGivenBack
<1>4. QED
  BY <1>2, <1>3, StepOfAThread

LEMMA NoHandlerStep ==
    ASSUME LifecycleInvariant, NEW w \in Workers, NoHandler(w)
    PROVE  LifecycleInvariant'
<1>1. /\ pc[w] = "looking" /\ handler[w] \notin done /\ End(w, "no handler") /\ ReturnSession
      /\ UNCHANGED <<step, done, taken>>
  BY DEF NoHandler
<1>2. w \notin HttpWorkers
  <2> SUFFICES ASSUME w \in HttpWorkers PROVE FALSE
    OBVIOUS
  <2>1. "StartServer" \in done /\ handler[w] \in CommandHandlers
    BY <1>1 DEF LifecycleInvariant, WellRouted
  <2>2. QED
    BY <1>1, <2>1, OrderOfStart DEF LifecycleInvariant
<1>3. "no handler" \in Endings /\ w \in Holding
  BY <1>1 DEF Endings, RuntimeErrors, Holding
<1>4. QED
  BY <1>1, <1>2, <1>3, EndOfAHolder

LEMMA FinishStep ==
    ASSUME LifecycleInvariant, NEW w \in Workers, Finish(w) \/ FinishQuery(w)
    PROVE  LifecycleInvariant'
<1>1. /\ pc[w] \in {"working", "querying"} /\ ReturnSession /\ UNCHANGED <<step, done, taken>>
      /\ w \in Holding
  BY DEF Finish, FinishQuery, Holding
<1>2. PICK how \in {"done", "database", "serialization", "unknown sku", "version", "no rows"} :
        /\ End(w, how)
        /\ how \in {"unknown sku", "version"} => handler[w] = "Allocate"
        /\ how = "no rows" => pc[w] = "querying"
  <2>1. CASE Finish(w)
    BY <2>1 DEF Finish
  <2>2. CASE FinishQuery(w)
    BY <2>2 DEF FinishQuery
  <2>3. QED
    BY <2>1, <2>2
<1>3. how \in Endings
  BY DEF Endings, PocoExceptions, RuntimeErrors, OtherExceptions
<1>4. ASSUME w \in HttpWorkers PROVE IsDocumented(handler[w], how)
  <2>1. /\ handler[w] \in {"Allocate", "AddBatch", "AllocationsView"}
        /\ how = "no rows" => handler[w] = "AllocationsView"
    BY <1>1, <1>2, <1>4 DEF LifecycleInvariant, WellRouted, CommandHandlers
  <2>2. QED
    BY <1>2, <2>1, DocumentedEndings
<1>5. QED
  BY <1>1, <1>2, <1>3, <1>4, EndOfAHolder

LEMMA SessionClosedStep ==
    ASSUME LifecycleInvariant, NEW w \in Workers, SessionClosed(w)
    PROVE  LifecycleInvariant'
<1>1. /\ pc[w] \in {"working", "querying"} /\ ~PoolIsOpen /\ End(w, "session closed")
      /\ UNCHANGED <<step, done, inUse, taken>> /\ w \in Holding
  BY DEF SessionClosed, Holding
<1>2. "session closed" \in Endings /\ ReturnSession
  BY <1>1 DEF Endings, PocoExceptions, ReturnSession
<1>3. "ConfigurePool" \in done
  BY <1>1 DEF LifecycleInvariant, NoSessionsBeforeThePool
<1>4. "ShutdownPool" \in done
  BY <1>1, <1>3 DEF PoolIsOpen
<1>5. ASSUME w \in HttpWorkers PROVE IsDocumented(handler[w], "session closed")
  <2>1. handler[w] \in {"Allocate", "AddBatch", "AllocationsView"}
    BY <1>1, <1>5 DEF LifecycleInvariant, WellRouted, CommandHandlers
  <2>2. QED
    BY <2>1, DocumentedEndings
<1>6. QED
  BY <1>1, <1>2, <1>4, <1>5, EndOfAHolder

LEMMA ReleasedStep ==
    ASSUME LifecycleInvariant, NEW w \in Workers, Release(w), UNCHANGED <<step, done, inUse, taken>>,
           pc[w] \in {"waiting", "answering"}
    PROVE  LifecycleInvariant'
<1>1. ThreadsAreSound' /\ \E p \in {"off", "waiting"} : pc' = [pc EXCEPT ![w] = p]
  BY ReleaseStep
<1>2. Holding' = Holding
  BY <1>1, HoldingStays DEF LifecycleInvariant
<1>3. QED
  BY <1>1, <1>2, SameSessions, StepOfAThread

LEMMA ConnectionLostStep ==
    ASSUME LifecycleInvariant, ConnectionLost
    PROVE  LifecycleInvariant'
<1>1. /\ pc[Reader] = "waiting" /\ pc' = [pc EXCEPT ![Reader] = "off"] /\ Reader \in Workers
      /\ UNCHANGED <<step, done, handler, ending, inUse, taken>>
  BY DEF ConnectionLost, Workers
<1>2. (\A v \in Workers \ {Reader} : pc'[v] = pc[v]) /\ pc'[Reader] = "off"
  BY <1>1 DEF LifecycleInvariant, TypeOK
<1>3. WellRouted' /\ EventsAreHeard' /\ RequestsFindTheirHandler'
  BY <1>1, <1>2 DEF LifecycleInvariant, WellRouted, EventsAreHeard, RequestsFindTheirHandler, Workers
<1>4. AnswersAreDocumented'
  BY <1>1, <1>2 DEF LifecycleInvariant, AnswersAreDocumented, IsDocumented, Workers
<1>5. ThreadsAreSound'
  BY <1>1, <1>3, <1>4 DEF LifecycleInvariant, TypeOK, ThreadsAreSound
<1>6. Holding' = Holding
  BY <1>1, HoldingStays DEF LifecycleInvariant
<1>7. QED
  BY <1>1, <1>5, <1>6, SameSessions, StepOfAThread

LEMMA RollbackThrowsStep ==
    ASSUME LifecycleInvariant, NEW w \in Workers, RollbackThrows(w)
    PROVE  LifecycleInvariant'
<1>1. /\ step' = 18 /\ inUse' = 0 /\ UNCHANGED <<done, taken>>
      /\ \A v \in Workers : pc'[v] = "off" /\ handler'[v] = "none" /\ ending'[v] = "none"
  BY DEF RollbackThrows
<1>2. TypeOK'
  BY <1>1, LifecycleAssumption DEF RollbackThrows, LifecycleInvariant, TypeOK
<1>3. StepsInOrder'
  BY <1>1 DEF LifecycleInvariant, StepsInOrder
<1>4. WellRouted' /\ EventsAreHeard' /\ RequestsFindTheirHandler' /\ AnswersAreDocumented'
  BY <1>1 DEF WellRouted, EventsAreHeard, RequestsFindTheirHandler, AnswersAreDocumented, Workers
<1>5. Holding' = {}
  BY <1>1 DEF Holding
<1>6. SessionsAreCounted' /\ NoSessionsBeforeThePool'
  BY <1>1, <1>5, FS_EmptySet DEF SessionsAreCounted, NoSessionsBeforeThePool
<1>7. QED
  BY <1>2, <1>3, <1>4, <1>6 DEF LifecycleInvariant

LEMMA StartupFailsStep ==
    ASSUME LifecycleInvariant, StartupFails
    PROVE  LifecycleInvariant'
<1>1. step' \in {15, 17, 18} /\ UNCHANGED <<done, pc, handler, ending, inUse, taken>>
  BY DEF StartupFails
<1>2. step \in 1..14 /\ "ShutdownPool" \notin done
  <2>1. step \in 1..17
    BY DEF StartupFails, LifecycleInvariant, TypeOK, Ended
  <2>2. step \notin 14..17
    BY ProgramIs DEF StartupFails, MayFail
  <2>3. QED
    BY <2>1, <2>2 DEF LifecycleInvariant, StepsInOrder
<1>3. StepsInOrder'
  BY <1>1, <1>2 DEF LifecycleInvariant, StepsInOrder
<1>4. Holding' = Holding /\ PoolIsOpen' = PoolIsOpen
  BY <1>1 DEF Holding, PoolIsOpen
<1>5. TypeOK'
  BY <1>1 DEF LifecycleInvariant, TypeOK
<1>6. WellRouted' /\ EventsAreHeard' /\ RequestsFindTheirHandler'
  BY <1>1 DEF LifecycleInvariant, WellRouted, EventsAreHeard, RequestsFindTheirHandler
<1>7. AnswersAreDocumented'
  BY <1>1 DEF LifecycleInvariant, AnswersAreDocumented, IsDocumented
<1>8. SessionsAreCounted' /\ NoSessionsBeforeThePool'
  BY <1>1, <1>4 DEF LifecycleInvariant, SessionsAreCounted, NoSessionsBeforeThePool
<1>9. QED
  BY <1>3, <1>5, <1>6, <1>7, <1>8 DEF LifecycleInvariant

LEMMA AdvanceStep ==
    ASSUME LifecycleInvariant, Advance
    PROVE  LifecycleInvariant'
<1>1. /\ step \in 1..17 /\ step' = step + 1 /\ done' = done \cup {Program[step]}
      /\ UNCHANGED <<handler, ending, taken>>
  BY DEF Advance, LifecycleInvariant, TypeOK, Ended
<1>2. StepsInOrder'
  <2>1. CASE step <= 14
    <3>1. \A i \in 1..14 : i < step => Program[i] \in done
      BY <2>1 DEF LifecycleInvariant, StepsInOrder
    <3>2. \A i \in 1..14 : Program[i] \in done' => Program[i] \in done \/ i = step
      BY <1>1, <2>1, ProgramIs
    <3>3. \A i \in 1..14 : Program[i] \in done' => \A j \in 1..i : Program[j] \in done'
      BY <1>1, <3>1, <3>2 DEF LifecycleInvariant, StepsInOrder
    <3>4. "ShutdownPool" \notin done'
      BY <1>1, <2>1, ProgramIs DEF LifecycleInvariant, StepsInOrder
    <3>5. \A i \in 1..14 : Program[i] \in done' => i < step'
      BY <1>1, <2>1, <3>2 DEF LifecycleInvariant, StepsInOrder
    <3>6. QED
      BY <1>1, <2>1, <3>1, <3>3, <3>4, <3>5 DEF StepsInOrder
  <2>2. CASE step > 14
    <3>1. \A i \in 1..14 : Program[i] \in done' => Program[i] \in done
      BY <1>1, <2>2, ProgramIs
    <3>2. "ShutdownPool" \in done' => step' > 16
      BY <1>1, <2>2, ProgramIs DEF LifecycleInvariant, StepsInOrder
    <3>3. QED
      BY <1>1, <2>2, <3>1, <3>2 DEF LifecycleInvariant, StepsInOrder
  <2>3. QED
    BY <1>1, <2>1, <2>2
<1>. DEFINE Places == {"off", "waiting", "opening", "looking", "working", "querying", "answering"}
<1>0. pc \in [Workers -> Places]
  BY DEF LifecycleInvariant, TypeOK
<1>3. /\ \A v \in Workers : pc'[v] = pc[v] \/ (v = Reader /\ pc'[v] = "waiting" /\ Program[step] = "StartReader")
      /\ pc' \in [Workers -> Places]
  <2>1. CASE Program[step] = "StartReader"
    <3>1. pc' = [pc EXCEPT ![Reader] = "waiting"]
      BY <2>1 DEF Advance
    <3>2. QED
      BY <1>0, <2>1, <3>1
  <2>2. CASE Program[step] # "StartReader"
    <3>1. pc' = pc
      BY <2>2 DEF Advance
    <3>2. QED
      BY <1>0, <3>1
  <2>3. QED
    BY <2>1, <2>2
<1>4. TypeOK'
  <2>1. inUse' \in 0..MaxSessions
    BY LifecycleAssumption DEF Advance, LifecycleInvariant, TypeOK
  <2>2. done' \subseteq Steps /\ step' \in 1..18
    BY <1>1, StepTypes DEF LifecycleInvariant, TypeOK
  <2>3. QED
    BY <1>1, <1>3, <2>1, <2>2 DEF LifecycleInvariant, TypeOK
<1>5. WellRouted' /\ EventsAreHeard' /\ RequestsFindTheirHandler'
  BY <1>1, <1>3, LifecycleAssumption
     DEF LifecycleInvariant, WellRouted, EventsAreHeard, RequestsFindTheirHandler, Workers
<1>6. AnswersAreDocumented'
  BY <1>1, <1>3, LifecycleAssumption DEF LifecycleInvariant, AnswersAreDocumented, IsDocumented, Workers
<1>7. Holding' \subseteq Holding /\ (Program[step] # "StartReader" => Holding' = Holding)
  BY <1>3 DEF Holding
<1>8. NoSessionsBeforeThePool'
  BY <1>1, <1>7 DEF Advance, LifecycleInvariant, NoSessionsBeforeThePool
<1>9. SessionsAreCounted'
  <2>1. CASE PoolIsOpen
    <3>1. step # 3
      BY <2>1, ProgramIs DEF LifecycleInvariant, StepsInOrder, PoolIsOpen
    <3>2. Program[step] # "StartReader"
      BY <1>1, <3>1, ProgramIs
    <3>3. CASE Program[step] = "ShutdownPool"
      BY <1>1, <3>3 DEF SessionsAreCounted, PoolIsOpen
    <3>4. CASE Program[step] # "ShutdownPool"
      <4>1. inUse' = inUse /\ Holding' = Holding
        BY <1>7, <3>2, <3>4 DEF Advance
      <4>2. QED
        BY <2>1, <4>1 DEF LifecycleInvariant, SessionsAreCounted
    <3>5. QED
      BY <3>3, <3>4
  <2>2. CASE ~PoolIsOpen /\ "ConfigurePool" \notin done
    <3>1. inUse' = 0 /\ Holding' = {}
      BY <1>7, <2>2 DEF Advance, LifecycleInvariant, NoSessionsBeforeThePool
    <3>2. QED
      BY <3>1, FS_EmptySet DEF SessionsAreCounted
  <2>3. CASE "ShutdownPool" \in done
    BY <1>1, <2>3 DEF SessionsAreCounted, PoolIsOpen
  <2>4. QED
    BY <2>1, <2>2, <2>3 DEF PoolIsOpen
<1>10. QED
  BY <1>2, <1>4, <1>5, <1>6, <1>8, <1>9 DEF LifecycleInvariant

LEMMA ServeStep ==
    ASSUME LifecycleInvariant, NEW w \in Workers, Serve(w)
    PROVE  LifecycleInvariant'
<1>1. CASE OpenSession(w)
  BY <1>1, OpenSessionStep
<1>2. CASE NoSession(w)
  BY <1>2, NoSessionStep
<1>3. CASE FindHandler(w)
  BY <1>3, FindHandlerStep
<1>4. CASE NoHandler(w)
  BY <1>4, NoHandlerStep
<1>5. CASE Finish(w) \/ FinishQuery(w)
  BY <1>5, FinishStep
<1>6. CASE SessionClosed(w)
  BY <1>6, SessionClosedStep
<1>7. CASE Answer(w)
  BY <1>7, ReleasedStep DEF Answer
<1>8. QED
  BY <1>1, <1>2, <1>3, <1>4, <1>5, <1>6, <1>7 DEF Serve

LEMMA NextKeepsLifecycle ==
    ASSUME LifecycleInvariant, [Next]_vars
    PROVE  LifecycleInvariant'
<1>1. CASE Advance
  BY <1>1, AdvanceStep
<1>2. CASE StartupFails
  BY <1>2, StartupFailsStep
<1>3. CASE \E w \in HttpWorkers : HandleRequest(w)
  <2>1. PICK w \in HttpWorkers : HandleRequest(w)
    BY <1>3
  <2>2. PICK r \in Requests : Take(w, HandlerOf(r), Read(r))
    BY <2>1 DEF HandleRequest
  <2>3. w \in Workers /\ w # Reader /\ "StartServer" \in done
    BY <2>1, LifecycleAssumption DEF HandleRequest, Workers
  <2>4. QED
    BY <2>2, <2>3, TakeStep
<1>4. CASE OnRedisMessage
  <2>1. Take(Reader, "ChangeBatchQuantity", "command")
    BY <1>4 DEF OnRedisMessage
  <2>2. Reader \in Workers /\ Reader \notin HttpWorkers
    BY LifecycleAssumption DEF Workers
  <2>3. QED
    BY <2>1, <2>2, TakeStep
<1>5. CASE IgnoreMessage
  <2>1. Reader \in Workers
    BY DEF Workers
  <2>2. QED
    BY <1>5, <2>1, ReleasedStep DEF IgnoreMessage
<1>6. CASE ConnectionLost
  BY <1>6, ConnectionLostStep
<1>7. CASE \E w \in Workers : Serve(w) \/ RollbackThrows(w)
  BY <1>7, ServeStep, RollbackThrowsStep
<1>8. CASE Rest \/ UNCHANGED vars
  <2>1. UNCHANGED vars
    BY <1>8 DEF Rest
  <2>2. UNCHANGED <<step, done, pc, handler, ending, inUse, taken>>
    BY <2>1 DEF vars
  <2>3. Holding' = Holding /\ PoolIsOpen' = PoolIsOpen
    BY <2>2 DEF Holding, PoolIsOpen
  <2>4. TypeOK' /\ StepsInOrder'
    BY <2>2 DEF LifecycleInvariant, TypeOK, StepsInOrder
  <2>5. WellRouted' /\ EventsAreHeard' /\ RequestsFindTheirHandler'
    BY <2>2 DEF LifecycleInvariant, WellRouted, EventsAreHeard, RequestsFindTheirHandler
  <2>6. AnswersAreDocumented'
    BY <2>2 DEF LifecycleInvariant, AnswersAreDocumented, IsDocumented
  <2>7. SessionsAreCounted' /\ NoSessionsBeforeThePool'
    BY <2>2, <2>3 DEF LifecycleInvariant, SessionsAreCounted, NoSessionsBeforeThePool
  <2>8. QED
    BY <2>4, <2>5, <2>6, <2>7 DEF LifecycleInvariant
<1>9. QED
  BY <1>1, <1>2, <1>3, <1>4, <1>5, <1>6, <1>7, <1>8 DEF Next

-----------------------------------------------------------------------------
(* The theorems *)

\* The invariant is inductive: the order of the start, the routes and the pool's count hold
\* together in every reachable state.
THEOREM LifecycleIsInvariant == Spec => []LifecycleInvariant
<1>1. Init => LifecycleInvariant
  BY InitLifecycle
<1>2. LifecycleInvariant /\ [Next]_vars => LifecycleInvariant'
  BY NextKeepsLifecycle
<1>3. QED
  BY <1>1, <1>2, PTL DEF Spec

\* No command runs before all subscriptions of its events are made: MessageBus::Handle never
\* drops an event for want of a handler.
THEOREM EventsAreAlwaysHeard == Spec => []EventsAreHeard
<1>1. LifecycleInvariant => EventsAreHeard
  BY DEF LifecycleInvariant
<1>2. QED
  BY <1>1, LifecycleIsInvariant, PTL

\* No HTTP request meets a bus without its handler, or a pool that is not configured yet.
THEOREM HandlersAreFound == Spec => []RequestsFindTheirHandler
<1>1. LifecycleInvariant => RequestsFindTheirHandler
  BY DEF LifecycleInvariant
<1>2. QED
  BY <1>1, LifecycleIsInvariant, PTL

\* The catch blocks answer every way a request may end with a status the API's description lists
\* for it: with the one it gives for that ending, except in the known disagreements, which are
\* such each of them.
THEOREM AnswersAreAlwaysDocumented == Spec => []AnswersAreDocumented
<1>1. LifecycleInvariant => AnswersAreDocumented
  BY DEF LifecycleInvariant
<1>2. QED
  BY <1>1, LifecycleIsInvariant, PTL

\* The session pool loses no session and gets none back twice.
THEOREM SessionsBalance == Spec => []SessionsAreCounted
<1>1. LifecycleInvariant => SessionsAreCounted
  BY DEF LifecycleInvariant
<1>2. QED
  BY <1>1, LifecycleIsInvariant, PTL

\* A pool with a session for each thread is never found empty.
THEOREM NeverRunsOut == Spec => []NeverExhausted
<1>1. LifecycleInvariant => NeverExhausted
  <2> SUFFICES ASSUME LifecycleInvariant, MaxSessions >= Cardinality(Workers),
                      NEW w \in Workers, pc[w] = "opening", PoolIsOpen
               PROVE  inUse < MaxSessions
    BY DEF NeverExhausted
  <2>1. Holding \subseteq Workers \ {w}
    BY DEF Holding
  <2>2. IsFiniteSet(Workers \ {w}) /\ Cardinality(Workers \ {w}) = Cardinality(Workers) - 1
    BY WorkersAreFinite, FS_RemoveElement
  <2>3. Cardinality(Holding) <= Cardinality(Workers \ {w})
    BY <2>1, <2>2, FS_Subset
  <2>4. Cardinality(Workers) \in Nat
    BY WorkersAreFinite, FS_CardinalityType
  <2>5. inUse = Cardinality(Holding)
    BY DEF LifecycleInvariant, SessionsAreCounted
  <2>6. QED
    BY <2>2, <2>3, <2>4, <2>5, WorkersAreFinite, LifecycleAssumption
<1>2. QED
  BY <1>1, LifecycleIsInvariant, PTL
=============================================================================
