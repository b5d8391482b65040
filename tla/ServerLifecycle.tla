--------------------------- MODULE ServerLifecycle ---------------------------
(***************************************************************************)
(* The server process from start to end: the main thread runs initialize,  *)
(* the main cycle, uninitialize and the destructor while the Redis reader  *)
(* and the threads of the HTTP server already, or still, handle requests.  *)
(* What a command does to the stock is left to AllocationService; here it  *)
(* needs a session of the pool, a command handler and the subscriptions of *)
(* its events, and every request an answer.                                *)
(***************************************************************************)
EXTENDS Integers, Sequences, FiniteSets, RestRequests

CONSTANTS
    HttpWorkers,   \* threads of the HTTP server's pool
    Reader,        \* the thread of the Redis AsyncReader
    Requests,      \* what clients send
    Payloads,      \* what Redis delivers on the channel
    MaxSessions,   \* limit of the session pool
    MaxTaken       \* bound of the number of requests each thread takes, for model checking

Workers == HttpWorkers \cup {Reader}

ASSUME LifecycleAssumption ==
    Reader \notin HttpWorkers /\ IsFiniteSet(HttpWorkers) /\ MaxSessions \in Nat /\ MaxTaken \in Nat

\* Each command goes with the name of its handler.
CommandHandlers == {"Allocate", "AddBatch", "ChangeBatchQuantity"}

EventHandlers == {"PublishAllocatedEvent", "AddAllocationToReadModel",
                  "RemoveAllocationFromReadModel", "Reallocate", "SendOutOfStockNotification"}

\* InitRedis, InitDatabase, InitMessageBus, InitServer and the main cycle, uninitialize, the
\* destructor.
\* Mutants: the bus takes commands before events; the HTTP server starts before the bus is set up.
CommandsFirst ==
    <<"ConfigureRedis", "Subscribe", "StartReader", "ConfigurePool",
      "Allocate", "AddBatch", "ChangeBatchQuantity",
      "PublishAllocatedEvent", "AddAllocationToReadModel", "RemoveAllocationFromReadModel",
      "Reallocate", "SendOutOfStockNotification",
      "StartServer", "StopServer", "StopReader", "ShutdownPool", "DestroyListener">>
EarlyServer ==
    <<"ConfigureRedis", "Subscribe", "StartReader", "ConfigurePool", "StartServer",
      "PublishAllocatedEvent", "AddAllocationToReadModel", "RemoveAllocationFromReadModel",
      "Reallocate", "SendOutOfStockNotification", "Allocate", "AddBatch", "ChangeBatchQuantity",
      "StopServer", "StopReader", "ShutdownPool", "DestroyListener">>
Program ==
    <<"ConfigureRedis", "Subscribe", "StartReader", "ConfigurePool",
      "PublishAllocatedEvent", "AddAllocationToReadModel", "RemoveAllocationFromReadModel",
      "Reallocate", "SendOutOfStockNotification", "Allocate", "AddBatch", "ChangeBatchQuantity",
      "StartServer", "StopServer", "StopReader", "ShutdownPool", "DestroyListener">>

Steps == {Program[i] : i \in 1..17}

\* They talk to Redis, or read the configuration, or bind the port.
MayFail == {"ConfigureRedis", "Subscribe", "ConfigurePool", "PublishAllocatedEvent", "StartServer"}

VARIABLES
    step,      \* the main thread: Program[step] comes next
    done,      \* the steps it has done
    pc,        \* per thread: where it is with its request
    handler,   \* per thread: the handler of its request, or of its command
    ending,    \* per thread: how its request ended, until it is answered
    inUse,     \* sessions handed out, as the pool counts them
    taken      \* per thread: requests taken so far

vars == <<step, done, pc, handler, ending, inUse, taken>>

Ended == step = 18

PoolIsOpen == "ConfigurePool" \in done /\ "ShutdownPool" \notin done

\* By uninitialize or, where that is skipped, by the listener's destructor.
ReaderIsStopped == "StopReader" \in done \/ step >= 17

\* Threads with a session.
Holding == {w \in Workers : pc[w] \in {"looking", "working", "querying"}}

TypeOK ==
    /\ step \in 1..18
    /\ done \subseteq Steps
    /\ pc \in [Workers -> {"off", "waiting", "opening", "looking", "working", "querying", "answering"}]
    /\ handler \in [Workers -> Handlers \cup CommandHandlers \cup {"none"}]
    /\ ending \in [Workers -> Endings \cup {"none"}]
    /\ inUse \in 0..MaxSessions
    /\ taken \in [Workers -> 0..MaxTaken]

Init ==
    /\ step = 1
    /\ done = {}
    /\ pc = [w \in Workers |-> IF w = Reader THEN "off" ELSE "waiting"]
    /\ handler = [w \in Workers |-> "none"]
    /\ ending = [w \in Workers |-> "none"]
    /\ inUse = 0
    /\ taken = [w \in Workers |-> 0]

-----------------------------------------------------------------------------
(* The main thread *)

\* It waits for no request in progress.  The listener's destructor joins the reader, which
\* looks whether it was stopped only between two messages.
Advance ==
    /\ ~Ended
    /\ Program[step] = "DestroyListener" => pc[Reader] = "off"
    /\ step' = step + 1
    /\ done' = done \cup {Program[step]}
    /\ pc' = IF Program[step] = "StartReader" THEN [pc EXCEPT ![Reader] = "waiting"] ELSE pc
    /\ inUse' = IF Program[step] = "ShutdownPool" THEN 0 ELSE inUse
    /\ UNCHANGED <<handler, ending, taken>>

\* An exception, or --help instead of the main cycle.  The rest of the start is skipped, and
\* perhaps uninitialize too: that is up to Poco's Application::run.  Without a listener
\* uninitialize dereferences a null pointer, or there is nothing to destroy: the process ends.
StartupFails ==
    /\ ~Ended
    /\ Program[step] \in MayFail
    /\ step' \in IF Program[step] = "ConfigureRedis" THEN {18} ELSE {15, 17}
    /\ UNCHANGED <<done, pc, handler, ending, inUse, taken>>

-----------------------------------------------------------------------------
(* The threads *)

\* The thread is free again; the reader looks whether it was stopped.
\* Mutant: it does not look.
ReadOn(w) ==
    /\ pc' = [pc EXCEPT ![w] = "waiting"]
    /\ handler' = [handler EXCEPT ![w] = "none"]
    /\ ending' = [ending EXCEPT ![w] = "none"]
Release(w) ==
    /\ pc' = [pc EXCEPT ![w] = IF w = Reader /\ ReaderIsStopped THEN "off" ELSE "waiting"]
    /\ handler' = [handler EXCEPT ![w] = "none"]
    /\ ending' = [ending EXCEPT ![w] = "none"]

\* A request ends and is to be answered; the listener only logs how a message ended.
End(w, how) ==
    IF w = Reader THEN Release(w)
    ELSE /\ pc' = [pc EXCEPT ![w] = "answering"]
         /\ ending' = [ending EXCEPT ![w] = how]
         /\ UNCHANGED handler

\* The handler h has read its request: it has to open a unit of work, or is at an end.
Take(w, h, reading) ==
    /\ pc[w] = "waiting"
    /\ taken[w] < MaxTaken
    /\ taken' = [taken EXCEPT ![w] = @ + 1]
    /\ handler' = [handler EXCEPT ![w] = h]
    /\ IF reading \in Endings
       THEN /\ pc' = [pc EXCEPT ![w] = "answering"]
            /\ ending' = [ending EXCEPT ![w] = reading]
       ELSE /\ pc' = [pc EXCEPT ![w] = "opening"]
            /\ UNCHANGED ending
    /\ UNCHANGED <<step, done, inUse>>

\* The server accepts between start and stop.
HandleRequest(w) ==
    /\ "StartServer" \in done /\ "StopServer" \notin done
    /\ \E r \in Requests : Take(w, HandlerOf(r), Read(r))

\* A read that is under way when the reader is stopped still delivers its message.
OnRedisMessage ==
    \E p \in Payloads :
        /\ Parse("ChangeBatchQuantity", p) = "command"
        /\ Take(Reader, "ChangeBatchQuantity", "command")

\* An answer to SUBSCRIBE, an empty or an unreadable payload: logged at most.  Also a message
\* that finds the table of handlers destroyed, while the destructor waits for the reader.
IgnoreMessage ==
    /\ pc[Reader] = "waiting"
    /\ Release(Reader)
    /\ UNCHANGED <<step, done, inUse, taken>>

\* The reader stops at an exception of its connection, and nobody starts it again.
ConnectionLost ==
    /\ pc[Reader] = "waiting"
    /\ pc' = [pc EXCEPT ![Reader] = "off"]
    /\ UNCHANGED <<step, done, handler, ending, inUse, taken>>

\* The session goes back to the pool it is from, if that still exists.
\* Mutants: nobody gives a session back; the handler's catch block and the destructor both do.
KeepSession == UNCHANGED inUse
ReturnTwice == inUse' = inUse - 2
ReturnSession == inUse' = IF PoolIsOpen THEN inUse - 1 ELSE inUse

\* The unit of work's constructor asks the pool for a session.
OpenSession(w) ==
    /\ pc[w] = "opening"
    /\ PoolIsOpen
    /\ inUse < MaxSessions
    /\ inUse' = inUse + 1
    /\ pc' = [pc EXCEPT ![w] = IF handler[w] = "AllocationsView" THEN "querying" ELSE "looking"]
    /\ UNCHANGED <<step, done, handler, ending, taken>>

\* Mutant: ask again until there is one.
AskAgain(w) ==
    /\ pc[w] = "opening"
    /\ ~PoolIsOpen \/ inUse >= MaxSessions
    /\ UNCHANGED vars
NoSession(w) ==
    /\ pc[w] = "opening"
    /\ ~PoolIsOpen \/ inUse >= MaxSessions
    /\ End(w, IF PoolIsOpen THEN "exhausted" ELSE "no pool")
    /\ UNCHANGED <<step, done, inUse, taken>>

\* The bus looks the command up.  While InitMessageBus inserts the command's entry the lookup
\* may find it without a function yet: an exception just as when it is missing.
FindHandler(w) ==
    /\ pc[w] = "looking"
    /\ handler[w] \in done
    /\ pc' = [pc EXCEPT ![w] = "working"]
    /\ UNCHANGED <<step, done, handler, ending, inUse, taken>>

NoHandler(w) ==
    /\ pc[w] = "looking"
    /\ handler[w] \notin done
    /\ End(w, "no handler")
    /\ ReturnSession
    /\ UNCHANGED <<step, done, taken>>

\* The command and its events run: AllocationService.
Finish(w) ==
    /\ pc[w] = "working"
    /\ PoolIsOpen
    /\ \E how \in {"done", "database", "serialization"} \cup
                  (IF handler[w] = "Allocate" THEN {"unknown sku", "version"} ELSE {}) : End(w, how)
    /\ ReturnSession
    /\ UNCHANGED <<step, done, taken>>

\* The view's SELECT.
FinishQuery(w) ==
    /\ pc[w] = "querying"
    /\ PoolIsOpen
    /\ \E how \in {"done", "no rows", "database"} : End(w, how)
    /\ ReturnSession
    /\ UNCHANGED <<step, done, taken>>

\* The first call on a session that Shutdown closed throws.
SessionClosed(w) ==
    /\ pc[w] \in {"working", "querying"}
    /\ ~PoolIsOpen
    /\ End(w, "session closed")
    /\ UNCHANGED <<step, done, inUse, taken>>

\* The unit of work's destructor rolls back.  An exception of a session that is closed or has
\* lost its connection must not leave a destructor: the whole process ends.
RollbackThrows(w) ==
    /\ w \in Holding
    /\ step' = 18
    /\ pc' = [v \in Workers |-> "off"]
    /\ handler' = [v \in Workers |-> "none"]
    /\ ending' = [v \in Workers |-> "none"]
    /\ inUse' = 0
    /\ UNCHANGED <<done, taken>>

\* A client that is gone makes no difference to the thread.
Answer(w) ==
    /\ pc[w] = "answering"
    /\ Release(w)
    /\ UNCHANGED <<step, done, inUse, taken>>

Serve(w) ==
    \/ OpenSession(w) \/ NoSession(w)
    \/ FindHandler(w) \/ NoHandler(w)
    \/ Finish(w) \/ FinishQuery(w) \/ SessionClosed(w)
    \/ Answer(w)

\* The process has ended.
Rest == Ended /\ UNCHANGED vars

Next ==
    \/ Advance
    \/ StartupFails
    \/ \E w \in HttpWorkers : HandleRequest(w)
    \/ OnRedisMessage
    \/ IgnoreMessage
    \/ ConnectionLost
    \/ \E w \in Workers : Serve(w) \/ RollbackThrows(w)
    \/ Rest

Spec == Init /\ [][Next]_vars

\* Threads are scheduled and calls return; nobody must ask the server to stop, and neither a
\* client nor Redis must send anything.
FairSpec ==
    /\ Spec
    /\ WF_vars(Advance /\ Program[step] # "StopServer")
    /\ \A w \in Workers : WF_vars(Serve(w))

-----------------------------------------------------------------------------
(* Properties *)

\* The bus drops an event nobody subscribed to without a word.  None is dropped: although the
\* reader runs before InitMessageBus, and InitMessageBus may fail half-way, a command finds its
\* handler only once every subscription is made.
EventsAreHeard ==
    \A w \in Workers : pc[w] = "working" => EventHandlers \subseteq done

\* An HTTP request always finds its handler, and finds the pool unless it outlasts the server.
RequestsFindTheirHandler ==
    \A w \in HttpWorkers :
        /\ ending[w] # "no handler"
        /\ ending[w] \in {"no pool", "session closed"} => "ShutdownPool" \in done

\* The pool counts as handed out just the sessions of the threads that hold one, however their
\* requests end ...
SessionsAreCounted == PoolIsOpen => inUse = Cardinality(Holding)

\* ... so that one session per thread is enough.
NeverExhausted ==
    MaxSessions >= Cardinality(Workers) =>
        \A w \in Workers : pc[w] = "opening" /\ PoolIsOpen => inUse < MaxSessions

\* The statuses docs/api/api.yaml lists for a request, and the one for success; others for what
\* it does not describe.
Documented == [Allocate        |-> {"ACCEPTED", "BAD_REQUEST", "CONFLICT", "INTERNAL_SERVER_ERROR"},
               AddBatch        |-> {"CREATED", "BAD_REQUEST", "INTERNAL_SERVER_ERROR"},
               AllocationsView |-> {"OK", "BAD_REQUEST", "NOT_FOUND", "INTERNAL_SERVER_ERROR"},
               Ping            |-> {"OK"},
               Options         |-> {"OK"},
               NotFound        |-> {"NOT_FOUND"}]
Promised == [Allocate |-> "ACCEPTED", AddBatch |-> "CREATED", AllocationsView |-> "OK",
             Ping |-> "OK", Options |-> "OK", NotFound |-> "NOT_FOUND"]

\* What it says of each way to end: 400 "Invalid request payload" (or parameters), 404 "no
\* allocations available", for /allocate 409 "concurrent update", else 500.  It does not name
\* an unknown SKU: an invalid request, or a business rule.
Described(h, how) ==
    CASE how = "done"                                               -> {Promised[h]}
      [] how \in {"no object", "invalid", "out of range", "no order"} -> {"BAD_REQUEST"}
      [] how = "unknown sku"                                        -> {"BAD_REQUEST", "CONFLICT"}
      [] how = "no rows"                                            -> {"NOT_FOUND"}
      [] how \in {"version", "serialization"} /\ h = "Allocate"     -> {"CONFLICT"}
      [] OTHER                                                      -> {"INTERNAL_SERVER_ERROR"}

\* Where the code is known to answer something else: a body that is no JSON object is parsed
\* outside of the try block and a number too large is a Poco exception, both answered 500; so is
\* the serialization failure of a concurrent update (ConcurrentUpdateIsConflict); and a request
\* that outlasts the pool ends in a runtime error, answered 409 or 400.
Disagreements(h) ==
    {"no object", "out of range", "no pool"} \cup (IF h = "Allocate" THEN {"serialization"} ELSE {})

IsDocumented(h, how) ==
    /\ Status(h, how) \in Documented[h]
    /\ Status(h, how) \in Described(h, how) <=> how \notin Disagreements(h)

\* Every request is answered with a status that is listed for it, and with the one described for
\* the way it ended, in all cases but the known disagreements, and in none of these.
AnswersAreDocumented ==
    \A w \in HttpWorkers : pc[w] = "answering" => IsDocumented(handler[w], ending[w])

\* Whatever the main thread does up to the end of the main cycle comes in the order of Program,
\* also when the start fails half-way.
StepsInOrder ==
    /\ \A i \in 1..14 : i < step /\ step <= 14 => Program[i] \in done
    /\ \A i \in 1..14 : Program[i] \in done /\ step <= 14 => i < step
    /\ \A i \in 1..14 : Program[i] \in done => \A j \in 1..i : Program[j] \in done
    /\ "ShutdownPool" \in done => step > 16

\* Requests of the HTTP server come after its start, and only commands get to the bus.
WellRouted ==
    /\ \A w \in HttpWorkers : pc[w] \notin {"waiting", "off"} => "StartServer" \in done
    /\ \A w \in Workers :
          /\ pc[w] \in {"opening", "looking", "working"} => handler[w] \in CommandHandlers \cup {"AllocationsView"}
          /\ pc[w] \in {"looking", "working"} => handler[w] \in CommandHandlers
          /\ pc[w] = "querying" => handler[w] = "AllocationsView"
          /\ w \in HttpWorkers => handler[w] # "ChangeBatchQuantity"

NoSessionsBeforeThePool == "ConfigurePool" \notin done => Holding = {} /\ inUse = 0

\* The inductive invariant.
LifecycleInvariant ==
    /\ TypeOK
    /\ StepsInOrder
    /\ WellRouted
    /\ EventsAreHeard
    /\ RequestsFindTheirHandler
    /\ AnswersAreDocumented
    /\ SessionsAreCounted
    /\ NoSessionsBeforeThePool

\* Every request is answered, also one that outlasts the pool, unless the process dies.
RequestsAreAnswered ==
    \A w \in HttpWorkers : pc[w] = "opening" ~> pc[w] \in {"waiting", "off"}

\* The process may hang in the listener's destructor as long as Redis is silent, but one message
\* after the stop, whatever becomes of it, is enough to end it.
OneMessageEndsTheProcess ==
    ReaderIsStopped /\ pc[Reader] # "waiting" ~> Ended
=============================================================================
