-------------------------- MODULE ServiceProperties --------------------------
(***************************************************************************)
(* What AllocationService is checked for.                                  *)
(***************************************************************************)
EXTENDS AllocationService

Quiescent == \A w \in Workers : pc[w] = "idle"

Holds(r, l) == batches[r] # NoBatch /\ l \in batches[r].allocations

AnsweredAllocate(l, statuses) ==
    \E a \in answers : a.command.type = "Allocate" /\ a.command.line = l /\ a.status \in statuses

\* What GET /allocations/{orderid} answers; 404 when it is empty.
Allocations(orderid) == {<<x[1].sku, x[2]>> : x \in {y \in view : y[1].reference = orderid}}

SentOnce(l) == \A c \in Commands : c.type = "Allocate" /\ c.line = l => Deliveries[c] = 1

-----------------------------------------------------------------------------
(* The stock *)

\* No committed batch ever holds more than was purchased, whatever threads allocate to it and
\* change its quantity at the same time (Batch::CanAllocate against optimistic locking).
NoOversell == \A r \in Refs : batches[r] # NoBatch => Available(batches[r]) >= 0

\* Why NoOversell is kept: the objects the threads work on never hold too much either, as
\* they are what a commit stores; they are of their command's product; and every batch row
\* has the product row its foreign key names, so a product can be loaded from it.
TrackedIsSound == \A w \in Workers : tracked[w] # NoProduct => Sound(tracked[w])

WorksOnItsProduct ==
    \A w \in Workers : pc[w] = "execute" =>
        /\ command[w].type = "CreateBatch" => tracked[w].sku = command[w].sku
        /\ command[w].type = "ChangeBatchQuantity" => Contains(tracked[w], command[w].ref)

ReallocatesAnEvent == \A w \in Workers : pc[w] = "reallocate" => queue[w] # <<>>

BatchesHaveProducts == \A r \in Refs : batches[r] # NoBatch => products[batches[r].sku] # NoVersion

StockInvariant ==
    /\ TypeOK
    /\ NoOversell
    /\ TrackedIsSound
    /\ WorksOnItsProduct
    /\ ReallocatesAnEvent
    /\ BatchesHaveProducts

\* A line whose command is sent once is never in two batches, however it is reallocated: the
\* goods of one order line are reserved once.
OneBatchPerLine ==
    \A l \in OrderLines : SentOnce(l) =>
        \A r, q \in Refs : Holds(r, l) /\ Holds(q, l) => r = q

\* The threads' cached, optimistic, possibly failing units of work amount to the atomic
\* ledger: no commit overwrites what another one stored (ProductMapper::Update rewrites whole
\* batches from memory).
Ledger == INSTANCE StockLedger WITH stock <- batches
ImplementsLedger == Ledger!Spec

\* p holds the stored batches of its SKU.
IsCurrent(p) ==
    \A r \in Refs : p.batches[r] =
        IF batches[r] # NoBatch /\ batches[r].sku = p.sku THEN batches[r] ELSE NoBatch

\* Optimistic locking of commands: a product row nobody committed since the snapshot means
\* that the object read from that snapshot is still what is stored.
UndisturbedIsCurrent ==
    \A w \in Workers :
        pc[w] = "execute" /\ <<"products", tracked[w].sku>> \notin stale[w] =>
            IsCurrent(tracked[w])

\* Optimistic locking of reallocations, which reuse the object of the first transaction in
\* later ones: as long as the stored version is the one it was loaded with, the batches it
\* holds are the stored ones.  Only the listener gets there; its being a single thread matters,
\* since a quantity change does not raise the version.
SameVersionIsCurrent ==
    LET p == tracked[Listener]
    IN /\ pc[Listener] = "events"
       /\ ~p.modified
       /\ products[p.sku] = oldVersion[Listener]
       => \A r \in Refs : Contains(p, r) => p.batches[r] = batches[r]

\* When a line enters a batch the product's version rises in the same commit, so no two
\* states of a product's allocations that only add lines share a version.
PlacingRaisesVersion ==
    [][\A r \in Refs : \A l \in OrderLines :
          Holds(r, l)' /\ ~Holds(r, l) =>
              /\ products[l.sku] # NoVersion
              /\ products'[l.sku] > products[l.sku]]_<<products, batches>>

\* The line of an /allocate command goes to the earliest batch that can take it among those
\* stored at the moment of the commit, not only among those the thread had read.
CommitsToEarliestBatch ==
    [][\A w \in HttpWorkers : \A r \in Refs :
          pc[w] = "execute" /\ command[w].type = "Allocate" /\ pc'[w] = "events" =>
              LET l == command[w].line
                  p == Find(l.sku)
              IN Holds(r, l)' /\ ~Holds(r, l) => r \in Preferred(p, l)]_vars

-----------------------------------------------------------------------------
(* Why the ledger is followed: optimistic locking, thread by thread.  StolenReference shows    *)
(* that it takes references that belong to one product each.                                   *)

\* No two products have batches of the same reference.
OneSkuPerReference ==
    \A c, d \in Commands :
        c.type = "CreateBatch" /\ d.type = "CreateBatch" /\ c.ref = d.ref => c.sku = d.sku

\* Each stored batch was registered for its SKU by some command.
RegisteredByCommands ==
    \A r \in Refs : batches[r] # NoBatch =>
        \E c \in Commands : c.type = "CreateBatch" /\ c.ref = r /\ c.sku = batches[r].sku

\* A command works on the object as loaded, of a product that exists unless it creates it.
ExecutesWhatItLoaded(w) ==
    LET p == tracked[w]
    IN  pc[w] = "execute" =>
            /\ snapshot[w]
            /\ ~p.modified /\ p.modifiedRefs = {} /\ p.messages = <<>>
            /\ p.version = oldVersion[w]
            /\ command[w].type = "CreateBatch" \/ products[p.sku] # NoVersion
            /\ <<"products", p.sku>> \notin stale[w] => IsCurrent(p)

\* An HTTP thread has no lines to reallocate and writes nothing after its command.
ReallocatesNothing(w) ==
    /\ pc[w] # "reallocate"
    /\ pc[w] # "idle" => command[w].type # "ChangeBatchQuantity"
    /\ \A i \in DOMAIN queue[w] : queue[w][i].type # "Deallocated"
    /\ pc[w] = "events" => ~tracked[w].modified /\ tracked[w].messages = <<>>

\* p is what is stored, and line l in one batch more.
PlacesOneLine(p, l) ==
    \E x \in p.modifiedRefs :
        /\ batches[x] # NoBatch
        /\ CanAllocate(batches[x], l)
        /\ p.batches[x] = AllocateLine(batches[x], l)
        /\ \A r \in p.modifiedRefs \ {x} : p.batches[r] = batches[r]

\* The listener's object may be old when it reallocates: the version tells, and a commit that
\* failed fails for good.
ReallocatesUnderTheVersion(w) ==
    LET p == tracked[w]
    IN  /\ pc[w] # "idle" => command[w].type = "ChangeBatchQuantity"
        /\ pc[w] \in {"events", "reallocate"} =>
            /\ products[p.sku] # NoVersion /\ products[p.sku] >= oldVersion[w]
            /\ p.version >= oldVersion[w]
            /\ p.modified => p.version > oldVersion[w]
            /\ \A r \in p.modifiedRefs : Contains(p, r)
            /\ ~p.modified /\ products[p.sku] = oldVersion[w] =>
                   \A r \in Refs : Contains(p, r) => p.batches[r] = batches[r]
        /\ pc[w] = "events" /\ p.modified => ~CanCommit(w, p)
        /\ pc[w] = "reallocate" => Head(queue[w]).type = "Deallocated"
        /\ pc[w] = "reallocate" /\ p.modified /\ CanCommit(w, p) =>
              PlacesOneLine(p, Head(queue[w]).line)

\* A thread's object is what is stored, with at most one line more, or it cannot be committed:
\* snapshot conflicts see to that in a command, the version in what the listener does after it.
LockingInvariant ==
    /\ RegisteredByCommands
    /\ \A w \in Workers : ExecutesWhatItLoaded(w)
    /\ \A w \in HttpWorkers : ReallocatesNothing(w)
    /\ ReallocatesUnderTheVersion(Listener)

-----------------------------------------------------------------------------
(* Answers, events and the read model *)

\* A unit of work whose commit threw in an event handler, and which the bus goes on using,
\* never commits anything again: neither the product it holds nor the read model's rows.
FailedUnitOfWorkIsStuck ==
    \A w \in Workers : pc[w] = "events" /\ tracked[w].modified => ~CanCommit(w, tracked[w])

\* A command answered with an error, sent once, left no trace in the stock.
RefusedIsNotPlaced ==
    \A l \in OrderLines :
        SentOnce(l) /\ AnsweredAllocate(l, {"400", "409", "500"}) => \A r \in Refs : <<l, r>> \notin placed

\* What 202 confirmed survives a crash: the answer comes after the cascade of events, so
\* GET /allocations finds the line by then, or the shortage was reported.  The bus swallows the
\* exception of an INSERT the database refuses, and 202 is answered all the same: such a row
\* is the only other case.
ConfirmedIsReadable ==
    \A l \in OrderLines :
        AnsweredAllocate(l, {"202"}) =>
            \/ l.sku \in notified
            \/ \E r \in Refs :
                   <<l.sku, r>> \in Allocations(l.reference) \/ <<l, r>> \in unshown

\* Redis hears of an allocation only after it was committed.
PublishedWasPlaced == published \subseteq placed

\* When no command is in progress and none was cut off by a crash, every allocation in the
\* database is in the read model, but for the rows whose INSERT the database refused: of those
\* only the log knows.
ReadModelIsComplete ==
    Quiescent /\ crashes = 0 =>
        \A l \in OrderLines, r \in Refs : Holds(r, l) => <<l, r>> \in view \cup unshown

\* Every command taken by a thread ends: its cascade of events is finite.
CommandsEnd == \A w \in Workers : pc[w] # "idle" ~> pc[w] = "idle"

-----------------------------------------------------------------------------
(* Why answers, events and the read model tell the truth about the stock *)

\* No client changes the quantity of a batch.
NoQuantityChanges == \A c \in Commands : c.type # "ChangeBatchQuantity"

WasPlaced(l) == \E r \in Refs : <<l, r>> \in placed

HasLine(p, r, l) == Contains(p, r) /\ l \in p.batches[r].allocations

IsQueued(w, e) == \E i \in DOMAIN queue[w] : queue[w][i] = e

\* A thread's object and the lines it is to reallocate are known to some commit, the object has
\* what it marks, and a command begins on a clean object.
KnowsPlacedLines(w) ==
    LET p == tracked[w]
    IN  /\ p # NoProduct =>
              /\ \A r \in p.modifiedRefs : Contains(p, r)
              /\ \A r \in Refs : \A l \in OrderLines : HasLine(p, r, l) => WasPlaced(l)
              /\ \A i \in DOMAIN p.messages : p.messages[i].type # "Deallocated"
        /\ pc[w] = "execute" => ~p.modified /\ p.modifiedRefs = {} /\ p.messages = <<>>
        /\ \A i \in DOMAIN queue[w] :
               queue[w][i].type = "Deallocated" => WasPlaced(queue[w][i].line)

\* An HTTP thread announces only what it has committed.
AnnouncesPlacedLines(w) ==
    /\ ReallocatesNothing(w)
    /\ \A i \in DOMAIN queue[w] :
           queue[w][i].type = "Allocated" => <<queue[w][i].line, queue[w][i].batchref>> \in placed

\* A line gets into an object, an event or a batch only through an /allocate command that
\* committed it; after that the listener may move it.
PlacementInvariant ==
    /\ \A r \in Refs : \A l \in OrderLines : Holds(r, l) => <<l, r>> \in placed
    /\ \A w \in Workers : KnowsPlacedLines(w)
    /\ \A w \in HttpWorkers : AnnouncesPlacedLines(w)
    /\ pc[Listener] # "idle" => command[Listener].type = "ChangeBatchQuantity"

\* A command sent once is with the client, or with one thread, or over; it places its line only
\* when its thread commits it, and is refused only when it did not.
IsOneAttempt(c) ==
    /\ inbox[c] <= 1
    /\ inbox[c] = 1 => ~WasPlaced(c.line) /\ \A w \in Workers : command[w] # c
    /\ inbox[c] = 1 \/ (\E w \in Workers : command[w] = c) => \A a \in answers : a.command # c
    /\ \A w, v \in Workers : command[w] = c /\ command[v] = c => w = v
    /\ \A w \in Workers : command[w] = c /\ pc[w] \in {"load", "execute"} => ~WasPlaced(c.line)
    /\ \A a \in answers : a.command = c /\ a.status # "202" => ~WasPlaced(c.line)

AttemptInvariant ==
    \A c \in Commands : c.type = "Allocate" /\ Deliveries[c] = 1 => IsOneAttempt(c)

\* A line that is in a batch, or in an object that may still be committed, is in the read model
\* or in an event that its thread will handle before it is done, or its row was refused.
IsShown(l, r) ==
    \/ <<l, r>> \in view \cup unshown
    \/ \E w \in HttpWorkers : pc[w] = "events" /\ IsQueued(w, Allocated(l, r))

ReadModelInvariant ==
    crashes = 0 =>
        \A r \in Refs : \A l \in OrderLines :
            Holds(r, l) \/ (\E w \in Workers : tracked[w] # NoProduct /\ HasLine(tracked[w], r, l))
                => IsShown(l, r)

\* A product is created together with its first batch, so an /allocate command that finds the
\* product places its line or reports it; the event that says so is handled before the answer,
\* and leaves a mail, a row, or a row the database refused.
IsConfirmed(l) == l.sku \in notified \/ \E r \in Refs : <<l, r>> \in view \cup unshown

WillBeConfirmed(w) ==
    LET l == command[w].line
    IN  /\ pc[w] = "execute" /\ command[w].type = "Allocate" =>
               \E r \in Refs : Contains(tracked[w], r)
        /\ pc[w] = "events" /\ command[w].type = "Allocate" =>
               \/ IsConfirmed(l)
               \/ IsQueued(w, OutOfStock(l.sku))
               \/ \E r \in Refs : IsQueued(w, Allocated(l, r))

ConfirmationInvariant ==
    /\ \A s \in Skus : products[s] # NoVersion =>
           \E r \in Refs : batches[r] # NoBatch /\ batches[r].sku = s
    /\ \A w \in HttpWorkers : WillBeConfirmed(w)
    /\ \A a \in answers : a.command.type = "Allocate" /\ a.status = "202" =>
           IsConfirmed(a.command.line)

\* A line sent once that the listener is to reallocate is in no batch, and is reallocated once.
ReallocatesFreeLines ==
    LET q == queue[Listener]
    IN  \A i \in DOMAIN q : q[i].type = "Deallocated" /\ SentOnce(q[i].line) =>
            /\ \A r \in Refs : ~Holds(r, q[i].line)
            /\ \A j \in DOMAIN q : q[j] = q[i] => j = i

SingleBatchInvariant == OneBatchPerLine /\ ReallocatesFreeLines

-----------------------------------------------------------------------------
(* What the repository's documentation says and the code does not do *)

\* The read model keeps no row of an allocation that was undone.
ReadModelForgets ==
    Quiescent /\ crashes = 0 => \A x \in view : Holds(x[2], x[1])

\* A line deallocated because a batch shrank is reallocated.  The repository may refuse that
\* when another command was faster, but not when nobody disturbs it: no row the transaction
\* writes has changed, none of its statements has failed, and this allocation alone separates
\* the object's version from the stored one.
DeallocatedIsReallocated ==
    \A w \in Workers :
        LET p == tracked[w]
        IN  /\ pc[w] = "reallocate" /\ p.modified
            /\ Conflicts(w) = {} /\ p.version = products[p.sku] + 1
            => CanCommit(w, p)

\* 202 says the line was allocated.
AcceptedIsPlaced ==
    \A l \in OrderLines : AnsweredAllocate(l, {"202"}) => \E r \in Refs : <<l, r>> \in placed

\* An /allocate command whose product another thread has updated since it was read is answered
\* 409.
ConcurrentUpdateIsConflict ==
    [][\A w \in HttpWorkers :
          /\ pc[w] = "execute" /\ command[w].type = "Allocate" /\ pc'[w] = "idle"
          /\ crashes' = crashes
          /\ <<"products", tracked[w].sku>> \in stale[w]
          => [command |-> command[w], status |-> "409"] \in answers']_vars

\* Registering a batch takes no line out of another batch.
RegistrationKeepsLines ==
    [][\A w \in HttpWorkers : \A r \in Refs : \A l \in OrderLines :
          pc[w] = "execute" /\ command[w].type = "CreateBatch" /\ pc'[w] # "execute" =>
              (Holds(r, l) => Holds(r, l)')]_vars
=============================================================================
