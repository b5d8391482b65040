------------------------ MODULE AllocationLedgerProofs ------------------------
(***************************************************************************)
(* Optimistic locking makes the threads' commits atomic steps of the       *)
(* ledger, for any number of threads, products, batches, order lines and   *)
(* commands, as long as a reference is used for one product only.          *)
(***************************************************************************)
EXTENDS AllocationServiceProofs

\* The part of LockingInvariant that is about thread w.
Guarded(w) ==
    /\ ExecutesWhatItLoaded(w)
    /\ w \in HttpWorkers => ReallocatesNothing(w)
    /\ w = Listener => ReallocatesUnderTheVersion(w)

LEMMA LockingIsByThread ==
    LockingInvariant <=> RegisteredByCommands /\ \A w \in Workers : Guarded(w)
BY DEF LockingInvariant, Guarded, Workers

-----------------------------------------------------------------------------
(* What a step does to the stock: nothing, or one step of the ledger on the batch r, of which *)
(* the threads that have a snapshot will know that the product was written.                   *)

Registers(sku, r) ==
    /\ batches[r] = NoBatch
    /\ batches'[r] \in Batch /\ batches'[r].sku = sku
    /\ batches'[r].allocations = {} /\ batches'[r].purchased > 0
    /\ \E c \in Commands : c.type = "CreateBatch" /\ c.ref = r /\ c.sku = sku
    /\ products'[sku] # NoVersion
    /\ products[sku] # NoVersion => products'[sku] = products[sku]

Places(sku, r) ==
    /\ batches[r] # NoBatch /\ batches[r].sku = sku
    /\ \E l \in OrderLines :
          /\ l.sku = sku /\ l.quantity > 0
          /\ Total[batches[r].allocations \cup {l}] <= batches[r].purchased
          /\ batches'[r] = [batches[r] EXCEPT !.allocations = @ \cup {l}]
    /\ products[sku] # NoVersion /\ products'[sku] \in Nat
    /\ products'[sku] > products[sku]

ChangesQuantity(sku, r) ==
    /\ batches[r] # NoBatch /\ batches[r].sku = sku
    /\ \E qty \in Quantities : \E kept \in SUBSET batches[r].allocations :
          /\ qty > 0 /\ Total[kept] <= qty
          /\ \/ kept = batches[r].allocations
             \/ \E l \in batches[r].allocations \ kept : Total[kept \cup {l}] > qty
          /\ batches'[r] = [batches[r] EXCEPT !.purchased = qty, !.allocations = kept]
    /\ products[sku] # NoVersion /\ products'[sku] = products[sku]

Writes(w, sku, r) ==
    /\ \A x \in Refs \ {r} : batches'[x] = batches[x]
    /\ \A s \in Skus \ {sku} : products'[s] = products[s]
    /\ \A v \in Workers \ {w} :
          /\ stale[v] \subseteq stale'[v]
          /\ snapshot[v] => <<"products", sku>> \in stale'[v]
    /\ \/ Registers(sku, r)
       \/ Places(sku, r)
       \/ w = Listener /\ ChangesQuantity(sku, r)

LeavesStock(w) ==
    /\ UNCHANGED <<products, batches>>
    /\ \A v \in Workers \ {w} : stale'[v] = stale[v]

Rests(v) ==
    /\ pc'[v] = pc[v] /\ command'[v] = command[v] /\ queue'[v] = queue[v]
    /\ tracked'[v] = tracked[v] /\ oldVersion'[v] = oldVersion[v] /\ snapshot'[v] = snapshot[v]

-----------------------------------------------------------------------------
(* The threads that do not move *)

\* The row written was free or of the product, and is of the product; products stay.
LEMMA WrittenRow ==
    ASSUME StockInvariant, NEW w \in Workers, NEW sku \in Skus, NEW r \in Refs, Writes(w, sku, r)
    PROVE  /\ batches[r] = NoBatch \/ batches[r].sku = sku
           /\ batches'[r].sku = sku
           /\ \A s \in Skus : products[s] # NoVersion =>
                  products'[s] \in Nat /\ products'[s] >= products[s]
<1>1. batches[r] \in Batch \cup {NoBatch} /\ products \in [Skus -> Nat \cup {NoVersion}]
  BY DEF StockInvariant, TypeOK
<1>2. \A s \in Skus : products[s] # NoVersion => products[s] \in Nat
  BY <1>1
<1>3. CASE Registers(sku, r)
  BY <1>2, <1>3 DEF Registers, Writes
<1>4. CASE Places(sku, r)
  <2>1. batches[r] \in Batch /\ batches[r].sku = sku
    BY <1>1, <1>4 DEF Places
  <2>2. PICK l \in OrderLines : batches'[r] = [batches[r] EXCEPT !.allocations = @ \cup {l}]
    BY <1>4 DEF Places
  <2>3. batches'[r].sku = sku
    BY <2>1, <2>2 DEF Batch
  <2>4. /\ products[sku] \in Nat /\ products'[sku] \in Nat /\ products'[sku] > products[sku]
        /\ products'[sku] # NoVersion
    BY <1>2, <1>4, ServiceAssumption DEF Places
  <2>5. \A s \in Skus \ {sku} : products'[s] = products[s]
    BY DEF Writes
  <2>6. QED
    BY <1>2, <2>1, <2>3, <2>4, <2>5
<1>5. CASE ChangesQuantity(sku, r)
  <2>1. batches[r] \in Batch /\ batches[r].sku = sku
    BY <1>1, <1>5 DEF ChangesQuantity
  <2>2. PICK qty \in Quantities, kept \in SUBSET batches[r].allocations :
            batches'[r] = [batches[r] EXCEPT !.purchased = qty, !.allocations = kept]
    BY <1>5 DEF ChangesQuantity
  <2>3. batches'[r].sku = sku
    BY <2>1, <2>2 DEF Batch
  <2>4. products'[sku] = products[sku]
    BY <1>5 DEF ChangesQuantity
  <2>5. \A s \in Skus : products'[s] = products[s]
    BY <2>4 DEF Writes
  <2>6. QED
    BY <1>2, <2>1, <2>3, <2>5
<1>6. QED
  BY <1>3, <1>4, <1>5 DEF Writes

\* A step of w invalidates no other thread's snapshot without its knowing.
LEMMA CurrentStays ==
    ASSUME StockInvariant, NEW w \in Workers, NEW v \in Workers \ {w}, NEW sku \in Skus,
           NEW r \in Refs, Writes(w, sku, r), pc[v] = "execute",
           ExecutesWhatItLoaded(v), Rests(v)
    PROVE  ExecutesWhatItLoaded(v)'
<1> DEFINE p == tracked[v]
<1>1. /\ snapshot[v] /\ ~p.modified /\ p.modifiedRefs = {} /\ p.messages = <<>>
      /\ p.version = oldVersion[v]
      /\ command[v].type = "CreateBatch" \/ products[p.sku] # NoVersion
      /\ <<"products", p.sku>> \notin stale[v] => IsCurrent(p)
  BY DEF ExecutesWhatItLoaded
<1>2. p \in Aggregate /\ p.sku \in Skus
  BY DEF StockInvariant, TypeOK, Aggregate
<1>3. products[p.sku] # NoVersion => products'[p.sku] # NoVersion
  BY <1>2, WrittenRow, ServiceAssumption
<1>4. ASSUME <<"products", p.sku>> \notin stale'[v]
      PROVE  \A x \in Refs : p.batches[x] =
                 IF batches'[x] # NoBatch /\ batches'[x].sku = p.sku THEN batches'[x] ELSE NoBatch
  <2>1. sku # p.sku /\ <<"products", p.sku>> \notin stale[v]
    BY <1>1, <1>4 DEF Writes
  <2>2. /\ batches[r] = NoBatch \/ batches[r].sku = sku
        /\ batches'[r].sku = sku
    BY WrittenRow
  <2>3. \A x \in Refs \ {r} : batches'[x] = batches[x]
    BY DEF Writes
  <2>4. QED
    BY <1>1, <2>1, <2>2, <2>3 DEF IsCurrent
<1>5. QED
  BY <1>1, <1>3, <1>4 DEF ExecutesWhatItLoaded, IsCurrent, Rests

\* Nor does it make a reallocation succeed that has failed, or the version say that the listener's
\* object is current when it is not.
LEMMA VersionStaysGuard ==
    ASSUME StockInvariant, NEW w \in Workers, w # Listener, NEW sku \in Skus, NEW r \in Refs,
           Writes(w, sku, r), pc[Listener] \in {"events", "reallocate"},
           ReallocatesUnderTheVersion(Listener), Rests(Listener)
    PROVE  ReallocatesUnderTheVersion(Listener)'
<1> DEFINE p == tracked[Listener]
           o == oldVersion[Listener]
<1>0. Listener \in Workers
  BY DEF Workers
<1>1. /\ p \in Aggregate /\ p.sku \in Skus /\ o \in Nat /\ p.modifiedRefs \subseteq Refs
      /\ command[Listener].type = "ChangeBatchQuantity"
      /\ products[p.sku] \in Nat /\ products[p.sku] >= o
      /\ p.version >= o /\ (p.modified => p.version > o)
      /\ \A x \in p.modifiedRefs : Contains(p, x)
  BY <1>0 DEF ReallocatesUnderTheVersion, StockInvariant, TypeOK, Aggregate
<1>2. \A x \in Refs : Contains(p, x) => p.batches[x].sku = p.sku
  BY <1>0, <1>1, NullAssumption DEF StockInvariant, TrackedIsSound, Sound
<1>3. products'[p.sku] \in Nat /\ products'[p.sku] >= products[p.sku]
  BY <1>1, WrittenRow, ServiceAssumption
<1>4. /\ products'[p.sku] # NoVersion /\ products'[p.sku] >= o
      /\ products'[p.sku] = o => products[p.sku] = o
  BY <1>1, <1>3, ServiceAssumption
<1>5. ASSUME products'[p.sku] = o, NEW x \in Refs, batches[x] # NoBatch, batches[x].sku = p.sku
      PROVE  batches'[x] = batches[x]
  <2>1. CASE x # r
    BY <2>1 DEF Writes
  <2>2. CASE x = r
    <3>1. sku = p.sku
      BY <1>5, <2>2, WrittenRow
    <3>2. ~Registers(sku, r)
      BY <1>5, <2>2 DEF Registers
    <3>3. ~Places(sku, r)
      BY <1>1, <1>4, <1>5, <3>1 DEF Places
    <3>4. QED
      BY <3>2, <3>3 DEF Writes
  <2>3. QED
    BY <2>1, <2>2
<1>6. ASSUME CanCommit(Listener, p)', p.modified
      PROVE  CanCommit(Listener, p) /\ products'[p.sku] = o
  <2>1. products'[p.sku] = o
    BY <1>4, <1>6 DEF CanCommit, VersionError, VersionMatches, Rests
  <2>2. Conflicts(Listener) \subseteq Conflicts(Listener)'
    BY <1>0 DEF Conflicts, Writes, Rests
  <2>3. Written(p) \cap Conflicts(Listener) = {} /\ Storable(p)
    BY <1>6, <2>2 DEF CanCommit, SqlError, Rests, Written, Storable
  <2>4. QED
    BY <1>4, <2>1, <2>3 DEF CanCommit, SqlError, VersionError, VersionMatches
<1>7. ASSUME ~p.modified, products'[p.sku] = o, NEW x \in Refs, Contains(p, x)
      PROVE  p.batches[x] = batches'[x]
  <2>1. p.batches[x] = batches[x] /\ batches[x] # NoBatch
    BY <1>1, <1>4, <1>7 DEF ReallocatesUnderTheVersion, Contains
  <2>2. QED
    BY <1>2, <1>5, <1>7, <2>1
<1>8. ASSUME pc[Listener] = "reallocate", PlacesOneLine(p, Head(queue[Listener]).line),
             products'[p.sku] = o
      PROVE  PlacesOneLine(p, Head(queue[Listener]).line)'
  <2> DEFINE l == Head(queue[Listener]).line
  <2>0. l \in OrderLines
    BY <1>0, <1>8, HandlingFacts, EventFields
       DEF ReallocatesUnderTheVersion, StockInvariant, ReallocatesAnEvent
  <2> HIDE DEF l
  <2>1. PICK x \in p.modifiedRefs :
            /\ batches[x] # NoBatch
            /\ CanAllocate(batches[x], l)
            /\ p.batches[x] = AllocateLine(batches[x], l)
            /\ \A y \in p.modifiedRefs \ {x} : p.batches[y] = batches[y]
    BY <1>8 DEF PlacesOneLine, l
  <2>2. batches[x] \in Batch /\ batches[x].sku = p.sku
    <3>1. batches[x] \in Batch
      BY <1>1, <2>1 DEF StockInvariant, TypeOK
    <3>2. AllocateLine(batches[x], l).sku = batches[x].sku
      BY <2>0, <3>1 DEF AllocateLine, Batch
    <3>3. QED
      BY <1>1, <1>2, <2>1, <3>1, <3>2
  <2>3. batches'[x] = batches[x]
    BY <1>1, <1>5, <1>8, <2>1, <2>2
  <2>4. \A y \in p.modifiedRefs \ {x} : batches'[y] = batches[y]
    <3> SUFFICES ASSUME NEW y \in p.modifiedRefs \ {x}
                 PROVE  batches'[y] = batches[y]
      OBVIOUS
    <3>1. y \in Refs /\ Contains(p, y) /\ p.batches[y] = batches[y]
      BY <1>1, <2>1
    <3>2. batches[y] # NoBatch /\ batches[y].sku = p.sku
      BY <1>2, <3>1 DEF Contains
    <3>3. QED
      BY <1>5, <1>8, <3>1, <3>2
  <2>5. tracked'[Listener] = p /\ queue'[Listener] = queue[Listener]
    BY DEF Rests
  <2>6. QED
    BY <2>1, <2>3, <2>4, <2>5 DEF PlacesOneLine, l
<1>9. QED
  BY <1>1, <1>4, <1>6, <1>7, <1>8 DEF ReallocatesUnderTheVersion, Rests

LEMMA OthersStayGuarded ==
    ASSUME StockInvariant, NEW w \in Workers, NEW v \in Workers \ {w}, Guarded(v), Rests(v),
           LeavesStock(w) \/ \E sku \in Skus : \E r \in Refs : Writes(w, sku, r)
    PROVE  Guarded(v)'
<1>1. v \in HttpWorkers => ReallocatesNothing(v)'
  BY DEF Guarded, ReallocatesNothing, Rests
<1>2. CASE LeavesStock(w)
  <2>1. ExecutesWhatItLoaded(v)'
    BY <1>2 DEF Guarded, ExecutesWhatItLoaded, IsCurrent, LeavesStock, Rests
  <2>2. v = Listener => ReallocatesUnderTheVersion(v)'
    BY <1>2 DEF Guarded, ReallocatesUnderTheVersion, LeavesStock, Rests, CanCommit, SqlError,
                VersionError, VersionMatches, Conflicts, PlacesOneLine, Written, Storable
  <2>3. QED
    BY <1>1, <2>1, <2>2 DEF Guarded
<1>3. ASSUME NEW sku \in Skus, NEW r \in Refs, Writes(w, sku, r)
      PROVE  Guarded(v)'
  <2>1. ExecutesWhatItLoaded(v)'
    <3>1. CASE pc[v] = "execute"
      BY <1>3, <3>1, CurrentStays DEF Guarded
    <3>2. CASE pc[v] # "execute"
      BY <3>2 DEF ExecutesWhatItLoaded, Rests
    <3>3. QED
      BY <3>1, <3>2
  <2>2. ASSUME v = Listener
        PROVE  ReallocatesUnderTheVersion(v)'
    <3>1. CASE pc[v] \in {"events", "reallocate"}
      BY <1>3, <2>2, <3>1, VersionStaysGuard DEF Guarded
    <3>2. CASE pc[v] \notin {"events", "reallocate"}
      BY <2>2, <3>2 DEF Guarded, ReallocatesUnderTheVersion, Rests
    <3>3. QED
      BY <3>1, <3>2
  <2>3. QED
    BY <1>1, <2>1, <2>2 DEF Guarded
<1>4. QED
  BY <1>2, <1>3

LEMMA RegistrationsStay ==
    ASSUME StockInvariant, RegisteredByCommands, NEW w \in Workers,
           LeavesStock(w) \/ \E sku \in Skus : \E r \in Refs : Writes(w, sku, r)
    PROVE  RegisteredByCommands'
<1>1. CASE LeavesStock(w)
  BY <1>1 DEF LeavesStock, RegisteredByCommands
<1>2. ASSUME NEW sku \in Skus, NEW r \in Refs, Writes(w, sku, r)
      PROVE  RegisteredByCommands'
  <2>1. \A x \in Refs \ {r} : batches'[x] = batches[x]
    BY <1>2 DEF Writes
  <2>2. batches'[r].sku = sku /\ (batches[r] = NoBatch \/ batches[r].sku = sku)
    BY <1>2, WrittenRow
  <2>3. \E c \in Commands : c.type = "CreateBatch" /\ c.ref = r /\ c.sku = sku
    <3>1. CASE batches[r] = NoBatch
      BY <1>2, <3>1 DEF Writes, Registers, Places, ChangesQuantity
    <3>2. CASE batches[r] # NoBatch
      BY <2>2, <3>2 DEF RegisteredByCommands
    <3>3. QED
      BY <3>1, <3>2
  <2>4. QED
    BY <2>1, <2>2, <2>3 DEF RegisteredByCommands
<1>3. QED
  BY <1>1, <1>2

-----------------------------------------------------------------------------
(* Steps that leave the stock alone *)

LEMMA AnsweredGuarded ==
    ASSUME StockInvariant, NEW w \in Workers, NEW status, Answered(w, status)
    PROVE  /\ Guarded(w)' /\ LeavesStock(w)
           /\ \A v \in Workers \ {w} : Rests(v)
<1>1. /\ pc' = [pc EXCEPT ![w] = "idle"]
      /\ queue' = [queue EXCEPT ![w] = <<>>]
      /\ command' = [command EXCEPT ![w] = NoCommand]
      /\ tracked' = [tracked EXCEPT ![w] = NoProduct]
      /\ oldVersion' = [oldVersion EXCEPT ![w] = 0]
      /\ snapshot' = [snapshot EXCEPT ![w] = FALSE]
      /\ stale' = [stale EXCEPT ![w] = {}]
      /\ UNCHANGED <<products, batches>>
  BY DEF Answered, CloseUnitOfWork, dbVars
<1>2. pc'[w] = "idle" /\ queue'[w] = <<>>
  BY <1>1 DEF StockInvariant, TypeOK
<1>3. Guarded(w)'
  BY <1>2 DEF Guarded, ExecutesWhatItLoaded, ReallocatesNothing, ReallocatesUnderTheVersion
<1>4. LeavesStock(w)
  BY <1>1 DEF LeavesStock, StockInvariant, TypeOK
<1>5. \A v \in Workers \ {w} : Rests(v)
  BY <1>1 DEF Rests, StockInvariant, TypeOK
<1>6. QED
  BY <1>3, <1>4, <1>5

LEMMA ReceiveGuarded ==
    ASSUME StockInvariant, NEW w \in Workers, NEW c \in Commands, Guarded(w), Receive(w, c),
           w \in HttpWorkers => c.type # "ChangeBatchQuantity",
           w = Listener => c.type = "ChangeBatchQuantity"
    PROVE  /\ Guarded(w)' /\ LeavesStock(w)
           /\ \A v \in Workers \ {w} : Rests(v)
<1>1. /\ pc' = [pc EXCEPT ![w] = "load"] /\ command' = [command EXCEPT ![w] = c]
      /\ UNCHANGED <<products, batches, queue, tracked, oldVersion, snapshot, stale>>
  BY DEF Receive, dbVars, uowVars
<1>2. pc'[w] = "load" /\ command'[w] = c
  BY <1>1 DEF StockInvariant, TypeOK
<1>3. Guarded(w)'
  BY <1>1, <1>2 DEF Guarded, ExecutesWhatItLoaded, ReallocatesNothing, ReallocatesUnderTheVersion
<1>4. LeavesStock(w)
  BY <1>1 DEF LeavesStock
<1>5. \A v \in Workers \ {w} : Rests(v)
  BY <1>1 DEF Rests, StockInvariant, TypeOK
<1>6. QED
  BY <1>3, <1>4, <1>5

\* What the mappers load is current.
LEMMA FindIsCurrent ==
    ASSUME StockInvariant, NEW sku \in Skus, products[sku] # NoVersion
    PROVE  LET p == Find(sku)
           IN  /\ p.sku = sku /\ ~p.modified /\ p.modifiedRefs = {} /\ p.messages = <<>>
               /\ IsCurrent(p)
<1> DEFINE rows == [r \in Refs |-> IF batches[r] # NoBatch /\ batches[r].sku = sku
                                   THEN Reload(batches[r]) ELSE NoBatch]
           p == Find(sku)
<1>1. \A r \in Refs : batches[r] # NoBatch => Reload(batches[r]) = batches[r]
  BY ReloadIsExact DEF StockInvariant, NoOversell
<1>2. p = StoredAggregate(sku, products[sku], rows)
  BY DEF Find
<1>3. \A r \in Refs : rows[r] = IF batches[r] # NoBatch /\ batches[r].sku = sku
                                THEN batches[r] ELSE NoBatch
  BY <1>1
<1> HIDE DEF rows
<1>4. /\ p.sku = sku /\ p.modified = FALSE /\ p.modifiedRefs = {} /\ p.messages = <<>>
      /\ p.batches = rows
  BY <1>2 DEF StoredAggregate, NewAggregate
<1> HIDE DEF p
<1>5. IsCurrent(p)
  BY <1>3, <1>4 DEF IsCurrent
<1>6. QED
  BY <1>4, <1>5 DEF p

LEMMA TrackGuarded ==
    ASSUME StockInvariant, NEW w \in Workers, Guarded(w), pc[w] = "load",
           NEW p \in Aggregate, ~p.modified, p.modifiedRefs = {}, p.messages = <<>>, IsCurrent(p),
           command[w].type = "CreateBatch" \/ products[p.sku] # NoVersion,
           Track(w, p)
    PROVE  /\ Guarded(w)' /\ LeavesStock(w)
           /\ \A v \in Workers \ {w} : Rests(v)
<1>1. /\ pc' = [pc EXCEPT ![w] = "execute"] /\ tracked' = [tracked EXCEPT ![w] = p]
      /\ oldVersion' = [oldVersion EXCEPT ![w] = p.version]
      /\ snapshot' = [snapshot EXCEPT ![w] = TRUE] /\ stale' = [stale EXCEPT ![w] = {}]
      /\ UNCHANGED <<products, batches, command, queue>>
  BY DEF Track, dbVars
<1>2. /\ pc'[w] = "execute" /\ tracked'[w] = p /\ oldVersion'[w] = p.version /\ snapshot'[w]
      /\ command'[w] = command[w] /\ queue'[w] = queue[w]
  BY <1>1 DEF StockInvariant, TypeOK
<1>3. ExecutesWhatItLoaded(w)'
  BY <1>1, <1>2 DEF ExecutesWhatItLoaded, IsCurrent
<1>4. w \in HttpWorkers => ReallocatesNothing(w)'
  BY <1>2 DEF Guarded, ReallocatesNothing
<1>5. w = Listener => ReallocatesUnderTheVersion(w)'
  BY <1>2 DEF Guarded, ReallocatesUnderTheVersion
<1>6. LeavesStock(w) /\ \A v \in Workers \ {w} : Rests(v)
  BY <1>1 DEF LeavesStock, Rests, StockInvariant, TypeOK
<1>7. QED
  BY <1>3, <1>4, <1>5, <1>6 DEF Guarded

LEMMA LoadGuarded ==
    ASSUME StockInvariant, NEW w \in Workers, Guarded(w),
           LoadForAddBatch(w) \/ LoadForAllocate(w) \/ LoadForChangeBatchQuantity(w)
    PROVE  /\ Guarded(w)' /\ LeavesStock(w)
           /\ \A v \in Workers \ {w} : Rests(v)
<1>1. pc[w] = "load" /\ command[w] \in Commands
  BY DEF LoadForAddBatch, LoadForAllocate, LoadForChangeBatchQuantity, StockInvariant, TypeOK
<1>2. ASSUME NEW sku \in Skus, products[sku] # NoVersion, Track(w, Find(sku))
      PROVE  Guarded(w)' /\ LeavesStock(w) /\ \A v \in Workers \ {w} : Rests(v)
  <2> DEFINE p == Find(sku)
  <2>1. /\ p \in Aggregate /\ p.sku = sku /\ ~p.modified /\ p.modifiedRefs = {}
        /\ p.messages = <<>> /\ IsCurrent(p)
    BY <1>2, FindSound, FindIsCurrent
  <2>2. Track(w, p) /\ products[p.sku] # NoVersion
    BY <1>2, <2>1
  <2> HIDE DEF p
  <2>3. QED
    BY <1>1, <2>1, <2>2, TrackGuarded
<1>3. CASE LoadForAddBatch(w)
  <2> DEFINE sku == command[w].sku
  <2>1. command[w].type = "CreateBatch" /\ sku \in Skus
    BY <1>1, <1>3, CommandFields DEF LoadForAddBatch
  <2>2. CASE products[sku] = NoVersion
    <3> DEFINE p == SetModified(NewAggregate(sku), FALSE)
    <3>1. p \in Aggregate
      BY <2>1, NewAggregateSound
    <3>2. /\ p.sku = sku /\ ~p.modified /\ p.modifiedRefs = {} /\ p.messages = <<>>
          /\ p.batches = [r \in Refs |-> NoBatch]
      BY DEF SetModified, NewAggregate
    <3>3. Track(w, p)
      BY <1>3, <2>2 DEF LoadForAddBatch
    <3> HIDE DEF p
    <3>4. IsCurrent(p)
      BY <2>2, <3>2 DEF IsCurrent, StockInvariant, BatchesHaveProducts
    <3>5. QED
      BY <1>1, <2>1, <3>1, <3>2, <3>3, <3>4, TrackGuarded
  <2>3. CASE products[sku] # NoVersion
    BY <1>2, <1>3, <2>1, <2>3 DEF LoadForAddBatch
  <2>4. QED
    BY <2>2, <2>3
<1>4. CASE LoadForAllocate(w)
  BY <1>1, <1>2, <1>4, CommandFields DEF LoadForAllocate
<1>5. CASE LoadForChangeBatchQuantity(w)
  <2> DEFINE ref == command[w].ref
  <2>1. ref \in Refs /\ batches[ref] # NoBatch /\ Track(w, Find(batches[ref].sku))
    BY <1>1, <1>5, CommandFields DEF LoadForChangeBatchQuantity
  <2>2. batches[ref].sku \in Skus
    BY <2>1 DEF StockInvariant, TypeOK, Batch
  <2>3. products[batches[ref].sku] # NoVersion
    BY <2>1 DEF StockInvariant, BatchesHaveProducts
  <2>4. QED
    BY <1>2, <2>1, <2>2, <2>3
<1>6. QED
  BY <1>3, <1>4, <1>5

-----------------------------------------------------------------------------
(* Commits *)

LEMMA CommitEffects ==
    ASSUME StockInvariant, NEW w \in Workers, NEW p \in Aggregate, Commit(w, p), p.modified
    PROVE  /\ p.sku \in Skus /\ p.version \in Nat /\ p.modifiedRefs \subseteq Refs
           /\ \A r \in Refs : batches'[r] = IF r \in p.modifiedRefs THEN p.batches[r] ELSE batches[r]
           /\ products'[p.sku] = p.version
           /\ \A s \in Skus \ {p.sku} : products'[s] = products[s]
           /\ \A v \in Workers \ {w} :
                 /\ stale[v] \subseteq stale'[v]
                 /\ snapshot[v] => <<"products", p.sku>> \in stale'[v]
           /\ Storable(p) /\ products[p.sku] \in {oldVersion[w], NoVersion}
           /\ <<"products", p.sku>> \notin Conflicts(w)
<1>1. p.sku \in Skus /\ p.version \in Nat /\ p.modifiedRefs \subseteq Refs
  BY DEF Aggregate
<1>2. /\ products' = [products EXCEPT ![p.sku] = p.version]
      /\ batches' = [r \in Refs |-> IF r \in p.modifiedRefs THEN p.batches[r] ELSE batches[r]]
      /\ stale' = [v \in Workers |->
             IF v = w THEN {}
             ELSE IF snapshot[v] THEN stale[v] \cup Written(p) ELSE stale[v]]
  BY DEF Commit, WriteBack
<1>3. products \in [Skus -> Nat \cup {NoVersion}]
  BY DEF StockInvariant, TypeOK
<1>4. <<"products", p.sku>> \in Written(p)
  BY DEF Written
<1>5. \A v \in Workers \ {w} :
          /\ stale[v] \subseteq stale'[v]
          /\ snapshot[v] => <<"products", p.sku>> \in stale'[v]
  BY <1>2, <1>4
<1>6. /\ Storable(p) /\ products[p.sku] \in {oldVersion[w], NoVersion}
      /\ <<"products", p.sku>> \notin Conflicts(w)
  BY <1>4 DEF Commit, CanCommit, SqlError, VersionError, VersionMatches
<1>7. QED
  BY <1>1, <1>2, <1>3, <1>5, <1>6

LEMMA UnmodifiedCommit ==
    ASSUME StockInvariant, NEW w \in Workers, NEW p, Commit(w, p), ~p.modified
    PROVE  LeavesStock(w)
BY DEF Commit, WriteBack, LeavesStock, StockInvariant, TypeOK

\* A line put in a stored batch that can take it.
LEMMA PlacedLine ==
    ASSUME StockInvariant, NEW w \in Workers, NEW p \in Aggregate, Sound(p), Commit(w, p), p.modified,
           NEW r \in p.modifiedRefs, NEW l \in OrderLines, Contains(p, r),
           batches[r] # NoBatch, CanAllocate(batches[r], l),
           p.batches[r] = AllocateLine(batches[r], l),
           \A x \in p.modifiedRefs \ {r} : p.batches[x] = batches[x],
           products[p.sku] # NoVersion, p.version > oldVersion[w]
    PROVE  Writes(w, p.sku, r)
<1>1. /\ p.sku \in Skus /\ p.version \in Nat /\ r \in Refs
      /\ \A x \in Refs : batches'[x] = IF x \in p.modifiedRefs THEN p.batches[x] ELSE batches[x]
      /\ products'[p.sku] = p.version
      /\ \A s \in Skus \ {p.sku} : products'[s] = products[s]
      /\ \A v \in Workers \ {w} :
            /\ stale[v] \subseteq stale'[v]
            /\ snapshot[v] => <<"products", p.sku>> \in stale'[v]
      /\ Storable(p) /\ products[p.sku] = oldVersion[w]
  BY CommitEffects
<1>2. batches[r] \in Batch
  BY <1>1 DEF StockInvariant, TypeOK
<1>3. p.batches[r] = [batches[r] EXCEPT !.allocations = @ \cup {l}]
  BY DEF AllocateLine
<1>4. /\ p.batches[r].sku = batches[r].sku /\ p.batches[r].purchased = batches[r].purchased
      /\ p.batches[r].allocations = batches[r].allocations \cup {l}
      /\ p.batches[r] \in Batch
  BY <1>2, <1>3 DEF Batch
<1>5. batches[r].sku = p.sku /\ l.sku = p.sku
  BY <1>1, <1>4 DEF Sound, CanAllocate
<1>6. l.quantity > 0
  BY <1>1, <1>4 DEF Storable
<1>7. Total[batches[r].allocations \cup {l}] <= batches[r].purchased
  <2>1. Available(p.batches[r]) >= 0
    BY <1>1 DEF Sound
  <2>2. Total[p.batches[r].allocations] \in Int /\ p.batches[r].purchased \in Int
    BY <1>4, AvailableIsInt
  <2>3. QED
    BY <1>4, <2>1, <2>2 DEF Available
<1>8. Places(p.sku, r)
  BY <1>1, <1>3, <1>5, <1>6, <1>7 DEF Places
<1>9. \A x \in Refs \ {r} : batches'[x] = batches[x]
  BY <1>1
<1>10. QED
  BY <1>1, <1>8, <1>9 DEF Writes

-----------------------------------------------------------------------------
(* The command's commit *)

LEMMA ExecuteFacts ==
    ASSUME StockInvariant, NEW w \in Workers, Guarded(w), pc[w] = "execute",
           NEW p \in Outcomes(w), Commit(w, p)
    PROVE  /\ tracked[w] \in Aggregate /\ tracked[w].sku \in Skus /\ Sound(tracked[w])
           /\ ~tracked[w].modified /\ tracked[w].modifiedRefs = {} /\ tracked[w].messages = <<>>
           /\ tracked[w].version = oldVersion[w] /\ oldVersion[w] \in Nat
           /\ command[w] \in Commands
           /\ command[w].type = "CreateBatch" \/ products[tracked[w].sku] # NoVersion
           /\ p \in Aggregate /\ Sound(p) /\ p.sku = tracked[w].sku
           /\ p.modified => IsCurrent(tracked[w])
<1>1. /\ snapshot[w] /\ ~tracked[w].modified /\ tracked[w].modifiedRefs = {}
      /\ tracked[w].messages = <<>> /\ tracked[w].version = oldVersion[w]
      /\ command[w].type = "CreateBatch" \/ products[tracked[w].sku] # NoVersion
      /\ <<"products", tracked[w].sku>> \notin stale[w] => IsCurrent(tracked[w])
  BY DEF Guarded, ExecutesWhatItLoaded
<1>2. tracked[w] \in Aggregate /\ Sound(tracked[w]) /\ oldVersion[w] \in Nat /\ command[w] \in Commands
  BY DEF StockInvariant, TypeOK, TrackedIsSound
<1>3. tracked[w].sku \in Skus
  BY <1>2 DEF Aggregate
<1>4. p \in Aggregate /\ Sound(p)
  BY OutcomesSound DEF Commit
<1>5. p.sku = tracked[w].sku
  <2>1. CASE command[w].type = "CreateBatch"
    BY <2>1, <1>2 DEF Outcomes, WithBatch, Aggregate
  <2>2. CASE command[w].type = "Allocate"
    BY <2>2, <1>2, CommandFields, AllocateEffects DEF Outcomes
  <2>3. CASE command[w].type = "ChangeBatchQuantity"
    <3>1. /\ command[w].ref \in Refs /\ command[w].qty \in Quantities
          /\ Contains(tracked[w], command[w].ref)
      BY <1>2, <2>3, CommandFields DEF StockInvariant, WorksOnItsProduct
    <3>2. p \in ChangeQuantityOutcomes(tracked[w], command[w].ref, command[w].qty)
      BY <2>3 DEF Outcomes
    <3>3. QED
      BY <1>2, <3>1, <3>2, ChangeQuantityOutcomesSound
  <2>4. QED
    BY <1>2, <2>1, <2>2, <2>3, CommandFields
<1>6. ASSUME p.modified
      PROVE  IsCurrent(tracked[w])
  <2>1. <<"products", p.sku>> \notin Conflicts(w)
    BY <1>4, <1>6, CommitEffects
  <2>2. QED
    BY <1>1, <1>5, <2>1 DEF Conflicts
<1>7. QED
  BY <1>1, <1>2, <1>3, <1>4, <1>5, <1>6
LEMMA CreateBatchWrites ==
    ASSUME StockInvariant, RegisteredByCommands, OneSkuPerReference,
           NEW w \in Workers, Guarded(w), pc[w] = "execute",
           command[w].type = "CreateBatch",
           NEW p \in Outcomes(w), Commit(w, p)
    PROVE  /\ p.messages = <<>>
           /\ LeavesStock(w) \/ \E sku \in Skus : \E r \in Refs : Writes(w, sku, r)
<1> DEFINE t == tracked[w]
           c == command[w]
           b == NewBatch(c.sku, c.qty, c.eta)
<1>1. /\ t \in Aggregate /\ t.sku \in Skus /\ Sound(t)
      /\ ~t.modified /\ t.modifiedRefs = {} /\ t.messages = <<>>
      /\ t.version = oldVersion[w] /\ oldVersion[w] \in Nat /\ c \in Commands
      /\ p \in Aggregate /\ Sound(p) /\ p.sku = t.sku
      /\ p.modified => IsCurrent(t)
  BY ExecuteFacts
<1>2. /\ c.ref \in Refs /\ c.sku \in Skus /\ c.qty \in Quantities /\ c.eta \in Etas
      /\ t.sku = c.sku
  BY <1>1, CommandFields DEF StockInvariant, WorksOnItsProduct
<1>3. b \in Batch /\ b.sku = c.sku /\ b.purchased = c.qty /\ b.allocations = {}
  BY <1>2 DEF NewBatch, Batch
<1>4. p = WithBatch(t, c.ref, b)
  BY DEF Outcomes
<1> HIDE DEF b
<1>5. /\ p.version = t.version /\ p.messages = <<>>
      /\ \/ p = t
         \/ /\ ~Contains(t, c.ref)
            /\ p.batches = [t.batches EXCEPT ![c.ref] = b]
            /\ p.modified /\ p.modifiedRefs = {c.ref}
  BY <1>1, <1>2, <1>3, <1>4, WithBatchEffects
<1>6. CASE p = t
  BY <1>1, <1>5, <1>6, UnmodifiedCommit
<1>7. CASE ~Contains(t, c.ref) /\ p.batches = [t.batches EXCEPT ![c.ref] = b]
           /\ p.modified /\ p.modifiedRefs = {c.ref}
  <2>1. p.batches[c.ref] = b
    BY <1>1, <1>2, <1>7 DEF Aggregate
  <2>2. /\ \A x \in Refs : batches'[x] = IF x \in p.modifiedRefs THEN p.batches[x] ELSE batches[x]
        /\ products'[p.sku] = p.version /\ p.version \in Nat
        /\ \A s \in Skus \ {p.sku} : products'[s] = products[s]
        /\ \A v \in Workers \ {w} :
              /\ stale[v] \subseteq stale'[v]
              /\ snapshot[v] => <<"products", p.sku>> \in stale'[v]
        /\ Storable(p) /\ products[p.sku] \in {oldVersion[w], NoVersion}
    BY <1>1, <1>7, CommitEffects
  <2>3. batches[c.ref] = NoBatch
    <3> SUFFICES ASSUME batches[c.ref] # NoBatch
                 PROVE  FALSE
      OBVIOUS
    <3>1. PICK d \in Commands : d.type = "CreateBatch" /\ d.ref = c.ref /\ d.sku = batches[c.ref].sku
      BY <1>2 DEF RegisteredByCommands
    <3>2. batches[c.ref].sku = t.sku
      BY <1>1, <1>2, <3>1 DEF OneSkuPerReference
    <3>3. t.batches[c.ref] = batches[c.ref]
      BY <1>1, <1>2, <1>7, <3>2 DEF IsCurrent
    <3>4. QED
      BY <1>7, <3>3 DEF Contains
  <2>4. c.qty > 0
    BY <1>3, <1>7, <2>1, <2>2 DEF Storable
  <2>5. products'[p.sku] # NoVersion /\ (products[p.sku] # NoVersion => products'[p.sku] = products[p.sku])
    BY <1>1, <1>5, <2>2, ServiceAssumption
  <2>6. Registers(p.sku, c.ref)
    BY <1>1, <1>2, <1>3, <1>7, <2>1, <2>2, <2>3, <2>4, <2>5 DEF Registers
  <2>7. \A x \in Refs \ {c.ref} : batches'[x] = batches[x]
    BY <1>7, <2>2
  <2>8. Writes(w, p.sku, c.ref)
    BY <2>2, <2>6, <2>7 DEF Writes
  <2>9. QED
    BY <1>1, <1>2, <1>5, <2>8
<1>8. QED
  BY <1>5, <1>6, <1>7
LEMMA AllocateWrites ==
    ASSUME StockInvariant, NEW w \in Workers, Guarded(w), pc[w] = "execute",
           command[w].type = "Allocate",
           NEW p \in Outcomes(w), Commit(w, p)
    PROVE  /\ \A i \in DOMAIN p.messages : p.messages[i].type # "Deallocated"
           /\ LeavesStock(w) \/ \E sku \in Skus : \E r \in Refs : Writes(w, sku, r)
<1> DEFINE t == tracked[w]
           l == command[w].line
<1>1. /\ t \in Aggregate /\ t.sku \in Skus /\ Sound(t)
      /\ ~t.modified /\ t.modifiedRefs = {} /\ t.messages = <<>>
      /\ t.version = oldVersion[w] /\ oldVersion[w] \in Nat /\ command[w] \in Commands
      /\ products[t.sku] # NoVersion
      /\ p \in Aggregate /\ Sound(p) /\ p.sku = t.sku
      /\ p.modified => IsCurrent(t)
  BY ExecuteFacts
<1>2. l \in OrderLines /\ p \in AllocateOutcomes(t, l)
  BY <1>1, CommandFields DEF Outcomes
<1> HIDE DEF t, l
<1>3. /\ p.sku = t.sku
      /\ \/ /\ p.batches = t.batches /\ p.version = t.version
            /\ p.modified = t.modified /\ p.modifiedRefs = t.modifiedRefs
         \/ \E r \in Preferred(t, l) :
                /\ r \in Refs /\ Contains(t, r) /\ CanAllocate(t.batches[r], l)
                /\ p.batches = [t.batches EXCEPT ![r] = AllocateLine(t.batches[r], l)]
                /\ p.version = t.version + 1
                /\ p.modified /\ p.modifiedRefs = t.modifiedRefs \cup {r}
      /\ t.messages = <<>> => \A i \in DOMAIN p.messages : p.messages[i].type # "Deallocated"
  BY <1>1, <1>2, AllocateEffects
<1>4. CASE p.modified = t.modified
  BY <1>1, <1>3, <1>4, UnmodifiedCommit
<1>5. ASSUME NEW r \in Preferred(t, l),
             r \in Refs, Contains(t, r), CanAllocate(t.batches[r], l),
             p.batches = [t.batches EXCEPT ![r] = AllocateLine(t.batches[r], l)],
             p.version = t.version + 1,
             p.modified, p.modifiedRefs = t.modifiedRefs \cup {r}
      PROVE  \E sku \in Skus : \E x \in Refs : Writes(w, sku, x)
  <2>1. p.modifiedRefs = {r}
    BY <1>1, <1>5
  <2>2. t.batches[r] = batches[r] /\ batches[r] # NoBatch
    BY <1>1, <1>5 DEF IsCurrent, Contains
  <2>3. p.batches[r] = AllocateLine(batches[r], l)
    BY <1>1, <1>5, <2>2 DEF Aggregate
  <2>4. batches[r] \in Batch /\ CanAllocate(batches[r], l)
    BY <1>5, <2>2 DEF StockInvariant, TypeOK
  <2>5. AllocateLine(batches[r], l) \in Batch
    BY <1>2, <2>4 DEF AllocateLine, Batch
  <2>6. Contains(p, r)
    BY <2>3, <2>5, NullAssumption DEF Contains
  <2>7. p.version > oldVersion[w]
    BY <1>1, <1>5
  <2>8. Writes(w, p.sku, r)
    BY <1>1, <1>2, <1>5, <2>1, <2>2, <2>3, <2>4, <2>6, <2>7, PlacedLine
  <2>9. QED
    BY <1>1, <1>5, <2>8
<1>6. QED
  BY <1>1, <1>3, <1>4, <1>5

LEMMA ChangeQuantityWrites ==
    ASSUME StockInvariant, NEW w \in Workers, Guarded(w), pc[w] = "execute",
           command[w].type = "ChangeBatchQuantity",
           NEW p \in Outcomes(w), Commit(w, p)
    PROVE  /\ w = Listener /\ p.modified /\ p.version = oldVersion[w]
           /\ \A r \in p.modifiedRefs : Contains(p, r)
           /\ \A r \in Refs \ p.modifiedRefs : p.batches[r] = tracked[w].batches[r]
           /\ \E sku \in Skus : \E r \in Refs : Writes(w, sku, r)
<1> DEFINE t == tracked[w]
           ref == command[w].ref
           qty == command[w].qty
<1>1. /\ t \in Aggregate /\ t.sku \in Skus /\ Sound(t)
      /\ ~t.modified /\ t.modifiedRefs = {} /\ t.messages = <<>>
      /\ t.version = oldVersion[w] /\ oldVersion[w] \in Nat /\ command[w] \in Commands
      /\ products[t.sku] # NoVersion
      /\ p \in Aggregate /\ Sound(p) /\ p.sku = t.sku
      /\ p.modified => IsCurrent(t)
  BY ExecuteFacts
<1>2. ref \in Refs /\ qty \in Quantities /\ Contains(t, ref)
  BY <1>1, CommandFields DEF StockInvariant, WorksOnItsProduct
<1>3. p \in ChangeQuantityOutcomes(t, ref, qty)
  BY DEF Outcomes
<1> HIDE DEF t, ref, qty
<1>4. QuantityChanged(t, p, ref, qty)
  BY <1>1, <1>2, <1>3, ChangeQuantityEffects
<1>5. p.version = t.version /\ p.modified /\ p.modifiedRefs = {ref}
  BY <1>1, <1>4 DEF QuantityChanged
<1>6. PICK kept \in SUBSET t.batches[ref].allocations :
          /\ p.batches = [t.batches EXCEPT ![ref] =
                 [t.batches[ref] EXCEPT !.purchased = qty, !.allocations = kept]]
          /\ Total[kept] <= qty
          /\ \/ kept = t.batches[ref].allocations
             \/ \E l \in t.batches[ref].allocations \ kept : Total[kept \cup {l}] > qty
  BY <1>4 DEF QuantityChanged
<1>7. /\ t.batches[ref] = batches[ref] /\ batches[ref] # NoBatch /\ batches[ref].sku = p.sku
  BY <1>1, <1>2, <1>5 DEF IsCurrent, Contains
<1>8. p.batches[ref] = [batches[ref] EXCEPT !.purchased = qty, !.allocations = kept]
  BY <1>1, <1>2, <1>6, <1>7 DEF Aggregate
<1>9. batches[ref] \in Batch
  BY <1>2, <1>7 DEF StockInvariant, TypeOK
<1>10. p.batches[ref] \in Batch /\ p.batches[ref].purchased = qty
  <2>1. kept \subseteq OrderLines
    BY <1>6, <1>7, <1>9 DEF Batch
  <2>2. QED
    BY <1>2, <1>8, <1>9, <2>1 DEF Batch
<1>11. Contains(p, ref)
  BY <1>10, NullAssumption DEF Contains
<1>12. \A r \in Refs \ p.modifiedRefs : p.batches[r] = t.batches[r]
  BY <1>1, <1>5, <1>6 DEF Aggregate
<1>13. w = Listener
  BY DEF Guarded, ReallocatesNothing, Workers
<1>14. /\ \A x \in Refs : batches'[x] = IF x \in p.modifiedRefs THEN p.batches[x] ELSE batches[x]
       /\ products'[p.sku] = p.version /\ p.version \in Nat
       /\ \A s \in Skus \ {p.sku} : products'[s] = products[s]
       /\ \A v \in Workers \ {w} :
             /\ stale[v] \subseteq stale'[v]
             /\ snapshot[v] => <<"products", p.sku>> \in stale'[v]
       /\ Storable(p) /\ products[p.sku] \in {oldVersion[w], NoVersion}
  BY <1>1, <1>5, CommitEffects
<1>15. qty > 0
  BY <1>5, <1>10, <1>14 DEF Storable
<1>16. products'[p.sku] = products[p.sku]
  BY <1>1, <1>5, <1>14
<1>17. ChangesQuantity(p.sku, ref)
  <2>1. batches'[ref] = [batches[ref] EXCEPT !.purchased = qty, !.allocations = kept]
    BY <1>2, <1>5, <1>8, <1>14
  <2>2. products[p.sku] # NoVersion
    BY <1>1
  <2>3. /\ kept \in SUBSET batches[ref].allocations
        /\ Total[kept] <= qty
        /\ \/ kept = batches[ref].allocations
           \/ \E l \in batches[ref].allocations \ kept : Total[kept \cup {l}] > qty
    BY <1>6, <1>7
  <2>4. QED
    BY <1>2, <1>7, <1>15, <1>16, <2>1, <2>2, <2>3 DEF ChangesQuantity
<1>18. \A x \in Refs \ {ref} : batches'[x] = batches[x]
  BY <1>5, <1>14
<1>19. Writes(w, p.sku, ref)
  BY <1>13, <1>14, <1>17, <1>18 DEF Writes
<1>20. QED
  BY <1>1, <1>2, <1>5, <1>11, <1>12, <1>13, <1>19 DEF t
LEMMA ExecuteGuarded ==
    ASSUME StockInvariant, RegisteredByCommands, OneSkuPerReference,
           NEW w \in Workers, Guarded(w), Execute(w)
    PROVE  /\ Guarded(w)'
           /\ LeavesStock(w) \/ \E sku \in Skus : \E r \in Refs : Writes(w, sku, r)
           /\ \A v \in Workers \ {w} : Rests(v)
<1>1. PICK p \in Outcomes(w) :
          /\ Commit(w, p)
          /\ pc' = [pc EXCEPT ![w] = "events"]
          /\ queue' = [queue EXCEPT ![w] = p.messages]
          /\ tracked' = [tracked EXCEPT ![w] = ClearMessages(SetModified(p, FALSE))]
  BY DEF Execute
<1>2. pc[w] = "execute" /\ UNCHANGED <<command, oldVersion>>
  BY <1>1 DEF Execute, Commit
<1>3. /\ p \in Aggregate /\ command[w] \in Commands /\ oldVersion[w] \in Nat
      /\ p.sku = tracked[w].sku /\ p.sku \in Skus
      /\ p.modified => IsCurrent(tracked[w])
  BY <1>1, <1>2, ExecuteFacts
<1> DEFINE n == ClearMessages(SetModified(p, FALSE))
<1>4. /\ n.sku = p.sku /\ n.version = p.version /\ n.batches = p.batches
      /\ n.modifiedRefs = p.modifiedRefs /\ ~n.modified /\ n.messages = <<>>
  BY <1>3 DEF ClearMessages, SetModified, Aggregate
<1> HIDE DEF n
<1>5. /\ pc'[w] = "events" /\ queue'[w] = p.messages /\ tracked'[w] = n
      /\ command'[w] = command[w] /\ oldVersion'[w] = oldVersion[w]
  BY <1>1, <1>2 DEF StockInvariant, TypeOK, n
<1>6. /\ command[w].type # "ChangeBatchQuantity" =>
             \A i \in DOMAIN p.messages : p.messages[i].type # "Deallocated"
      /\ LeavesStock(w) \/ \E sku \in Skus : \E r \in Refs : Writes(w, sku, r)
  <2>1. CASE command[w].type = "CreateBatch"
    BY <1>1, <1>2, <2>1, CreateBatchWrites
  <2>2. CASE command[w].type = "Allocate"
    BY <1>1, <1>2, <2>2, AllocateWrites
  <2>3. CASE command[w].type = "ChangeBatchQuantity"
    BY <1>1, <1>2, <2>3, ChangeQuantityWrites
  <2>4. QED
    BY <1>3, <2>1, <2>2, <2>3, CommandFields
<1>7. w \in HttpWorkers => ReallocatesNothing(w)'
  BY <1>2, <1>4, <1>5, <1>6 DEF Guarded, ReallocatesNothing
<1>8. ASSUME w = Listener
      PROVE  ReallocatesUnderTheVersion(w)'
  <2>1. command[w].type = "ChangeBatchQuantity"
    BY <1>2, <1>8 DEF Guarded, ReallocatesUnderTheVersion
  <2>2. /\ p.modified /\ p.version = oldVersion[w]
        /\ \A r \in p.modifiedRefs : Contains(p, r)
        /\ \A r \in Refs \ p.modifiedRefs : p.batches[r] = tracked[w].batches[r]
    BY <1>1, <1>2, <2>1, ChangeQuantityWrites
  <2>3. /\ \A r \in Refs : batches'[r] = IF r \in p.modifiedRefs THEN p.batches[r] ELSE batches[r]
        /\ products'[p.sku] = p.version
    BY <1>1, <1>3, <2>2, CommitEffects
  <2>4. \A r \in Refs : Contains(p, r) => p.batches[r] = batches'[r]
    BY <1>3, <2>2, <2>3 DEF IsCurrent, Contains
  <2>5. /\ products'[n.sku] # NoVersion /\ products'[n.sku] >= oldVersion'[w]
        /\ n.version >= oldVersion'[w]
    BY <1>3, <1>4, <1>5, <2>2, <2>3, ServiceAssumption
  <2>6. /\ \A r \in n.modifiedRefs : Contains(n, r)
        /\ \A r \in Refs : Contains(n, r) => n.batches[r] = batches'[r]
    BY <1>4, <2>2, <2>4 DEF Contains
  <2>7. QED
    BY <1>4, <1>5, <2>1, <2>5, <2>6 DEF ReallocatesUnderTheVersion
<1>9. Guarded(w)'
  BY <1>5, <1>7, <1>8 DEF Guarded, ExecutesWhatItLoaded
<1>10. \A v \in Workers \ {w} : Rests(v)
  BY <1>1, <1>2 DEF Commit, Rests, StockInvariant, TypeOK
<1>11. QED
  BY <1>6, <1>9, <1>10
-----------------------------------------------------------------------------
(* The handlers of events *)

\* The bus's queue gets no Deallocated event it had not.
LEMMA QueueStays ==
    ASSUME NEW q \in Seq(Event), q # <<>>, NEW last \in BOOLEAN,
           \A i \in DOMAIN q : q[i].type # "Deallocated"
    PROVE  /\ \A i \in DOMAIN Rest(q, last) : Rest(q, last)[i].type # "Deallocated"
           /\ Rest(q, last) \in Seq(Event) /\ Rest(q, last) \o <<>> = Rest(q, last)
<1>1. CASE last
  <2>1. Tail(q) \in Seq(Event) /\ Len(Tail(q)) = Len(q) - 1
    OBVIOUS
  <2>2. \A i \in 1..Len(Tail(q)) : Tail(q)[i] = q[i + 1] /\ i + 1 \in 1..Len(q)
    BY <2>1
  <2>3. \A i \in DOMAIN Tail(q) : Tail(q)[i].type # "Deallocated"
    BY <2>1, <2>2
  <2>4. QED
    BY <1>1, <2>1, <2>3 DEF Rest
<1>2. CASE ~last
  BY <1>2 DEF Rest
<1>3. QED
  BY <1>1, <1>2

\* A commit of w that cannot go through cannot with more conflicts either.
LEMMA SameFate ==
    ASSUME NEW w \in Workers, NEW p, NEW q,
           q.sku = p.sku, q.modified = p.modified, q.modifiedRefs = p.modifiedRefs,
           q.batches = p.batches, ~CanCommit(w, p),
           UNCHANGED <<products, oldVersion>>, Conflicts(w) \subseteq Conflicts(w)'
    PROVE  ~CanCommit(w, q)'
BY DEF CanCommit, SqlError, VersionError, VersionMatches, Written, Storable

\* The listener's object passes from handler to handler.
LEMMA ListenerGoesOn ==
    ASSUME StockInvariant, Guarded(Listener), pc[Listener] \in {"events", "reallocate"},
           NEW n, tracked'[Listener] = n, pc'[Listener] = "events",
           n.sku = tracked[Listener].sku, n.version = tracked[Listener].version,
           n.batches = tracked[Listener].batches,
           n.modifiedRefs = tracked[Listener].modifiedRefs,
           UNCHANGED <<products, batches, command, oldVersion>>,
           ~n.modified => ~tracked[Listener].modified,
           n.modified => tracked[Listener].modified /\ ~CanCommit(Listener, n)'
    PROVE  ReallocatesUnderTheVersion(Listener)'
BY DEF Guarded, ReallocatesUnderTheVersion, Contains

\* A handler that throws leaves the stock and its object, and takes away no conflict.
LEMMA ThrownLeaves ==
    ASSUME StockInvariant, NEW w \in Workers, NEW last,
           VersionIsOutdated(w, tracked[w], last) \/ StatementFails(w, tracked[w], last)
    PROVE  /\ UNCHANGED <<products, batches, command, oldVersion>>
           /\ tracked'[w] = tracked[w] /\ queue'[w] = Rest(queue[w], last)
           /\ LeavesStock(w) /\ Conflicts(w) \subseteq Conflicts(w)'
<1>1. Caught(w, tracked[w], last)
  BY DEF VersionIsOutdated, StatementFails
<1>2. /\ Conflicts(w) \subseteq Conflicts(w)'
      /\ \A v \in Workers \ {w} : stale'[v] = stale[v]
  <2>1. CASE VersionIsOutdated(w, tracked[w], last)
    BY <2>1 DEF VersionIsOutdated, Conflicts
  <2>2. CASE StatementFails(w, tracked[w], last)
    BY <2>2 DEF StatementFails, Conflicts, StockInvariant, TypeOK
  <2>3. QED
    BY <2>1, <2>2
<1>3. UNCHANGED <<products, batches, command, oldVersion>>
  BY <1>1 DEF Caught
<1>4. LeavesStock(w)
  BY <1>2, <1>3 DEF LeavesStock
<1>5. QED
  BY <1>1, <1>2, <1>3, <1>4 DEF Caught, StockInvariant, TypeOK

LEMMA HandlerGuarded ==
    ASSUME StockInvariant, NEW w \in Workers, Guarded(w), pc[w] = "events", queue[w] # <<>>,
           NEW last \in BOOLEAN,
           \/ /\ Commit(w, tracked[w]) /\ Handled(w, SetModified(tracked[w], FALSE), last)
           \/ VersionIsOutdated(w, tracked[w], last) \/ StatementFails(w, tracked[w], last)
           \/ /\ Handled(w, tracked[w], last)
              /\ UNCHANGED <<dbVars, oldVersion, snapshot, stale>>
    PROVE  /\ Guarded(w)' /\ LeavesStock(w)
           /\ \A v \in Workers \ {w} : Rests(v)
<1> DEFINE t == tracked[w]
<1>0. PICK n : n = tracked'[w]
  OBVIOUS
<1>1. t \in Aggregate /\ queue[w] \in Seq(Event)
  BY HandlingFacts
<1>2. /\ \A v \in Workers \ {w} : Rests(v)
      /\ pc'[w] = "events" /\ command'[w] = command[w] /\ oldVersion'[w] = oldVersion[w]
  BY DEF Commit, Handled, VersionIsOutdated, StatementFails, Caught, Rests, StockInvariant,
         TypeOK
<1>3. /\ LeavesStock(w)
      /\ n.modified => Conflicts(w) \subseteq Conflicts(w)'
      /\ n.sku = t.sku /\ n.version = t.version /\ n.batches = t.batches
      /\ n.modifiedRefs = t.modifiedRefs /\ n.modified = t.modified
      /\ t.messages = <<>> => n.messages = <<>>
      /\ queue'[w] = Rest(queue[w], last) \o t.messages \/ queue'[w] = Rest(queue[w], last)
  <2>1. CASE Commit(w, t) /\ Handled(w, SetModified(t, FALSE), last)
    <3>1. ~t.modified
      BY <2>1 DEF Commit, Guarded, ReallocatesNothing, ReallocatesUnderTheVersion, Workers
    <3>2. LeavesStock(w)
      BY <2>1, <3>1, UnmodifiedCommit
    <3>3. n = ClearMessages(SetModified(t, FALSE))
      BY <1>0, <2>1 DEF Handled, StockInvariant, TypeOK
    <3>4. /\ n.sku = t.sku /\ n.version = t.version /\ n.batches = t.batches
          /\ n.modifiedRefs = t.modifiedRefs /\ n.modified = FALSE /\ n.messages = <<>>
      BY <1>1, <3>3 DEF ClearMessages, SetModified, Aggregate
    <3>5. queue'[w] = Rest(queue[w], last) \o t.messages
      BY <1>1, <2>1 DEF Handled, SetModified, Aggregate, StockInvariant, TypeOK
    <3>6. t.modified = FALSE
      BY <1>1, <3>1 DEF Aggregate
    <3>7. QED
      BY <3>2, <3>4, <3>5, <3>6
  <2>2. CASE VersionIsOutdated(w, t, last) \/ StatementFails(w, t, last)
    BY <1>0, <2>2, ThrownLeaves
  <2>3. CASE Handled(w, t, last) /\ UNCHANGED <<dbVars, oldVersion, snapshot, stale>>
    <3>1. n = ClearMessages(t) /\ queue'[w] = Rest(queue[w], last) \o t.messages
      BY <1>0, <2>3 DEF Handled, StockInvariant, TypeOK
    <3>2. /\ n.sku = t.sku /\ n.version = t.version /\ n.batches = t.batches
          /\ n.modifiedRefs = t.modifiedRefs /\ n.modified = t.modified /\ n.messages = <<>>
      BY <1>1, <3>1 DEF ClearMessages, Aggregate
    <3>3. LeavesStock(w) /\ Conflicts(w)' = Conflicts(w)
      BY <2>3 DEF LeavesStock, Conflicts, dbVars
    <3>4. QED
      BY <3>1, <3>2, <3>3
  <2>4. QED
    BY <2>1, <2>2, <2>3
<1>4. ASSUME w \in HttpWorkers
      PROVE  ReallocatesNothing(w)'
  <2>1. /\ ~t.modified /\ t.messages = <<>> /\ command[w].type # "ChangeBatchQuantity"
        /\ \A i \in DOMAIN queue[w] : queue[w][i].type # "Deallocated"
    BY <1>4 DEF Guarded, ReallocatesNothing
  <2>2. \A i \in DOMAIN queue'[w] : queue'[w][i].type # "Deallocated"
    BY <1>1, <1>3, <2>1, QueueStays
  <2>3. QED
    BY <1>0, <1>2, <1>3, <2>1, <2>2 DEF ReallocatesNothing
<1>5. ASSUME w = Listener
      PROVE  ReallocatesUnderTheVersion(w)'
  <2>1. t.modified => ~CanCommit(w, t)
    BY <1>5 DEF Guarded, ReallocatesUnderTheVersion
  <2>2. UNCHANGED <<products, batches, oldVersion, command>>
    BY <1>3 DEF LeavesStock, Commit, Handled, VersionIsOutdated, StatementFails, Caught
  <2>3. n.modified => ~CanCommit(w, n)'
    <3> SUFFICES ASSUME n.modified
                 PROVE  ~CanCommit(w, n)'
      OBVIOUS
    <3>1. Conflicts(w) \subseteq Conflicts(w)' /\ ~CanCommit(w, t)
      BY <1>3, <2>1
    <3>2. QED
      BY <1>3, <2>2, <3>1, SameFate
  <2>4. QED
    BY <1>0, <1>2, <1>3, <1>5, <2>1, <2>2, <2>3, ListenerGoesOn
<1>6. Guarded(w)'
  BY <1>2, <1>4, <1>5 DEF Guarded, ExecutesWhatItLoaded
<1>7. QED
  BY <1>2, <1>3, <1>6
\* A commit that fails fails with more in it, too.
LEMMA StuckStaysStuck ==
    ASSUME NEW w \in Workers, NEW p \in Aggregate, NEW q,
           p.modified, ~CanCommit(w, p),
           q.sku = p.sku, q.modified, p.modifiedRefs \subseteq q.modifiedRefs,
           \A r \in p.modifiedRefs :
               /\ q.batches[r].purchased = p.batches[r].purchased
               /\ p.batches[r].allocations \subseteq q.batches[r].allocations,
           UNCHANGED <<products, oldVersion>>, Conflicts(w) \subseteq Conflicts(w)'
    PROVE  ~CanCommit(w, q)'
<1>1. Written(p) \subseteq Written(q)
  BY DEF Written
<1>2. Storable(q) => Storable(p)
  BY DEF Storable
<1>3. Written(q)' = Written(q) /\ (Storable(q)' <=> Storable(q))
  BY DEF Written, Storable
<1>4. VersionMatches(w, q)' <=> VersionMatches(w, p)
  BY DEF VersionMatches
<1>5. QED
  BY <1>1, <1>2, <1>3, <1>4 DEF CanCommit, SqlError, VersionError

LEMMA ReallocateGuarded ==
    ASSUME StockInvariant, NEW w \in Workers, Guarded(w), Reallocate(w)
    PROVE  /\ Guarded(w)' /\ LeavesStock(w)
           /\ \A v \in Workers \ {w} : Rests(v)
<1> DEFINE t == tracked[w]
           line == Head(queue[w]).line
<1>1. /\ pc[w] = "events" /\ queue[w] # <<>> /\ Head(queue[w]).type = "Deallocated"
      /\ UNCHANGED <<products, batches, command, queue, oldVersion>>
      /\ stale' = [stale EXCEPT ![w] = Conflicts(w)]
      /\ pc' = [pc EXCEPT ![w] = "reallocate"]
  BY DEF Reallocate, Handling, dbVars
<1>2. PICK p \in AllocateOutcomes(t, line) :
          /\ tracked' = [tracked EXCEPT ![w] = p]
          /\ snapshot' = [snapshot EXCEPT ![w] = @ \/ p.modified]
  BY DEF Reallocate
<1>3. t \in Aggregate /\ Sound(t) /\ line \in OrderLines /\ queue[w] \in Seq(Event)
  BY <1>1, HandlingFacts, EventFields
<1>4. p \in Aggregate /\ p.version \in Nat /\ p.modifiedRefs \subseteq Refs
  BY <1>2, <1>3, AllocateOutcomesSound DEF Aggregate
<1>5. w = Listener
  <2>1. 1 \in DOMAIN queue[w] /\ queue[w][1].type = "Deallocated"
    BY <1>1, <1>3
  <2>2. QED
    BY <2>1 DEF Guarded, ReallocatesNothing, Workers
<1>6. /\ pc'[w] = "reallocate" /\ tracked'[w] = p /\ command'[w] = command[w]
      /\ oldVersion'[w] = oldVersion[w] /\ oldVersion[w] \in Nat
      /\ p.modified => Conflicts(w)' = Conflicts(w)
      /\ LeavesStock(w) /\ \A v \in Workers \ {w} : Rests(v)
  <2>1. /\ pc'[w] = "reallocate" /\ tracked'[w] = p /\ command'[w] = command[w]
        /\ oldVersion'[w] = oldVersion[w] /\ oldVersion[w] \in Nat
        /\ stale'[w] = Conflicts(w)
    BY <1>1, <1>2 DEF StockInvariant, TypeOK
  <2>2. p.modified => snapshot'[w] = TRUE
    BY <1>2 DEF StockInvariant, TypeOK
  <2>3. LeavesStock(w) /\ \A v \in Workers \ {w} : Rests(v)
    BY <1>1, <1>2 DEF LeavesStock, Rests, StockInvariant, TypeOK
  <2>4. QED
    BY <2>1, <2>2, <2>3 DEF Conflicts
<1>7. /\ command[w].type = "ChangeBatchQuantity"
      /\ products[t.sku] # NoVersion /\ products[t.sku] >= oldVersion[w]
      /\ t.version >= oldVersion[w] /\ t.version \in Nat
      /\ t.modified => t.version > oldVersion[w] /\ ~CanCommit(w, t)
      /\ \A r \in t.modifiedRefs : Contains(t, r)
      /\ ~t.modified /\ products[t.sku] = oldVersion[w] =>
             \A r \in Refs : Contains(t, r) => t.batches[r] = batches[r]
  BY <1>1, <1>3, <1>5 DEF Guarded, ReallocatesUnderTheVersion, Aggregate
<1> HIDE DEF t, line
<1>8. /\ p.sku = t.sku
      /\ \/ /\ p.batches = t.batches /\ p.version = t.version
            /\ p.modified = t.modified /\ p.modifiedRefs = t.modifiedRefs
         \/ \E r \in Preferred(t, line) :
                /\ r \in Refs /\ Contains(t, r) /\ CanAllocate(t.batches[r], line)
                /\ p.batches = [t.batches EXCEPT ![r] = AllocateLine(t.batches[r], line)]
                /\ p.version = t.version + 1
                /\ p.modified /\ p.modifiedRefs = t.modifiedRefs \cup {r}
      /\ t.messages = <<>> => \A i \in DOMAIN p.messages : p.messages[i].type # "Deallocated"
  BY <1>2, <1>3, AllocateEffects
<1>9. CASE /\ p.batches = t.batches /\ p.version = t.version
           /\ p.modified = t.modified /\ p.modifiedRefs = t.modifiedRefs
  <2>1. p.modified => ~CanCommit(w, p)'
    <3> SUFFICES ASSUME p.modified
                 PROVE  ~CanCommit(w, p)'
      OBVIOUS
    <3>1. Conflicts(w)' = Conflicts(w) /\ UNCHANGED <<products, oldVersion>>
      BY <1>1, <1>6
    <3>2. QED
      BY <1>7, <1>8, <1>9, <3>1, SameFate
  <2>2. ReallocatesUnderTheVersion(w)'
    BY <1>1, <1>6, <1>7, <1>8, <1>9, <2>1 DEF ReallocatesUnderTheVersion, Contains
  <2>3. QED
    BY <1>5, <1>6, <2>2, ServiceAssumption DEF Guarded, ExecutesWhatItLoaded
<1>10. ASSUME NEW r \in Preferred(t, line),
              r \in Refs, Contains(t, r), CanAllocate(t.batches[r], line),
              p.batches = [t.batches EXCEPT ![r] = AllocateLine(t.batches[r], line)],
              p.version = t.version + 1,
              p.modified, p.modifiedRefs = t.modifiedRefs \cup {r}
       PROVE  Guarded(w)' /\ LeavesStock(w) /\ \A v \in Workers \ {w} : Rests(v)
  <2>1. t.batches[r] \in Batch /\ \A x \in Refs : Contains(t, x) => t.batches[x] \in Batch
    BY <1>3, <1>10 DEF Aggregate, Contains
  <2>2. /\ AllocateLine(t.batches[r], line) \in Batch
        /\ AllocateLine(t.batches[r], line).purchased = t.batches[r].purchased
        /\ t.batches[r].allocations \subseteq AllocateLine(t.batches[r], line).allocations
    BY <1>3, <2>1 DEF AllocateLine, Batch
  <2>3. p.batches[r] = AllocateLine(t.batches[r], line) /\ \A x \in Refs \ {r} : p.batches[x] = t.batches[x]
    BY <1>3, <1>10 DEF Aggregate
  <2>4. \A x \in p.modifiedRefs : Contains(p, x)
    BY <1>4, <1>7, <1>10, <2>2, <2>3, NullAssumption DEF Contains
  <2>5. ASSUME t.modified
        PROVE  ~CanCommit(w, p)'
    <3>1. t.modifiedRefs \subseteq Refs
      BY <1>3 DEF Aggregate
    <3>2. \A x \in t.modifiedRefs :
              /\ p.batches[x].purchased = t.batches[x].purchased
              /\ t.batches[x].allocations \subseteq p.batches[x].allocations
      BY <2>2, <2>3, <3>1
    <3>3. Conflicts(w)' = Conflicts(w) /\ UNCHANGED <<products, oldVersion>>
      BY <1>1, <1>6, <1>10
    <3>4. t.modifiedRefs \subseteq p.modifiedRefs
      BY <1>10
    <3>5. QED
      BY <1>3, <1>7, <1>8, <1>10, <2>5, <3>2, <3>3, <3>4, StuckStaysStuck
  <2>6. ASSUME ~t.modified, CanCommit(w, p)'
        PROVE  PlacesOneLine(p, Head(queue[w]).line)'
    <3>1. products[t.sku] = oldVersion[w]
      BY <1>1, <1>6, <1>7, <1>8, <1>10, <2>6 DEF CanCommit, VersionError, VersionMatches
    <3>2. \A x \in Refs : Contains(t, x) => t.batches[x] = batches[x]
      BY <1>7, <2>6, <3>1
    <3>3. batches[r] = t.batches[r] /\ batches[r] # NoBatch
      BY <1>10, <3>2 DEF Contains
    <3>4. \A y \in p.modifiedRefs \ {r} : p.batches[y] = batches[y]
      BY <1>4, <1>7, <1>10, <2>3, <3>2
    <3>5. r \in p.modifiedRefs
      BY <1>10
    <3>6. PlacesOneLine(p, line)
      BY <1>3, <1>10, <2>3, <3>3, <3>4, <3>5 DEF PlacesOneLine
    <3>7. QED
      BY <1>1, <3>6 DEF PlacesOneLine, line
  <2>7. p.version > oldVersion[w] /\ p.version >= oldVersion[w]
    BY <1>6, <1>7, <1>10
  <2>8. ReallocatesUnderTheVersion(w)'
    BY <1>1, <1>6, <1>7, <1>8, <1>10, <2>4, <2>5, <2>6, <2>7
       DEF ReallocatesUnderTheVersion, Contains
  <2>9. QED
    BY <1>5, <1>6, <2>8, ServiceAssumption DEF Guarded, ExecutesWhatItLoaded
<1>11. QED
  BY <1>6, <1>8, <1>9, <1>10
LEMMA CommitReallocationGuarded ==
    ASSUME StockInvariant, NEW w \in Workers, Guarded(w), CommitReallocation(w)
    PROVE  /\ Guarded(w)'
           /\ LeavesStock(w) \/ \E sku \in Skus : \E r \in Refs : Writes(w, sku, r)
           /\ \A v \in Workers \ {w} : Rests(v)
<1> DEFINE t == tracked[w]
<1>0. PICK n : n = tracked'[w]
  OBVIOUS
<1>1. pc[w] = "reallocate" /\ queue[w] # <<>>
  BY DEF CommitReallocation, StockInvariant, ReallocatesAnEvent
<1>2. t \in Aggregate /\ Sound(t)
  BY <1>1, HandlingFacts
<1>3. w = Listener
  BY <1>1 DEF Guarded, ReallocatesNothing, Workers
<1>4. \/ /\ Commit(w, t) /\ Handled(w, SetModified(t, FALSE), TRUE)
      \/ VersionIsOutdated(w, t, TRUE)
      \/ t.modified /\ StatementFails(w, t, TRUE)
  BY DEF CommitReallocation, CommitFails
<1>5. /\ \A v \in Workers \ {w} : Rests(v)
      /\ pc'[w] = "events" /\ command'[w] = command[w] /\ oldVersion'[w] = oldVersion[w]
      /\ oldVersion[w] \in Nat
  <2>1. CASE Commit(w, t) /\ Handled(w, SetModified(t, FALSE), TRUE)
    BY <2>1 DEF Commit, Handled, Rests, StockInvariant, TypeOK
  <2>2. CASE VersionIsOutdated(w, t, TRUE)
    BY <2>2 DEF VersionIsOutdated, Caught, Rests, StockInvariant, TypeOK
  <2>3. CASE t.modified /\ StatementFails(w, t, TRUE)
    BY <2>3 DEF StatementFails, Caught, Rests, StockInvariant, TypeOK
  <2>4. QED
    BY <1>4, <2>1, <2>2, <2>3
<1>6. /\ command[w].type = "ChangeBatchQuantity"
      /\ products[t.sku] # NoVersion /\ products[t.sku] >= oldVersion[w]
      /\ t.version >= oldVersion[w] /\ (t.modified => t.version > oldVersion[w])
      /\ \A r \in t.modifiedRefs : Contains(t, r)
      /\ t.modified /\ CanCommit(w, t) => PlacesOneLine(t, Head(queue[w]).line)
      /\ Head(queue[w]).type = "Deallocated"
  BY <1>1, <1>3 DEF Guarded, ReallocatesUnderTheVersion
<1>7. CASE Commit(w, t) /\ Handled(w, SetModified(t, FALSE), TRUE)
  <2>1. n = ClearMessages(SetModified(t, FALSE))
    BY <1>0, <1>7 DEF Handled, StockInvariant, TypeOK
  <2>2. /\ n.sku = t.sku /\ n.version = t.version /\ n.batches = t.batches
        /\ n.modifiedRefs = t.modifiedRefs /\ ~n.modified
    BY <1>2, <2>1 DEF ClearMessages, SetModified, Aggregate
  <2>3. CASE ~t.modified
    <3>1. LeavesStock(w)
      BY <1>7, <2>3, UnmodifiedCommit
    <3>2. UNCHANGED <<products, batches, command, oldVersion>>
      BY <1>7, <3>1 DEF LeavesStock, Commit, Handled
    <3>3. ReallocatesUnderTheVersion(w)'
      BY <1>0, <1>1, <1>3, <1>5, <2>2, <2>3, <3>2, ListenerGoesOn
    <3>4. QED
      BY <1>3, <1>5, <3>1, <3>3, ServiceAssumption DEF Guarded, ExecutesWhatItLoaded
  <2>4. CASE t.modified
    <3>0. PICK l \in OrderLines : l = Head(queue[w]).line
      BY <1>1, <1>6, HandlingFacts, EventFields
    <3>1. PlacesOneLine(t, l)
      BY <1>6, <1>7, <2>4, <3>0 DEF Commit
    <3>2. PICK x \in t.modifiedRefs :
              /\ batches[x] # NoBatch
              /\ CanAllocate(batches[x], l)
              /\ t.batches[x] = AllocateLine(batches[x], l)
              /\ \A r \in t.modifiedRefs \ {x} : t.batches[r] = batches[r]
      BY <3>1 DEF PlacesOneLine
    <3>3. Contains(t, x) /\ t.version > oldVersion[w]
      BY <1>6, <2>4
    <3>4. Writes(w, t.sku, x)
      BY <1>2, <1>6, <1>7, <2>4, <3>2, <3>3, PlacedLine
    <3>5. /\ t.sku \in Skus /\ t.version \in Nat /\ x \in Refs
          /\ products'[t.sku] = t.version
      BY <1>2, <1>7, <2>4, CommitEffects
    <3>6. /\ products'[n.sku] # NoVersion /\ products'[n.sku] > oldVersion'[w]
          /\ products'[n.sku] >= oldVersion'[w] /\ products'[n.sku] # oldVersion'[w]
      BY <1>5, <2>2, <3>3, <3>5, ServiceAssumption
    <3>7. ReallocatesUnderTheVersion(w)'
      BY <1>0, <1>5, <1>6, <2>2, <3>6 DEF ReallocatesUnderTheVersion, Contains
    <3>8. QED
      BY <1>3, <1>5, <3>4, <3>5, <3>7, ServiceAssumption DEF Guarded, ExecutesWhatItLoaded
  <2>5. QED
    BY <2>3, <2>4
<1>8. CASE VersionIsOutdated(w, t, TRUE) \/ (t.modified /\ StatementFails(w, t, TRUE))
  <2>1. /\ n = t /\ UNCHANGED <<products, batches, command, oldVersion>>
        /\ LeavesStock(w) /\ Conflicts(w) \subseteq Conflicts(w)'
    BY <1>0, <1>8, ThrownLeaves
  <2>2. t.modified
    BY <1>8 DEF VersionIsOutdated, VersionError
  <2>3. ~CanCommit(w, n)'
    <3>1. CASE VersionIsOutdated(w, t, TRUE)
      BY <2>1, <3>1, SameFate DEF VersionIsOutdated, CanCommit
    <3>2. CASE StatementFails(w, t, TRUE)
      <4>1. Conflicts(w)' = Row
        BY <3>2 DEF StatementFails, Conflicts, StockInvariant, TypeOK
      <4>2. t.sku \in Skus
        BY <1>2 DEF Aggregate
      <4>3. <<"products", t.sku>> \in Written(n)' \cap Row
        BY <2>1, <4>2 DEF Written, Row
      <4>4. SqlError(w, n)'
        BY <2>1, <2>2, <4>1, <4>3 DEF SqlError
      <4>5. QED
        BY <4>4 DEF CanCommit
    <3>3. QED
      BY <1>8, <3>1, <3>2
  <2>4. ReallocatesUnderTheVersion(w)'
    BY <1>0, <1>1, <1>3, <1>5, <2>1, <2>2, <2>3, ListenerGoesOn
  <2>5. QED
    BY <1>3, <1>5, <2>1, <2>4, ServiceAssumption DEF Guarded, ExecutesWhatItLoaded
<1>9. QED
  BY <1>4, <1>7, <1>8

LEMMA EventGuarded ==
    ASSUME StockInvariant, NEW w \in Workers, Guarded(w), HandleEvent(w)
    PROVE  /\ Guarded(w)'
           /\ LeavesStock(w) \/ \E sku \in Skus : \E r \in Refs : Writes(w, sku, r)
           /\ \A v \in Workers \ {w} : Rests(v)
<1> DEFINE t == tracked[w]
<1>1. CASE \/ PublishAllocatedEvent(w) \/ SendOutOfStockNotification(w)
           \/ AddAllocationToReadModel(w) \/ RemoveAllocationFromReadModel(w)
  <2>1. pc[w] = "events" /\ queue[w] # <<>>
    BY <1>1 DEF PublishAllocatedEvent, SendOutOfStockNotification, AddAllocationToReadModel,
                RemoveAllocationFromReadModel, Handling
  <2>2. PICK last \in BOOLEAN :
            \/ /\ Commit(w, t) /\ Handled(w, SetModified(t, FALSE), last)
            \/ VersionIsOutdated(w, t, last) \/ StatementFails(w, t, last)
            \/ /\ Handled(w, t, last)
               /\ UNCHANGED <<dbVars, oldVersion, snapshot, stale>>
    BY <1>1 DEF PublishAllocatedEvent, SendOutOfStockNotification, AddAllocationToReadModel,
                RemoveAllocationFromReadModel, CommitFails
  <2>3. QED
    BY <2>1, <2>2, HandlerGuarded
<1>2. CASE Reallocate(w)
  BY <1>2, ReallocateGuarded
<1>3. CASE CommitReallocation(w)
  BY <1>3, CommitReallocationGuarded
<1>4. QED
  BY <1>1, <1>2, <1>3 DEF HandleEvent
-----------------------------------------------------------------------------
(* The theorems *)

\* A step changes the stock as the ledger does, or leaves it.
StockMoves ==
    \/ UNCHANGED <<products, batches>>
    \/ \E w \in Workers : \E sku \in Skus : \E r \in Refs : Writes(w, sku, r)

LEMMA StepGuarded ==
    ASSUME StockInvariant, LockingInvariant, OneSkuPerReference,
           NEW w \in Workers,
           \/ Step(w)
           \/ \E c \in Commands :
                  \/ w = Listener /\ OnRedisMessage(c)
                  \/ w \in HttpWorkers /\ HandleRequest(w, c)
    PROVE  LockingInvariant' /\ StockMoves /\ \A v \in Workers \ {w} : Rests(v)
<1>1. RegisteredByCommands /\ \A v \in Workers : Guarded(v)
  BY LockingIsByThread
<1>2. /\ Guarded(w)'
      /\ LeavesStock(w) \/ \E sku \in Skus : \E r \in Refs : Writes(w, sku, r)
      /\ \A v \in Workers \ {w} : Rests(v)
  <2>1. CASE LoadForAddBatch(w) \/ LoadForAllocate(w) \/ LoadForChangeBatchQuantity(w)
    BY <1>1, <2>1, LoadGuarded
  <2>2. ASSUME NEW status, Answered(w, status)
        PROVE  Guarded(w)' /\ LeavesStock(w) /\ \A v \in Workers \ {w} : Rests(v)
    BY <2>2, AnsweredGuarded
  <2>3. CASE \/ LoadFails(w) \/ RejectUnknownSku(w) \/ RejectUnknownReference(w)
             \/ ExecuteFails(w) \/ Finish(w)
    BY <2>2, <2>3 DEF LoadFails, RejectUnknownSku, RejectUnknownReference, ExecuteFails, Finish
  <2>4. CASE Execute(w)
    BY <1>1, <2>4, ExecuteGuarded
  <2>5. CASE HandleEvent(w)
    BY <1>1, <2>5, EventGuarded
  <2>6. CASE \E c \in Commands : \/ w = Listener /\ OnRedisMessage(c)
                                 \/ w \in HttpWorkers /\ HandleRequest(w, c)
    <3>1. PICK c \in Commands : \/ w = Listener /\ OnRedisMessage(c)
                                \/ w \in HttpWorkers /\ HandleRequest(w, c)
      BY <2>6
    <3>2. /\ Receive(w, c)
          /\ w \in HttpWorkers => c.type # "ChangeBatchQuantity"
          /\ w = Listener => c.type = "ChangeBatchQuantity"
      BY <3>1, ServiceAssumption DEF OnRedisMessage, HandleRequest
    <3>3. QED
      BY <1>1, <3>2, ReceiveGuarded
  <2>7. CASE Step(w)
    <3>1. \/ LoadForAddBatch(w) \/ LoadForAllocate(w) \/ LoadForChangeBatchQuantity(w)
          \/ LoadFails(w) \/ RejectUnknownSku(w) \/ RejectUnknownReference(w)
          \/ ExecuteFails(w) \/ Finish(w) \/ Execute(w) \/ HandleEvent(w)
      BY <2>7 DEF Step, HandleCommand
    <3>2. QED
      BY <2>1, <2>3, <2>4, <2>5, <3>1
  <2>8. QED
    BY <2>6, <2>7
<1>3. \A v \in Workers \ {w} : Guarded(v)'
  BY <1>1, <1>2, OthersStayGuarded
<1>4. RegisteredByCommands'
  BY <1>1, <1>2, RegistrationsStay
<1>5. LockingInvariant'
  BY <1>2, <1>3, <1>4
     DEF LockingInvariant, Guarded, Workers
<1>6. StockMoves
  BY <1>2 DEF StockMoves, LeavesStock
<1>7. QED
  BY <1>2, <1>5, <1>6
LEMMA NextGuarded ==
    ASSUME OneSkuPerReference
    PROVE  StockInvariant /\ LockingInvariant /\ [Next]_vars => LockingInvariant' /\ StockMoves
<1> SUFFICES ASSUME StockInvariant, LockingInvariant, [Next]_vars
             PROVE  LockingInvariant' /\ StockMoves
  OBVIOUS
<1>1. ASSUME NEW w \in Workers, Step(w)
      PROVE  LockingInvariant' /\ StockMoves
  BY <1>1, StepGuarded
<1>2. ASSUME NEW c \in Commands, OnRedisMessage(c)
      PROVE  LockingInvariant' /\ StockMoves
  <2>1. Listener \in Workers
    BY DEF Workers
  <2>2. QED
    BY <1>2, <2>1, StepGuarded
<1>3. ASSUME NEW c \in Commands, NEW w \in HttpWorkers, HandleRequest(w, c)
      PROVE  LockingInvariant' /\ StockMoves
  <2>1. w \in Workers
    BY DEF Workers
  <2>2. QED
    BY <1>3, <2>1, StepGuarded
<1>4. CASE Crash
  <2>1. /\ \A w \in Workers : pc'[w] = "idle" /\ queue'[w] = <<>>
        /\ UNCHANGED <<products, batches>>
    BY <1>4 DEF Crash, dbVars
  <2>2. \A w \in Workers : Guarded(w)'
    BY <2>1 DEF Guarded, ExecutesWhatItLoaded, ReallocatesNothing, ReallocatesUnderTheVersion
  <2>3. QED
    BY <2>1, <2>2 DEF LockingInvariant, RegisteredByCommands, Guarded, Workers, StockMoves
<1>5. CASE UNCHANGED vars
  <2>1. UNCHANGED <<products, batches, pc, command, queue, tracked, oldVersion, snapshot, stale>>
    BY <1>5 DEF vars, dbVars, busVars, uowVars
  <2>2. \A w \in Workers : Guarded(w)'
    BY <2>1 DEF Guarded, LockingInvariant, ExecutesWhatItLoaded, IsCurrent, ReallocatesNothing,
                ReallocatesUnderTheVersion, CanCommit, SqlError, VersionError, VersionMatches,
                Conflicts, PlacesOneLine, Written, Storable, Workers
  <2>3. QED
    BY <2>1, <2>2 DEF LockingInvariant, RegisteredByCommands, Guarded, Workers, StockMoves
<1>6. QED
  BY <1>1, <1>2, <1>3, <1>4, <1>5 DEF Next, NothingToDo

LEMMA InitGuarded == Init => LockingInvariant
<1> SUFFICES ASSUME Init PROVE LockingInvariant
  OBVIOUS
<1>1. /\ \A w \in Workers : pc[w] = "idle" /\ queue[w] = <<>>
      /\ \A r \in Refs : batches[r] = NoBatch
  BY DEF Init
<1>2. QED
  BY <1>1 DEF LockingInvariant, RegisteredByCommands, ExecutesWhatItLoaded, ReallocatesNothing,
              ReallocatesUnderTheVersion, Workers

\* Optimistic locking keeps every thread's object either current or unable to be committed: the
\* snapshot guards the objects of commands (PostgreSQL's conflict), the version those that the
\* listener's reallocations go on with (UPDATE ... WHERE version_number).
THEOREM LockingHolds ==
    ASSUME OneSkuPerReference
    PROVE  Spec => []LockingInvariant
<1>1. StockInvariant /\ LockingInvariant /\ [Next]_vars => LockingInvariant'
  BY NextGuarded
<1>2. QED
  BY <1>1, InitGuarded, StockStaysSound, PTL DEF Spec
\* Everything the threads commit is a step of the ledger on the batches as they are stored at
\* that moment: no lost update, although ProductMapper::Update rewrites whole batches.
THEOREM LedgerIsImplemented ==
    ASSUME OneSkuPerReference
    PROVE  Spec => ImplementsLedger
<1>1. Init => Ledger!Init
  BY DEF Init, Ledger!Init
<1>2. StockInvariant /\ StockInvariant' /\ StockMoves => [Ledger!Next]_batches
  <2> SUFFICES ASSUME StockInvariant, StockInvariant', StockMoves, batches' # batches
               PROVE  Ledger!Next
    OBVIOUS
  <2>1. PICK w \in Workers, sku \in Skus, r \in Refs : Writes(w, sku, r)
    BY DEF StockMoves
  <2>2. /\ batches \in [Refs -> Batch \cup {NoBatch}]
        /\ batches' \in [Refs -> Batch \cup {NoBatch}]
    BY DEF StockInvariant, TypeOK
  <2>3. /\ \A x \in Refs \ {r} : batches'[x] = batches[x]
        /\ Registers(sku, r) \/ Places(sku, r) \/ ChangesQuantity(sku, r)
    BY <2>1 DEF Writes
  <2>4. batches' = [batches EXCEPT ![r] = batches'[r]]
    BY <2>2, <2>3
  <2>5. CASE Registers(sku, r)
    <3>1. Ledger!Register(r)
      BY <2>4, <2>5 DEF Registers, Ledger!Register, Batch, Ledger!Batch
    <3>2. QED
      BY <3>1 DEF Ledger!Next
  <2>6. CASE Places(sku, r)
    <3>1. PICK l \in OrderLines :
              /\ l.sku = sku /\ l.quantity > 0
              /\ Total[batches[r].allocations \cup {l}] <= batches[r].purchased
              /\ batches'[r] = [batches[r] EXCEPT !.allocations = @ \cup {l}]
      BY <2>6 DEF Places
    <3>2. batches[r] # NoBatch /\ batches[r].sku = l.sku
      BY <2>6, <3>1 DEF Places
    <3>3. batches' = [batches EXCEPT ![r].allocations = @ \cup {l}]
      BY <2>2, <2>4, <3>1
    <3>4. Ledger!Place(l, r)
      BY <3>1, <3>2, <3>3 DEF Ledger!Place
    <3>5. QED
      BY <3>4 DEF Ledger!Next
  <2>7. CASE ChangesQuantity(sku, r)
    <3>1. PICK qty \in Quantities, kept \in SUBSET batches[r].allocations :
              /\ qty > 0 /\ Total[kept] <= qty
              /\ \/ kept = batches[r].allocations
                 \/ \E l \in batches[r].allocations \ kept : Total[kept \cup {l}] > qty
              /\ batches'[r] = [batches[r] EXCEPT !.purchased = qty, !.allocations = kept]
      BY <2>7 DEF ChangesQuantity
    <3>2. batches[r] # NoBatch
      BY <2>7 DEF ChangesQuantity
    <3>3. batches' = [batches EXCEPT ![r].purchased = qty, ![r].allocations = kept]
      BY <2>2, <2>4, <3>1
    <3>4. Ledger!ChangeQuantity(r, qty)
      BY <3>1, <3>2, <3>3 DEF Ledger!ChangeQuantity
    <3>5. QED
      BY <3>4 DEF Ledger!Next
  <2>8. QED
    BY <2>3, <2>5, <2>6, <2>7
<1>3. StockInvariant /\ LockingInvariant /\ [Next]_vars => StockMoves
  BY NextGuarded
<1>4. QED
  BY <1>1, <1>2, <1>3, StockStaysSound, LockingHolds, PTL DEF Spec, ImplementsLedger, Ledger!Spec

\* A line never enters a batch without the version of its product rising in the same commit,
\* whichever thread puts it there.
THEOREM PlacingAlwaysRaisesVersion ==
    ASSUME OneSkuPerReference
    PROVE  Spec => PlacingRaisesVersion
<1>1. StockInvariant /\ StockInvariant' /\ StockMoves =>
          [\A r \in Refs : \A l \in OrderLines :
               Holds(r, l)' /\ ~Holds(r, l) =>
                   /\ products[l.sku] # NoVersion
                   /\ products'[l.sku] > products[l.sku]]_<<products, batches>>
  <2> SUFFICES ASSUME StockInvariant, StockMoves, ~UNCHANGED <<products, batches>>,
                      NEW x \in Refs, NEW l \in OrderLines, Holds(x, l)', ~Holds(x, l)
               PROVE  products[l.sku] # NoVersion /\ products'[l.sku] > products[l.sku]
    OBVIOUS
  <2>1. PICK w \in Workers, sku \in Skus, r \in Refs : Writes(w, sku, r)
    BY DEF StockMoves
  <2>2. x = r
    BY <2>1 DEF Writes, Holds
  <2>3. ~Registers(sku, r)
    BY <2>2 DEF Registers, Holds
  <2>4. batches[r] # NoBatch => batches[r] \in Batch
    BY DEF StockInvariant, TypeOK
  <2>5. ~ChangesQuantity(sku, r)
    BY <2>2, <2>4 DEF ChangesQuantity, Holds, Batch
  <2>6. Places(sku, r)
    BY <2>1, <2>3, <2>5 DEF Writes
  <2>7. l.sku = sku
    BY <2>2, <2>4, <2>6 DEF Places, Holds, Batch
  <2>8. QED
    BY <2>6, <2>7 DEF Places
<1>2. StockInvariant /\ LockingInvariant /\ [Next]_vars => StockMoves
  BY NextGuarded
<1>3. QED
  BY <1>1, <1>2, StockStaysSound, LockingHolds, PTL DEF Spec, PlacingRaisesVersion

\* An object read from a snapshot in which nobody has written its product since is still what
\* is stored, so a command that commits decided on the stock as it is.
THEOREM UndisturbedStaysCurrent ==
    ASSUME OneSkuPerReference
    PROVE  Spec => []UndisturbedIsCurrent
<1>1. LockingInvariant => UndisturbedIsCurrent
  BY DEF LockingInvariant, ExecutesWhatItLoaded, UndisturbedIsCurrent
<1>2. QED
  BY <1>1, LockingHolds, PTL

\* The object the listener goes on with in later transactions holds the stored batches as long
\* as the version is the one it was loaded with.
THEOREM SameVersionStaysCurrent ==
    ASSUME OneSkuPerReference
    PROVE  Spec => []SameVersionIsCurrent
<1>1. LockingInvariant => SameVersionIsCurrent
  BY DEF LockingInvariant, ReallocatesUnderTheVersion, SameVersionIsCurrent
<1>2. QED
  BY <1>1, LockingHolds, PTL

\* A unit of work that failed to commit in an event handler never commits again, whatever the
\* other threads do: its retries by the next handlers cannot store what the bus logged as failed.
THEOREM StuckForGood ==
    ASSUME OneSkuPerReference
    PROVE  Spec => []FailedUnitOfWorkIsStuck
<1>1. LockingInvariant => FailedUnitOfWorkIsStuck
  BY DEF LockingInvariant, ReallocatesNothing, ReallocatesUnderTheVersion,
         FailedUnitOfWorkIsStuck, Workers
<1>2. QED
  BY <1>1, LockingHolds, PTL
\* What Allocate chooses depends on the batches only.
LEMMA SameChoice ==
    ASSUME NEW p, NEW q, NEW l, \A r \in Refs : p.batches[r] = q.batches[r]
    PROVE  Preferred(p, l) = Preferred(q, l)
<1>1. Candidates(p, l) = Candidates(q, l)
  BY DEF Candidates, Contains
<1>2. Candidates(p, l) \subseteq Refs
  BY DEF Candidates
<1>3. QED
  BY <1>1, <1>2 DEF Preferred

LEMMA ExecuteChoosesWell ==
    ASSUME StockInvariant, NEW w \in Workers, Guarded(w), Execute(w),
           command[w].type = "Allocate",
           NEW r \in Refs, Holds(r, command[w].line)', ~Holds(r, command[w].line)
    PROVE  r \in Preferred(Find(command[w].line.sku), command[w].line)
<1> DEFINE t == tracked[w]
<1>0. PICK l : l = command[w].line
  OBVIOUS
<1>1. pc[w] = "execute" /\ UNCHANGED command /\ \E p \in Outcomes(w) : Commit(w, p)
  BY DEF Execute
<1>2. PICK p \in Outcomes(w) : Commit(w, p)
  BY <1>1
<1>3. /\ t \in Aggregate /\ t.sku \in Skus /\ Sound(t)
      /\ ~t.modified /\ t.modifiedRefs = {} /\ command[w] \in Commands
      /\ products[t.sku] # NoVersion /\ p \in Aggregate
      /\ p.modified => IsCurrent(t)
  BY <1>1, <1>2, ExecuteFacts
<1>4. l \in OrderLines /\ p \in AllocateOutcomes(t, l)
  BY <1>0, <1>2, <1>3, CommandFields DEF Outcomes
<1>5. Holds(r, l)' /\ ~Holds(r, l)
  BY <1>0, <1>1 DEF Holds
<1> HIDE DEF t
<1>6. p.modified
  BY <1>2, <1>5, UnmodifiedCommit DEF LeavesStock, Holds
<1>7. r \in p.modifiedRefs
  BY <1>2, <1>3, <1>5, <1>6, CommitEffects DEF Holds
<1>8. /\ p.sku = t.sku
      /\ \/ /\ p.batches = t.batches /\ p.version = t.version
            /\ p.modified = t.modified /\ p.modifiedRefs = t.modifiedRefs
         \/ \E x \in Preferred(t, l) :
                /\ x \in Refs /\ Contains(t, x) /\ CanAllocate(t.batches[x], l)
                /\ p.batches = [t.batches EXCEPT ![x] = AllocateLine(t.batches[x], l)]
                /\ p.version = t.version + 1
                /\ p.modified /\ p.modifiedRefs = t.modifiedRefs \cup {x}
      /\ t.messages = <<>> => \A i \in DOMAIN p.messages : p.messages[i].type # "Deallocated"
  BY <1>3, <1>4, AllocateEffects
<1>9. r \in Preferred(t, l) /\ Contains(t, r) /\ CanAllocate(t.batches[r], l)
  BY <1>3, <1>7, <1>8
<1>10. l.sku = t.sku
  BY <1>3, <1>9 DEF Sound, CanAllocate
<1>11. /\ Find(l.sku).sku = l.sku /\ IsCurrent(Find(l.sku)) /\ IsCurrent(t)
  BY <1>3, <1>6, <1>10, FindIsCurrent
<1>12. \A x \in Refs : Find(l.sku).batches[x] = t.batches[x]
  BY <1>10, <1>11 DEF IsCurrent
<1>13. QED
  BY <1>0, <1>9, <1>12, SameChoice

\* The line of an /allocate command goes to the earliest batch that can take it among those stored
\* when it is committed: Product::Allocate sorted what the thread had read, and that was current.
THEOREM EarliestBatchGetsTheLine ==
    ASSUME OneSkuPerReference
    PROVE  Spec => CommitsToEarliestBatch
<1>1. StockInvariant /\ LockingInvariant /\ [Next]_vars =>
          [\A w \in HttpWorkers : \A r \in Refs :
              pc[w] = "execute" /\ command[w].type = "Allocate" /\ pc'[w] = "events" =>
                  LET l == command[w].line
                      p == Find(l.sku)
                  IN Holds(r, l)' /\ ~Holds(r, l) => r \in Preferred(p, l)]_vars
  <2> SUFFICES ASSUME StockInvariant, LockingInvariant, Next,
                      NEW w \in HttpWorkers, NEW r \in Refs,
                      pc[w] = "execute", command[w].type = "Allocate", pc'[w] = "events",
                      Holds(r, command[w].line)', ~Holds(r, command[w].line)
               PROVE  r \in Preferred(Find(command[w].line.sku), command[w].line)
    BY Zenon DEF Holds
  <2>1. w \in Workers /\ w # Listener /\ Guarded(w)
    BY ServiceAssumption DEF Workers, LockingInvariant, Guarded
  <2>2. Execute(w)
    <3>1. ASSUME NEW v \in Workers, v # w,
                 \/ Step(v)
                 \/ \E c \in Commands : \/ v = Listener /\ OnRedisMessage(c)
                                        \/ v \in HttpWorkers /\ HandleRequest(v, c)
          PROVE  FALSE
      <4>1. pc'[w] = pc[w]
        BY <2>1, <3>1, StepGuarded DEF Rests
      <4>2. QED
        BY <4>1
    <3>2. ASSUME Step(w)
          PROVE  Execute(w)
      <4>1. \A status : ~Answered(w, status)
        BY <2>1 DEF Answered, StockInvariant, TypeOK
      <4>2. \A p : ~Track(w, p)
        BY <2>1 DEF Track, StockInvariant, TypeOK
      <4>3. ~HandleEvent(w)
        BY DEF HandleEvent, PublishAllocatedEvent, SendOutOfStockNotification, Handling,
               AddAllocationToReadModel, RemoveAllocationFromReadModel, Reallocate,
               CommitReallocation
      <4>4. QED
        BY <3>2, <4>1, <4>2, <4>3
           DEF Step, HandleCommand, LoadForAddBatch, LoadForAllocate,
               LoadForChangeBatchQuantity, LoadFails, RejectUnknownSku, RejectUnknownReference,
               ExecuteFails, Finish
    <3>3. ASSUME NEW c \in Commands
          PROVE  ~HandleRequest(w, c)
      BY DEF HandleRequest, Receive
    <3>4. ~Crash
      BY <2>1 DEF Crash
    <3>5. ~NothingToDo
      BY <2>1 DEF NothingToDo
    <3>6. Listener \in Workers /\ \A v \in HttpWorkers : v \in Workers
      BY DEF Workers
    <3>7. QED
      BY <2>1, <3>1, <3>2, <3>3, <3>4, <3>5, <3>6 DEF Next
  <2>3. QED
    BY <2>1, <2>2, ExecuteChoosesWell
<1>2. QED
  BY <1>1, StockStaysSound, LockingHolds, PTL DEF Spec, CommitsToEarliestBatch
=============================================================================
