--------------------------- MODULE ObjectPathProofs ---------------------------
(* Proofs about ObjectPath for every value of its constants. *)
EXTENDS ObjectPath, TLAPS

(* Nothing is of a container that has not been created yet. *)
NothingIsAhead ==
    /\ \A s \in Slots : request[s] # None => request[s].generation <= generation
    /\ \A k \in Keys : cache[k] # None => cache[k].generation <= generation

(* A partition has one writer thread, which executes one task at a time. *)
WriterIsExclusive ==
    \A s, t \in Slots :
        /\ At(s, Executing) /\ At(t, Executing)
        /\ PartitionOf[request[s].key] = PartitionOf[request[t].key]
        => s = t

(* Until the writer is done with a task, its effect is what is stored. *)
EffectIsStored ==
    \A s \in Slots : At(s, {"stored", "cached"}) =>
        store[request[s].generation][request[s].key] = Effect(request[s])

(* CachedDataIsCurrent, where only a writer that executes a task of the     *)
(* container itself excuses an entry.                                      *)
CachedDataIsExcused ==
    container = "active" => \A k \in Keys :
        cache[k] # None /\ cache[k].data # Empty /\ cache[k].generation = generation
            => \/ store[generation][k] = cache[k].data
               \/ store[generation][k] \in OverLimit
               \/ \E s \in Slots : /\ At(s, {"stored"}) /\ request[s].key = k
                                   /\ request[s].generation = generation

(* A confirmed insertion has no write beside it. *)
AcknowledgedIsSettled ==
    \A k \in Keys : acknowledged[k] # None =>
        /\ container = "active"
        /\ store[generation][k] = acknowledged[k]
        /\ \A s \in Slots : ~ Writing(s, k)

PathInv ==
    /\ TypeOK
    /\ NothingIsAhead
    /\ WriterIsExclusive
    /\ EffectIsStored
    /\ CachedDataIsExcused
    /\ AcknowledgedIsSettled

-------------------------------------------------------------------------------
(* A request in a slot, and the fields that its way through the path keeps. *)
LEMMA RequestType ==
    ASSUME TypeOK, NEW s \in Slots, request[s] # None
    PROVE  /\ request[s] \in Requests
           /\ request[s].key \in Keys
           /\ request[s].data \in Data
           /\ request[s].generation \in Generations
           /\ request[s].optype # "get" => Effect(request[s]) \in Values \cup {None}
           /\ At(s, {"lookup", "reading", "fill"}) => request[s] \in Gets
           /\ At(s, WriteCounters) => request[s] \in Inserts \cup Removes
           /\ [data |-> request[s].data, generation |-> request[s].generation] \in Cacheable
<1>1. request[s] \in Requests
    BY DEF TypeOK
<1> QED
    BY <1>1 DEF Requests, Gets, Inserts, Removes, WriteCounters, Data, Effect, Cacheable, At

(* A request that goes on is the same request at another program counter. *)
LEMMA GotoKeeps ==
    ASSUME TypeOK, NEW s \in Slots, request[s] # None, NEW c, Goto(s, c),
           \/ request[s] \in Gets /\ c \in {"reading", "fill"}
           \/ request[s] \in Inserts \cup Removes /\ c \in WriteCounters
    PROVE  /\ request' \in [Slots -> Requests \cup {None}]
           /\ \A t \in Slots \ {s} : request'[t] = request[t]
           /\ request'[s] # None
           /\ request'[s].pc = c
           /\ request'[s].optype = request[s].optype
           /\ request'[s].key = request[s].key
           /\ request'[s].data = request[s].data
           /\ request'[s].generation = request[s].generation
<1>1. request \in [Slots -> Requests \cup {None}]
    BY DEF TypeOK
<1>2. request' = [request EXCEPT ![s] = [request[s] EXCEPT !.pc = c]]
    BY DEF Goto
<1>3. [request[s] EXCEPT !.pc = c] \in Requests
  <2>1. CASE request[s] \in Gets /\ c \in {"reading", "fill"}
      BY <2>1 DEF Gets, Requests
  <2>2. CASE request[s] \in Inserts /\ c \in WriteCounters
      BY <2>2 DEF Inserts, Requests
  <2>3. CASE request[s] \in Removes /\ c \in WriteCounters
      BY <2>3 DEF Removes, Requests
  <2> QED
      BY <2>1, <2>2, <2>3
<1>4. /\ [request[s] EXCEPT !.pc = c].pc = c
      /\ [request[s] EXCEPT !.pc = c].optype = request[s].optype
      /\ [request[s] EXCEPT !.pc = c].key = request[s].key
      /\ [request[s] EXCEPT !.pc = c].data = request[s].data
      /\ [request[s] EXCEPT !.pc = c].generation = request[s].generation
  <2>1. request[s] \in Requests
      BY <1>1
  <2> QED
      BY <2>1 DEF Requests, Gets, Inserts, Removes
<1>5. request'[s] = [request[s] EXCEPT !.pc = c] /\ \A t \in Slots \ {s} : request'[t] = request[t]
    BY <1>1, <1>2
<1> QED
    BY <1>1, <1>2, <1>3, <1>4, <1>5, DataAssumption

(* The slot of a request that ends is free. *)
LEMMA FinishFrees ==
    ASSUME TypeOK, NEW s \in Slots, Finish(s)
    PROVE  /\ request' \in [Slots -> Requests \cup {None}]
           /\ \A t \in Slots \ {s} : request'[t] = request[t]
           /\ request'[s] = None
BY DEF TypeOK, Finish

(* What the cache holds after a request has put its data. *)
LEMMA PutKeepsType ==
    ASSUME TypeOK, NEW s \in Slots, request[s] # None, PutIntoCache(request[s])
    PROVE  cache' \in [Keys -> Cacheable \cup {None}]
BY RequestType DEF TypeOK, PutIntoCache, Shard!Put
-------------------------------------------------------------------------------
(* The steps of a slot, one disjunct per action. *)
SlotStep(s) ==
    \/ \E k \in Keys : BeginGet(s, k)
    \/ \E k \in Keys, optype \in {"insert", "remove"}, d \in Data : BeginWrite(s, optype, k, d)
    \/ LookUpCache(s) \/ ReadObject(s) \/ FillCache(s)
    \/ ExecuteWrite(s) \/ CacheWrite(s) \/ AnswerWrite(s)

(* The steps of the container, the shard and the process. *)
OtherStep ==
    \/ \E k \in Keys : EvictOldest(k)
    \/ MarkAsDeleted \/ DropContainer \/ CreateContainer
    \/ Restart

(* Every step is one or the other. *)
LEMMA StepCases == Next => OtherStep \/ \E s \in Slots : SlotStep(s)
BY DEF Next, OtherStep, SlotStep, BeginRequest, InsertObject, RemoveObject, Data, ReaderStep, WriterStep

(* The initial values have the types of their variables. *)
LEMMA TypeInit == Init => TypeOK
BY BoundsAssumption DEF Init, TypeOK, Generations, NothingCached, NoRequests

(* A failure of the engine stays within its bound. *)
LEMMA FailureType == TypeOK /\ EngineFails => failures' \in 0 .. MaxFailures /\ crashes' = crashes
BY BoundsAssumption DEF TypeOK, EngineFails

(* A new request is a request. *)
LEMMA BeginType ==
    ASSUME TypeOK, NEW s \in Slots, NEW k \in Keys
    PROVE  /\ BeginGet(s, k) =>
                /\ request' \in [Slots -> Requests \cup {None}]
                /\ \A t \in Slots \ {s} : request'[t] = request[t]
                /\ request'[s] \in Gets
                /\ request'[s].generation = generation
           /\ \A optype \in {"insert", "remove"}, d \in Data : BeginWrite(s, optype, k, d) =>
                /\ request' \in [Slots -> Requests \cup {None}]
                /\ \A t \in Slots \ {s} : request'[t] = request[t]
                /\ request'[s] \in Inserts \cup Removes
                /\ request'[s].pc = "queued"
                /\ request'[s].key = k
                /\ request'[s].generation = generation
<1>1. generation \in Generations /\ request \in [Slots -> Requests \cup {None}]
    BY DEF TypeOK
<1>2. ASSUME BeginGet(s, k)
      PROVE  /\ request' \in [Slots -> Requests \cup {None}]
             /\ \A t \in Slots \ {s} : request'[t] = request[t]
             /\ request'[s] \in Gets
             /\ request'[s].generation = generation
  <2> DEFINE r == [pc |-> "lookup", optype |-> "get", key |-> k, data |-> Empty,
                   generation |-> generation]
  <2>1. r \in Gets /\ r \in Requests /\ r.generation = generation
      BY <1>1 DEF Gets, Requests
  <2>2. request' = [request EXCEPT ![s] = r]
      BY <1>2 DEF BeginGet
  <2> HIDE DEF r
  <2> QED
      BY <1>1, <2>1, <2>2
<1>3. ASSUME NEW optype \in {"insert", "remove"}, NEW d \in Data, BeginWrite(s, optype, k, d)
      PROVE  /\ request' \in [Slots -> Requests \cup {None}]
             /\ \A t \in Slots \ {s} : request'[t] = request[t]
             /\ request'[s] \in Inserts \cup Removes
             /\ request'[s].pc = "queued"
             /\ request'[s].key = k
             /\ request'[s].generation = generation
  <2> DEFINE r == [pc |-> "queued", optype |-> optype, key |-> k, data |-> d,
                   generation |-> generation]
  <2>0. optype = "insert" <=> d \in Values
      BY <1>3 DEF BeginWrite
  <2>1. /\ r \in Inserts \cup Removes /\ r \in Requests
        /\ r.pc = "queued" /\ r.key = k /\ r.generation = generation
      BY <1>1, <2>0 DEF Inserts, Removes, Requests, WriteCounters, Data
  <2>2. request' = [request EXCEPT ![s] = r]
      BY <1>3 DEF BeginWrite
  <2> HIDE DEF r
  <2> QED
      BY <1>1, <2>1, <2>2
<1> QED
    BY <1>2, <1>3

(* Every step of a slot keeps the types. *)
LEMMA TypeSlot == ASSUME TypeOK, NEW s \in Slots, SlotStep(s) PROVE TypeOK'
<1> USE DEF bounds
<1>1. ASSUME NEW k \in Keys, BeginGet(s, k) PROVE TypeOK'
    BY <1>1, BeginType DEF TypeOK, BeginGet
<1>2. ASSUME NEW k \in Keys, NEW optype \in {"insert", "remove"}, NEW d \in Data,
             BeginWrite(s, optype, k, d)
      PROVE TypeOK'
  <2>1. request' \in [Slots -> Requests \cup {None}]
      BY <1>2, BeginType
  <2> QED
      BY <1>2, <2>1 DEF TypeOK, BeginWrite
<1>3. ASSUME LookUpCache(s) PROVE TypeOK'
  <2>1. request[s] # None /\ request[s] \in Gets
      BY <1>3, RequestType DEF LookUpCache, At
  <2>2. request' \in [Slots -> Requests \cup {None}]
      BY <1>3, <2>1, GotoKeeps, FinishFrees DEF LookUpCache
  <2> QED
      BY <1>3, <2>2 DEF TypeOK, LookUpCache
<1>4. ASSUME ReadObject(s) PROVE TypeOK'
  <2>1. request[s] # None /\ request[s] \in Gets
      BY <1>4, RequestType DEF ReadObject, At
  <2>2. request' \in [Slots -> Requests \cup {None}]
      BY <1>4, <2>1, GotoKeeps, FinishFrees DEF ReadObject
  <2>3. failures' \in 0 .. MaxFailures /\ crashes' = crashes
      BY <1>4, FailureType DEF ReadObject, TypeOK
  <2> QED
      BY <1>4, <2>2, <2>3 DEF TypeOK, ReadObject
<1>5. ASSUME FillCache(s) PROVE TypeOK'
  <2>1. cache' \in [Keys -> Cacheable \cup {None}]
      BY <1>5, PutKeepsType DEF FillCache, At
  <2>2. request' \in [Slots -> Requests \cup {None}]
      BY <1>5, FinishFrees DEF FillCache
  <2> QED
      BY <1>5, <2>1, <2>2 DEF TypeOK, FillCache
<1>6. ASSUME ExecuteWrite(s) PROVE TypeOK'
  <2>1. request[s] # None /\ request[s] \in Inserts \cup Removes
      BY <1>6, RequestType DEF ExecuteWrite, At, WriteCounters
  <2>2. request' \in [Slots -> Requests \cup {None}]
      BY <1>6, <2>1, GotoKeeps DEF ExecuteWrite, WriteCounters
  <2>3. failures' \in 0 .. MaxFailures /\ crashes' = crashes
      BY <1>6, FailureType DEF ExecuteWrite, TypeOK
  <2>4. Effect(request[s]) \in Values \cup {None}
      BY <2>1, RequestType DEF Inserts, Removes, Effect
  <2>5. store' \in [Generations -> [Keys -> Values \cup {None}]]
      BY <1>6, <2>1, <2>4, RequestType DEF ExecuteWrite, TypeOK
  <2> QED
      BY <1>6, <2>2, <2>3, <2>5 DEF TypeOK, ExecuteWrite
<1>7. ASSUME CacheWrite(s) PROVE TypeOK'
  <2>1. request[s] # None /\ request[s] \in Inserts \cup Removes
      BY <1>7, RequestType DEF CacheWrite, At, WriteCounters
  <2>2. request' \in [Slots -> Requests \cup {None}]
      BY <1>7, <2>1, GotoKeeps DEF CacheWrite, WriteCounters
  <2>3. cache' \in [Keys -> Cacheable \cup {None}]
      BY <1>7, <2>1, PutKeepsType DEF CacheWrite
  <2> QED
      BY <1>7, <2>2, <2>3 DEF TypeOK, CacheWrite
<1>8. ASSUME AnswerWrite(s) PROVE TypeOK'
  <2>1. request' \in [Slots -> Requests \cup {None}]
      BY <1>8, FinishFrees DEF AnswerWrite
  <2>2. request[s] # None /\ request[s] \in Inserts \cup Removes
      BY <1>8, RequestType DEF AnswerWrite, At, WriteCounters
  <2>3. acknowledged' \in [Keys -> Values \cup {None}]
      BY <1>8, <2>2 DEF TypeOK, AnswerWrite, Acknowledges, Inserts, Removes
  <2> QED
      BY <1>8, <2>1, <2>3 DEF TypeOK, AnswerWrite
<1> QED
    BY <1>1, <1>2, <1>3, <1>4, <1>5, <1>6, <1>7, <1>8, SlotStep(s) DEF SlotStep

(* So does everything that happens around the requests. *)
LEMMA TypeOther == TypeOK /\ OtherStep => TypeOK'
<1> SUFFICES ASSUME TypeOK, OtherStep PROVE TypeOK'
    OBVIOUS
<1> USE BoundsAssumption DEF bounds, TypeOK
<1>1. ASSUME NEW k \in Keys, EvictOldest(k) PROVE TypeOK'
    BY <1>1 DEF EvictOldest, Shard!Evict
<1>2. ASSUME MarkAsDeleted PROVE TypeOK'
    BY <1>2 DEF MarkAsDeleted, Becomes, Name!Remove
<1>3. ASSUME DropContainer PROVE TypeOK'
    BY <1>3 DEF DropContainer, Becomes, Name!Collect
<1>4. ASSUME CreateContainer PROVE TypeOK'
    BY <1>4 DEF CreateContainer, Becomes, Name!Create, Generations
<1>5. ASSUME Restart PROVE TypeOK'
    BY <1>5 DEF Restart, Becomes, Name!Abandon, NothingCached, NoRequests
<1> QED
    BY <1>1, <1>2, <1>3, <1>4, <1>5 DEF OtherStep

(* Every variable of ObjectPath keeps its type. *)
THEOREM TypeCorrect == Spec => []TypeOK
<1>1. TypeOK /\ [Next]_vars => TypeOK'
  <2>1. TypeOK /\ UNCHANGED vars => TypeOK'
      BY DEF TypeOK, vars, bounds
  <2> QED
      BY <2>1, StepCases, TypeSlot, TypeOther
<1> QED
    BY <1>1, TypeInit, PTL DEF Spec
-------------------------------------------------------------------------------
(* A step of a slot that writes neither to the engine nor to the cache and  *)
(* confirms nothing.                                                       *)
LEMMA InvQuiet ==
    ASSUME PathInv, TypeOK', NEW s \in Slots,
           UNCHANGED <<container, generation, store, cache>>,
           \A t \in Slots \ {s} : request'[t] = request[t],
           ~ At(s, Executing),
           request'[s] # None => /\ request'[s].generation <= generation
                                 /\ request'[s].pc \notin Executing,
           \A k \in Keys : \/ acknowledged'[k] = None
                           \/ acknowledged'[k] = acknowledged[k] /\ ~ Writing(s, k)'
    PROVE  PathInv'
<1>0. \A t \in Slots \ {s} : /\ \A c : At(t, c)' <=> At(t, c)
                             /\ \A k : Writing(t, k)' <=> Writing(t, k)
    BY DEF At, Writing
<1>1. ~ At(s, Executing)' /\ ~ At(s, {"stored", "cached"})' /\ ~ At(s, {"stored"})
    BY DEF At, Executing
<1>2. NothingIsAhead'
    BY DEF PathInv, NothingIsAhead
<1>3. WriterIsExclusive'
    BY <1>0, <1>1 DEF PathInv, WriterIsExclusive
<1>4. EffectIsStored'
    BY <1>0, <1>1 DEF PathInv, EffectIsStored
<1>5. CachedDataIsExcused'
    BY <1>0, <1>1 DEF PathInv, CachedDataIsExcused
<1>6. AcknowledgedIsSettled'
    BY <1>0 DEF PathInv, AcknowledgedIsSettled
<1> QED
    BY <1>2, <1>3, <1>4, <1>5, <1>6 DEF PathInv

(* The HTTP threads and the read pool up to the answer. *)
LEMMA InvReaders ==
    ASSUME PathInv, NEW s \in Slots, TypeOK',
           \/ \E k \in Keys : BeginGet(s, k)
           \/ \E k \in Keys, optype \in {"insert", "remove"}, d \in Data : BeginWrite(s, optype, k, d)
           \/ LookUpCache(s) \/ ReadObject(s)
    PROVE  PathInv'
<1> USE DEF bounds
<1>t. TypeOK /\ NothingIsAhead /\ generation \in Int
    BY DEF PathInv, TypeOK, Generations
<1>1. ASSUME NEW k \in Keys, BeginGet(s, k) PROVE PathInv'
  <2>1. /\ \A t \in Slots \ {s} : request'[t] = request[t]
        /\ request'[s].generation <= generation
        /\ request'[s].pc \notin WriteCounters
      BY <1>1, <1>t, BeginType DEF Gets, WriteCounters
  <2>2. ~ At(s, Executing)
      BY <1>1 DEF BeginGet, At
  <2>3. \A x \in Keys : ~ Writing(s, x)'
      BY <2>1 DEF Writing, At
  <2> QED
      BY <1>1, <2>1, <2>2, <2>3, InvQuiet DEF BeginGet, WriteCounters, Executing
<1>2. ASSUME NEW k \in Keys, NEW optype \in {"insert", "remove"}, NEW d \in Data,
             BeginWrite(s, optype, k, d)
      PROVE PathInv'
  <2>1. /\ \A t \in Slots \ {s} : request'[t] = request[t]
        /\ request'[s].generation <= generation
        /\ request'[s].pc \notin Executing
        /\ request'[s].key = k
      BY <1>2, <1>t, BeginType DEF Executing
  <2>2. ~ At(s, Executing)
      BY <1>2 DEF BeginWrite, At
  <2>3. \A x \in Keys : \/ acknowledged'[x] = None
                        \/ acknowledged'[x] = acknowledged[x] /\ ~ Writing(s, x)'
      BY <1>2, <1>t, <2>1 DEF BeginWrite, Writing, TypeOK
  <2> QED
      BY <1>2, <2>1, <2>2, <2>3, InvQuiet DEF BeginWrite
<1>3. ASSUME LookUpCache(s) \/ ReadObject(s) PROVE PathInv'
  <2>1. request[s] # None /\ request[s] \in Gets
      BY <1>3, <1>t, RequestType DEF LookUpCache, ReadObject, At
  <2>2. \/ Finish(s)
        \/ \E c \in {"reading", "fill"} : Goto(s, c)
      BY <1>3 DEF LookUpCache, ReadObject
  <2>3. /\ \A t \in Slots \ {s} : request'[t] = request[t]
        /\ request'[s] # None => /\ request'[s].generation <= generation
                                 /\ request'[s].pc \in {"reading", "fill"}
      BY <2>1, <2>2, <1>t, GotoKeeps, FinishFrees DEF NothingIsAhead
  <2>4. ~ At(s, Executing)
      BY <2>1 DEF At, Gets, Executing
  <2>5. \A x \in Keys : ~ Writing(s, x)'
      BY <2>3 DEF Writing, At, WriteCounters
  <2> QED
      BY <1>3, <2>3, <2>4, <2>5, InvQuiet DEF LookUpCache, ReadObject, Executing
<1> QED
    BY <1>1, <1>2, <1>3

(* The fill after a get: an entry without data. *)
LEMMA InvFill == ASSUME PathInv, NEW s \in Slots, TypeOK', FillCache(s) PROVE PathInv'
<1>t. TypeOK /\ generation \in Int
    BY DEF PathInv, TypeOK, Generations
<1>1. request[s] # None /\ request[s] \in Gets /\ ~ At(s, Executing)
    BY <1>t, RequestType DEF FillCache, At, Executing
<1>2. /\ \A t \in Slots \ {s} : request'[t] = request[t]
      /\ request'[s] = None
    BY <1>t, FinishFrees DEF FillCache
<1>3. /\ UNCHANGED <<container, generation, store, acknowledged>>
      /\ PutIntoCache(request[s])
    BY DEF FillCache
<1>4. \A k \in Keys : \/ cache'[k] = cache[k]
                      \/ /\ cache'[k] # None
                         /\ cache'[k].data = Empty
                         /\ cache'[k].generation <= generation
  <2>1. request[s].data = Empty /\ request[s].generation <= generation
      BY <1>1 DEF Gets, PathInv, NothingIsAhead
  <2>2. request[s].key \in Keys
      BY <1>1 DEF Gets
  <2> QED
      BY <1>1, <1>3, <2>1, <2>2, <1>t, DataAssumption, RequestType DEF PutIntoCache, Shard!Put, TypeOK
<1>5. \A t \in Slots : /\ \A c : At(t, c)' => At(t, c) /\ request'[t] = request[t]
                       /\ \A k : Writing(t, k)' => Writing(t, k)
    BY <1>2 DEF At, Writing
<1>6. \A t \in Slots : At(t, {"stored"}) => At(t, {"stored"})' /\ request'[t] = request[t]
    BY <1>1, <1>2 DEF At, Executing
<1>7. NothingIsAhead'
    BY <1>2, <1>3, <1>4 DEF PathInv, NothingIsAhead
<1>8. WriterIsExclusive'
    BY <1>5 DEF PathInv, WriterIsExclusive
<1>9. EffectIsStored'
    BY <1>3, <1>5 DEF PathInv, EffectIsStored
<1>10. CachedDataIsExcused'
    BY <1>3, <1>4, <1>6 DEF PathInv, CachedDataIsExcused
<1>11. AcknowledgedIsSettled'
    BY <1>3, <1>5 DEF PathInv, AcknowledgedIsSettled
<1> QED
    BY <1>7, <1>8, <1>9, <1>10, <1>11 DEF PathInv
(* The writer thread changes the engine: only one task of a partition is    *)
(* executed, so that no other effect on the key is pending.                *)
LEMMA InvExecute == ASSUME PathInv, NEW s \in Slots, TypeOK', ExecuteWrite(s) PROVE PathInv'
<1> DEFINE r == request[s]
<1>t. /\ TypeOK /\ generation \in Int
      /\ request[s] # None /\ r.key \in Keys /\ r.generation \in Generations
      /\ r \in Inserts \cup Removes
  <2>1. TypeOK /\ request[s] # None /\ At(s, WriteCounters)
      BY DEF PathInv, ExecuteWrite, At, WriteCounters
  <2>2. generation \in Int
      BY <2>1 DEF TypeOK, Generations
  <2> QED
      BY <2>1, <2>2, RequestType
<1>1. PICK c \in {"stored", "failed"} : Goto(s, c)
  <2>1. Goto(s, "stored") \/ Goto(s, "failed")
      BY DEF ExecuteWrite
  <2> QED
      BY <2>1
<1>2. /\ \A t \in Slots \ {s} : request'[t] = request[t]
      /\ request'[s] # None /\ request'[s].pc = c
      /\ request'[s].key = r.key /\ request'[s].generation = r.generation
      /\ request'[s].optype = r.optype /\ request'[s].data = r.data
    BY <1>1, <1>t, GotoKeeps DEF WriteCounters
<1>3. UNCHANGED <<container, generation, cache, acknowledged>>
    BY DEF ExecuteWrite
<1>4. \A t \in Slots \ {s} :
        At(t, Executing) => PartitionOf[request[t].key] # PartitionOf[r.key]
    BY DEF ExecuteWrite, Busy
<1>5. \/ /\ r.generation = generation
         /\ store' = [store EXCEPT ![r.generation][r.key] = Effect(r)]
         /\ request'[s].pc = "stored"
      \/ UNCHANGED store /\ request'[s].pc = "failed"
  <2>1. r.generation <= generation
      BY <1>t DEF PathInv, NothingIsAhead
  <2>2. r.pc = "queued" /\ r \in Requests
      BY <1>t DEF ExecuteWrite, At, Requests
  <2>3. ~ Dropped(r.generation) => r.generation = generation
      BY <1>t, <2>1 DEF Dropped, Generations
  <2>4. \A d \in {"stored", "failed"} : Goto(s, d) => request'[s].pc = d
      BY <1>t, GotoKeeps DEF WriteCounters
  <2> QED
      BY <2>3, <2>4 DEF ExecuteWrite
<1>6. /\ \A g \in Generations, k \in Keys :
            store'[g][k] = store[g][k] \/ (g = generation /\ k = r.key)
      /\ request'[s].pc = "stored" => store'[r.generation][r.key] = Effect(r)
    BY <1>5, <1>t DEF TypeOK
<1>7. \A t \in Slots \ {s} : /\ \A x : At(t, x)' <=> At(t, x)
                             /\ \A k : Writing(t, k)' <=> Writing(t, k)
    BY <1>2 DEF At, Writing
<1>8. NothingIsAhead'
    BY <1>2, <1>3, <1>t DEF PathInv, NothingIsAhead
<1>9. WriterIsExclusive'
    BY <1>2, <1>4, <1>7 DEF PathInv, WriterIsExclusive
<1>10. EffectIsStored'
  <2>1. ASSUME NEW t \in Slots, At(t, {"stored", "cached"})'
        PROVE  store'[request'[t].generation][request'[t].key] = Effect(request'[t])
    <3>1. CASE t = s
        BY <3>1, <2>1, <1>2, <1>6, <1>1 DEF Effect, At
    <3>2. CASE t # s
      <4>1. At(t, {"stored", "cached"}) /\ request'[t] = request[t] /\ request[t] # None
          BY <3>2, <2>1, <1>2, <1>7 DEF At
      <4>2. request[t].key # r.key
          BY <4>1, <3>2, <1>4 DEF At, Executing
      <4>3. request[t].key \in Keys /\ request[t].generation \in Generations
          BY <4>1, <1>t, RequestType
      <4>4. store[request[t].generation][request[t].key] = Effect(request[t])
          BY <4>1 DEF PathInv, EffectIsStored
      <4> QED
          BY <4>1, <4>2, <4>3, <4>4, <1>6
    <3> QED
        BY <3>1, <3>2
  <2> QED
      BY <2>1 DEF EffectIsStored
<1>11. CachedDataIsExcused'
  <2> SUFFICES ASSUME container = "active", NEW k \in Keys, cache[k] # None,
                      cache[k].data # Empty, cache[k].generation = generation
               PROVE  \/ store'[generation][k] = cache[k].data
                      \/ store'[generation][k] \in OverLimit
                      \/ \E t \in Slots : /\ At(t, {"stored"})' /\ request'[t].key = k
                                          /\ request'[t].generation = generation
      BY <1>3 DEF CachedDataIsExcused
  <2>1. CASE k = r.key /\ request'[s].pc = "stored"
      BY <2>1, <1>2, <1>5 DEF At
  <2>2. CASE k # r.key \/ request'[s].pc # "stored"
    <3>1. store'[generation][k] = store[generation][k]
        BY <2>2, <1>5, <1>6, <1>t DEF TypeOK
    <3>2. \A t \in Slots : At(t, {"stored"}) => t # s
        BY DEF ExecuteWrite, At
    <3> QED
        BY <3>1, <3>2, <1>2, <1>7 DEF PathInv, CachedDataIsExcused
  <2> QED
      BY <2>1, <2>2
<1>12. AcknowledgedIsSettled'
  <2>1. \A k : Writing(s, k)' <=> Writing(s, k)
      BY <1>2, <1>1, <1>t DEF Writing, At, WriteCounters, Inserts, Removes
  <2>2. \A k \in Keys : acknowledged[k] # None => k # r.key
    <3>1. Writing(s, r.key)
        BY <1>t DEF Writing, At, ExecuteWrite, WriteCounters
    <3> QED
        BY <3>1 DEF PathInv, AcknowledgedIsSettled
  <2>3. generation \in Generations
      BY <1>t DEF TypeOK
  <2> QED
      BY <2>1, <2>2, <2>3, <1>3, <1>6, <1>7 DEF PathInv, AcknowledgedIsSettled
<1> QED
    BY <1>8, <1>9, <1>10, <1>11, <1>12 DEF PathInv

(* The writer thread puts into the cache what it stored. *)
LEMMA InvCache == ASSUME PathInv, NEW s \in Slots, TypeOK', CacheWrite(s) PROVE PathInv'
<1> DEFINE r == request[s]
<1>t. /\ TypeOK /\ generation \in Int
      /\ request[s] # None /\ r.key \in Keys /\ r.generation \in Generations
      /\ r \in Inserts \cup Removes
  <2>1. TypeOK /\ request[s] # None /\ At(s, WriteCounters)
      BY DEF PathInv, CacheWrite, At, WriteCounters
  <2>2. generation \in Int
      BY <2>1 DEF TypeOK, Generations
  <2> QED
      BY <2>1, <2>2, RequestType
<1>1. /\ \A t \in Slots \ {s} : request'[t] = request[t]
      /\ request'[s] # None /\ request'[s].pc = "cached" /\ r.pc = "stored"
      /\ request'[s].key = r.key /\ request'[s].generation = r.generation
      /\ request'[s].optype = r.optype /\ request'[s].data = r.data
  <2>1. Goto(s, "cached") /\ "cached" \in WriteCounters /\ r.pc = "stored"
      BY DEF CacheWrite, WriteCounters, At
  <2> QED
      BY <2>1, <1>t, GotoKeeps
<1>2. UNCHANGED <<container, generation, store, acknowledged>> /\ PutIntoCache(r)
    BY DEF CacheWrite
<1>3. store[r.generation][r.key] = Effect(r) /\ r.generation <= generation
    BY <1>1, <1>t DEF PathInv, EffectIsStored, NothingIsAhead, At
<1>4. \A t \in Slots \ {s} : /\ \A x : At(t, x)' <=> At(t, x)
                             /\ \A k : Writing(t, k)' <=> Writing(t, k)
    BY <1>1 DEF At, Writing
<1>5. \/ UNCHANGED cache /\ (container = "active" => r.data \in OverLimit)
      \/ /\ \A k \in Keys \ {r.key} : cache'[k] = cache[k]
         /\ cache'[r.key] = [data |-> r.data, generation |-> r.generation]
    BY <1>2, <1>t DEF PutIntoCache, Shard!Put, TypeOK
<1>6. NothingIsAhead'
    BY <1>1, <1>2, <1>3, <1>5 DEF PathInv, NothingIsAhead
<1>7. WriterIsExclusive'
    BY <1>1, <1>4, <1>t DEF PathInv, WriterIsExclusive, At, Executing
<1>8. EffectIsStored'
    BY <1>1, <1>2, <1>3, <1>4 DEF PathInv, EffectIsStored, Effect
<1>9. CachedDataIsExcused'
  <2> SUFFICES ASSUME container = "active", NEW k \in Keys, cache'[k] # None,
                      cache'[k].data # Empty, cache'[k].generation = generation
               PROVE  \/ store[generation][k] = cache'[k].data
                      \/ store[generation][k] \in OverLimit
                      \/ \E t \in Slots : /\ At(t, {"stored"})' /\ request'[t].key = k
                                          /\ request'[t].generation = generation
      BY <1>2 DEF CachedDataIsExcused
  <2>1. CASE cache'[k] = cache[k] /\ (k # r.key \/ r.data \in OverLimit)
    <3>1. CASE \E t \in Slots : /\ At(t, {"stored"}) /\ request[t].key = k
                                /\ request[t].generation = generation
      <4>1. PICK t \in Slots : /\ At(t, {"stored"}) /\ request[t].key = k
                               /\ request[t].generation = generation
          BY <3>1
      <4>2. CASE t = s
        <5>1. r.data \in OverLimit /\ r.generation = generation /\ k = r.key
            BY <4>1, <4>2, <2>1
        <5>2. r.optype = "insert"
            BY <5>1, <1>t, DataAssumption DEF Removes, Inserts
        <5> QED
            BY <5>1, <5>2, <1>3 DEF Effect
      <4>3. CASE t # s
          BY <4>1, <4>3, <1>1, <1>4
      <4> QED
          BY <4>2, <4>3
    <3> QED
        BY <3>1, <2>1 DEF PathInv, CachedDataIsExcused
  <2>2. CASE k = r.key /\ cache'[k] = [data |-> r.data, generation |-> r.generation]
    <3>1. r.data # Empty /\ r.generation = generation
        BY <2>2
    <3>2. r.optype = "insert"
        BY <3>1, <1>t DEF Inserts, Removes
    <3> QED
        BY <2>2, <3>1, <3>2, <1>3 DEF Effect
  <2> QED
      BY <2>1, <2>2, <1>5
<1>10. AcknowledgedIsSettled'
  <2>1. \A k : Writing(s, k)' <=> Writing(s, k)
      BY <1>1, <1>t DEF Writing, At, WriteCounters
  <2> QED
      BY <2>1, <1>2, <1>4 DEF PathInv, AcknowledgedIsSettled
<1> QED
    BY <1>6, <1>7, <1>8, <1>9, <1>10 DEF PathInv

(* The answer confirms an insertion that is alone on its key. *)
LEMMA InvAnswer == ASSUME PathInv, NEW s \in Slots, TypeOK', AnswerWrite(s) PROVE PathInv'
<1> DEFINE r == request[s]
<1>t. TypeOK /\ request[s] # None /\ r.key \in Keys
    BY RequestType DEF PathInv, AnswerWrite, At
<1>1. /\ \A t \in Slots \ {s} : request'[t] = request[t]
      /\ request'[s] = None
      /\ r.pc \in {"cached", "failed"}
      /\ UNCHANGED <<container, generation, store, cache>>
    BY <1>t, FinishFrees DEF AnswerWrite, At
<1>2. \A t \in Slots : /\ \A x : At(t, x)' <=> At(t, x) /\ t # s
                       /\ \A k : Writing(t, k)' <=> Writing(t, k) /\ t # s
    BY <1>1 DEF At, Writing
<1>3. ~ At(s, {"stored"})
    BY <1>1 DEF At
<1>4. NothingIsAhead'
    BY <1>1 DEF PathInv, NothingIsAhead
<1>5. WriterIsExclusive'
    BY <1>1, <1>2 DEF PathInv, WriterIsExclusive
<1>6. EffectIsStored'
    BY <1>1, <1>2 DEF PathInv, EffectIsStored
<1>7. CachedDataIsExcused'
    BY <1>1, <1>2, <1>3 DEF PathInv, CachedDataIsExcused
<1>8. AcknowledgedIsSettled'
  <2>1. CASE Acknowledges(s)
    <3>1. /\ acknowledged' = [acknowledged EXCEPT ![r.key] = r.data]
          /\ container = "active"
          /\ r.generation = generation
          /\ \A t \in Slots \ {s} : ~ Writing(t, r.key)
        BY <2>1 DEF AnswerWrite, Acknowledges
    <3>2. store[generation][r.key] = r.data
        BY <2>1, <1>t DEF Acknowledges, PathInv, EffectIsStored, Effect, At
    <3>3. \A k \in Keys \ {r.key} : acknowledged'[k] = acknowledged[k]
        BY <3>1, <1>t DEF TypeOK
    <3>4. acknowledged'[r.key] = r.data
        BY <3>1, <1>t DEF TypeOK
    <3> QED
        BY <3>1, <3>2, <3>3, <3>4, <1>1, <1>2, <1>t DEF PathInv, AcknowledgedIsSettled
  <2>2. CASE ~ Acknowledges(s)
      BY <2>2, <1>1, <1>2 DEF PathInv, AcknowledgedIsSettled, AnswerWrite
  <2> QED
      BY <2>1, <2>2
<1> QED
    BY <1>4, <1>5, <1>6, <1>7, <1>8 DEF PathInv

(* Around the requests: a container that is created again leaves every      *)
(* entry of its predecessors behind by their generation.                   *)
LEMMA InvOther == PathInv /\ TypeOK' /\ OtherStep => PathInv'
<1> SUFFICES ASSUME PathInv, TypeOK', OtherStep PROVE PathInv'
    OBVIOUS
<1>t. TypeOK /\ generation \in Int
    BY DEF PathInv, TypeOK, Generations
<1> USE DEF NothingIsAhead, WriterIsExclusive, EffectIsStored, CachedDataIsExcused,
            AcknowledgedIsSettled, At, Writing
<1>1. ASSUME NEW k \in Keys, EvictOldest(k) PROVE PathInv'
  <2>1. \A x \in Keys : cache'[x] = cache[x] \/ cache'[x] = None
      BY <1>1, <1>t DEF EvictOldest, Shard!Evict, TypeOK
  <2> QED
      BY <1>1, <2>1 DEF PathInv, EvictOldest
<1>2. ASSUME MarkAsDeleted PROVE PathInv'
    BY <1>2 DEF PathInv, MarkAsDeleted, Becomes, Name!Remove
<1>3. ASSUME DropContainer PROVE PathInv'
    BY <1>3 DEF PathInv, DropContainer, Becomes, Name!Collect
<1>4. ASSUME CreateContainer PROVE PathInv'
  <2>1. /\ container = "absent" /\ generation' = generation + 1
        /\ UNCHANGED <<store, cache, request, acknowledged>>
      BY <1>4 DEF CreateContainer, Becomes, Name!Create
  <2>2. ASSUME NEW s \in Slots, request[s] # None PROVE request[s].generation \in Int
    <3>1. request[s].generation \in Generations
        BY <2>2, <1>t, RequestType
    <3> QED
        BY <3>1 DEF Generations
  <2>3. \A k \in Keys : cache[k] # None => cache[k].generation \in Int
      BY <1>t DEF TypeOK, Cacheable, Generations
  <2>4. NothingIsAhead'
      BY <2>1, <2>2, <2>3, <1>t DEF PathInv
  <2>5. CachedDataIsExcused'
      BY <2>1, <2>3, <1>t DEF PathInv
  <2>6. AcknowledgedIsSettled'
      BY <2>1 DEF PathInv
  <2> QED
      BY <2>1, <2>4, <2>5, <2>6 DEF PathInv
<1>5. ASSUME Restart PROVE PathInv'
    BY <1>5 DEF PathInv, Restart, Becomes, Name!Abandon, NothingCached, NoRequests
<1> QED
    BY <1>1, <1>2, <1>3, <1>4, <1>5 DEF OtherStep

(* The invariant holds of a process that has served nothing yet. *)
LEMMA InitPath == Init => PathInv
BY TypeInit DEF Init, PathInv, NothingIsAhead, WriterIsExclusive, EffectIsStored,
   CachedDataIsExcused, AcknowledgedIsSettled, NothingCached, NoRequests, At

(* Writers exclude each other per key, what they do is stored until they    *)
(* are done, and what is cached or confirmed agrees with it.               *)
THEOREM PathInvariant == Spec => []PathInv
<1>1. Init => PathInv
    BY InitPath
<1>2. PathInv /\ [Next]_vars => PathInv'
  <2> SUFFICES ASSUME PathInv, [Next]_vars PROVE PathInv'
      OBVIOUS
  <2>1. TypeOK
      BY DEF PathInv
  <2>2. CASE UNCHANGED vars
      BY <2>2 DEF vars, bounds, PathInv, TypeOK, NothingIsAhead, WriterIsExclusive, EffectIsStored,
         CachedDataIsExcused, AcknowledgedIsSettled, At, Writing
  <2>3. ASSUME NEW s \in Slots, SlotStep(s) PROVE PathInv'
    <3>1. TypeOK'
        BY <2>1, <2>3, TypeSlot
    <3> QED
        BY <2>3, <3>1, InvReaders, InvFill, InvExecute, InvCache, InvAnswer DEF SlotStep
  <2>4. CASE OtherStep
      BY <2>1, <2>4, TypeOther, InvOther
  <2> QED
      BY <2>2, <2>3, <2>4, StepCases
<1> QED
    BY <1>1, <1>2, PTL DEF Spec

(* For every number of keys, partitions and tasks in flight: cached data is *)
(* the stored data but for the three excuses.                              *)
THEOREM CacheCorrect == Spec => []CachedDataIsCurrent
<1>1. PathInv => CachedDataIsCurrent
    BY DEF PathInv, CachedDataIsExcused, CachedDataIsCurrent
<1> QED
    BY <1>1, PathInvariant, PTL

(* A confirmed insertion is never lost or replaced behind its client. *)
THEOREM AcknowledgementCorrect == Spec => []AcknowledgedIsStored
<1>1. PathInv => AcknowledgedIsStored
    BY DEF PathInv, AcknowledgedIsSettled, AcknowledgedIsStored
<1> QED
    BY <1>1, PathInvariant, PTL

-------------------------------------------------------------------------------
(* What a get returns after an acknowledgement.  CachedDataIsCurrent lets   *)
(* an entry of an earlier container be anything, so that the data in front  *)
(* of an acknowledged insertion needs an invariant of its own.             *)

(* A get of the key would not find any other data than d in the cache. *)
HoldsAtMost(k, d) == cache[k] # None => cache[k].data \in {Empty, d}

(* An insertion that is through with the cache. *)
Through(s) ==
    /\ At(s, {"cached"}) /\ request[s].optype = "insert"
    /\ container = "active" /\ request[s].generation = generation

(* From the cache to the answer no other data comes in between. *)
InsertionStaysCached ==
    \A s \in Slots :
        Through(s) /\ request[s].data \notin OverLimit => HoldsAtMost(request[s].key, request[s].data)

(* Nor after the answer. *)
AcknowledgedStaysCached ==
    \A k \in Keys :
        acknowledged[k] # None /\ acknowledged[k] \notin OverLimit => HoldsAtMost(k, acknowledged[k])

CacheInv == PathInv /\ InsertionStaysCached /\ AcknowledgedStaysCached

(* A step that brings no data into the cache and no insertion through. *)
LEMMA NoDataCached ==
    ASSUME CacheInv, PathInv',
           \A k \in Keys : \/ cache'[k] = cache[k]
                           \/ cache'[k] # None => cache'[k].data = Empty,
           \A k \in Keys : acknowledged'[k] \in {None, acknowledged[k]},
           \A s \in Slots : Through(s)' => Through(s) /\ request'[s] = request[s]
    PROVE  CacheInv'
<1>1. ASSUME NEW k \in Keys, NEW d, HoldsAtMost(k, d) PROVE HoldsAtMost(k, d)'
    BY <1>1 DEF HoldsAtMost
<1>2. InsertionStaysCached'
  <2> SUFFICES ASSUME NEW s \in Slots, Through(s)', request'[s].data \notin OverLimit
               PROVE  cache'[request'[s].key] # None
                          => cache'[request'[s].key].data \in {Empty, request'[s].data}
      BY DEF InsertionStaysCached, HoldsAtMost
  <2>1. Through(s) /\ request'[s] = request[s] /\ request[s].key \in Keys
      BY RequestType DEF CacheInv, PathInv, Through, At
  <2>2. HoldsAtMost(request[s].key, request[s].data)
      BY <2>1 DEF CacheInv, InsertionStaysCached
  <2> QED
      BY <2>1, <2>2 DEF HoldsAtMost
<1>3. AcknowledgedStaysCached'
    BY DEF CacheInv, AcknowledgedStaysCached, HoldsAtMost
<1> QED
    BY <1>2, <1>3 DEF CacheInv

(* The HTTP threads, the read pool and the writer thread up to the engine. *)
LEMMA CacheReaders ==
    ASSUME CacheInv, PathInv', NEW s \in Slots, SlotStep(s), ~ CacheWrite(s), ~ AnswerWrite(s)
    PROVE  CacheInv'
<1> USE DEF bounds
<1>t. TypeOK /\ PathInv
    BY DEF CacheInv, PathInv
<1>1. ASSUME \A t \in Slots \ {s} : request'[t] = request[t],
             UNCHANGED <<container, generation>>,
             request'[s] # None => request'[s].pc # "cached",
             \A k \in Keys : \/ cache'[k] = cache[k]
                             \/ cache'[k] # None => cache'[k].data = Empty,
             \A k \in Keys : acknowledged'[k] \in {None, acknowledged[k]}
      PROVE  CacheInv'
  <2>1. \A t \in Slots : Through(t)' => Through(t) /\ request'[t] = request[t]
      BY <1>1 DEF Through, At
  <2> QED
      BY <1>1, <2>1, NoDataCached
<1>2. ASSUME NEW k \in Keys, BeginGet(s, k) PROVE CacheInv'
  <2>1. /\ \A t \in Slots \ {s} : request'[t] = request[t]
        /\ request'[s].pc # "cached"
      BY <1>2, <1>t, BeginType DEF Gets
  <2> QED
      BY <1>1, <1>2, <2>1 DEF BeginGet
<1>3. ASSUME NEW k \in Keys, NEW optype \in {"insert", "remove"}, NEW d \in Data,
             BeginWrite(s, optype, k, d)
      PROVE  CacheInv'
  <2>1. /\ \A t \in Slots \ {s} : request'[t] = request[t]
        /\ request'[s].pc # "cached"
      BY <1>3, <1>t, BeginType
  <2>2. \A x \in Keys : acknowledged'[x] \in {None, acknowledged[x]}
      BY <1>3, <1>t DEF BeginWrite, TypeOK
  <2> QED
      BY <1>1, <1>3, <2>1, <2>2 DEF BeginWrite
<1>4. ASSUME LookUpCache(s) \/ ReadObject(s) PROVE CacheInv'
  <2>1. request[s] # None /\ request[s] \in Gets
      BY <1>4, <1>t, RequestType DEF LookUpCache, ReadObject, At
  <2>2. Finish(s) \/ \E c \in {"reading", "fill"} : Goto(s, c)
      BY <1>4 DEF LookUpCache, ReadObject
  <2>3. /\ \A t \in Slots \ {s} : request'[t] = request[t]
        /\ request'[s] # None => request'[s].pc # "cached"
      BY <2>1, <2>2, <1>t, GotoKeeps, FinishFrees
  <2> QED
      BY <1>1, <1>4, <2>3 DEF LookUpCache, ReadObject
<1>5. ASSUME FillCache(s) PROVE CacheInv'
  <2>1. request[s] # None /\ request[s] \in Gets
      BY <1>5, <1>t, RequestType DEF FillCache, At
  <2>2. request[s].data = Empty /\ request[s].key \in Keys
      BY <2>1 DEF Gets
  <2>3. \A k \in Keys : \/ cache'[k] = cache[k]
                        \/ cache'[k] # None => cache'[k].data = Empty
      BY <1>5, <1>t, <2>2 DEF FillCache, PutIntoCache, Shard!Put, TypeOK
  <2>4. \A t \in Slots \ {s} : request'[t] = request[t]
      BY <1>5, <1>t, FinishFrees DEF FillCache
  <2>5. request'[s] = None
      BY <1>5, <1>t, FinishFrees DEF FillCache
  <2> QED
      BY <1>1, <1>5, <2>3, <2>4, <2>5 DEF FillCache
<1>6. ASSUME ExecuteWrite(s) PROVE CacheInv'
  <2>1. request[s] # None /\ request[s] \in Inserts \cup Removes
      BY <1>6, <1>t, RequestType DEF ExecuteWrite, At, WriteCounters
  <2>2. \E c \in {"stored", "failed"} : Goto(s, c)
      BY <1>6 DEF ExecuteWrite
  <2>3. /\ \A t \in Slots \ {s} : request'[t] = request[t]
        /\ request'[s].pc # "cached"
      BY <2>1, <2>2, <1>t, GotoKeeps DEF WriteCounters
  <2> QED
      BY <1>1, <1>6, <2>3 DEF ExecuteWrite
<1> QED
    BY <1>2, <1>3, <1>4, <1>5, <1>6 DEF SlotStep

(* The writer thread brings the data of its own task into the cache, when   *)
(* no insertion of the key is through and none acknowledged.               *)
LEMMA CacheWriteStep ==
    ASSUME CacheInv, PathInv', NEW s \in Slots, CacheWrite(s)
    PROVE  CacheInv'
<1> DEFINE r == request[s]
<1>t. /\ TypeOK /\ PathInv
      /\ request[s] # None /\ r.key \in Keys /\ r \in Inserts \cup Removes
    BY RequestType DEF CacheInv, PathInv, CacheWrite, At, WriteCounters
<1>1. /\ \A t \in Slots \ {s} : request'[t] = request[t]
      /\ request'[s] # None /\ request'[s].pc = "cached" /\ r.pc = "stored"
      /\ request'[s].key = r.key /\ request'[s].generation = r.generation
      /\ request'[s].optype = r.optype /\ request'[s].data = r.data
  <2>1. Goto(s, "cached") /\ "cached" \in WriteCounters /\ r.pc = "stored"
      BY DEF CacheWrite, WriteCounters, At
  <2> QED
      BY <2>1, <1>t, GotoKeeps
<1>2. UNCHANGED <<container, generation, store, acknowledged>> /\ PutIntoCache(r)
    BY DEF CacheWrite
<1>3. \A k \in Keys \ {r.key} : cache'[k] = cache[k]
    BY <1>2, <1>t DEF PutIntoCache, Shard!Put, TypeOK
<1>4. \A t \in Slots \ {s} : Through(t)' => Through(t) /\ request[t].key # r.key
  <2>1. ASSUME NEW t \in Slots \ {s}, Through(t)' PROVE Through(t) /\ At(t, Executing)
      BY <1>1, <1>2, <2>1 DEF Through, At, Executing
  <2>2. At(s, Executing)
      BY <1>t, <1>1 DEF At, Executing
  <2>3. ASSUME NEW t \in Slots, t # s, At(t, Executing) PROVE request[t].key # r.key
      BY <1>t, <2>2, <2>3 DEF PathInv, WriterIsExclusive
  <2> QED
      BY <2>1, <2>3
<1>5. InsertionStaysCached'
  <2> SUFFICES ASSUME NEW t \in Slots, Through(t)', request'[t].data \notin OverLimit
               PROVE  cache'[request'[t].key] # None
                          => cache'[request'[t].key].data \in {Empty, request'[t].data}
      BY DEF InsertionStaysCached, HoldsAtMost
  <2>1. CASE t = s
    <3>1. container = "active" /\ r.data \notin OverLimit
        BY <1>1, <1>2, <2>1 DEF Through
    <3>2. cache'[r.key].data = r.data
        BY <1>2, <1>t, <3>1 DEF PutIntoCache, Shard!Put, TypeOK
    <3> QED
        BY <1>1, <2>1, <3>2
  <2>2. CASE t # s
    <3>1. /\ Through(t) /\ request[t].key # r.key
          /\ request'[t] = request[t] /\ request[t].key \in Keys
        BY <1>1, <1>4, <1>t, <2>2, RequestType DEF Through, At
    <3>2. HoldsAtMost(request[t].key, request[t].data)
        BY <3>1 DEF CacheInv, InsertionStaysCached
    <3> QED
        BY <1>3, <3>1, <3>2 DEF HoldsAtMost
  <2> QED
      BY <2>1, <2>2
<1>6. AcknowledgedStaysCached'
  <2>1. acknowledged[r.key] = None
    <3>1. Writing(s, r.key)
        BY <1>1, <1>t DEF Writing, At, WriteCounters
    <3> QED
        BY <3>1, <1>t DEF PathInv, AcknowledgedIsSettled
  <2> QED
      BY <1>2, <1>3, <2>1 DEF CacheInv, AcknowledgedStaysCached, HoldsAtMost
<1> QED
    BY <1>5, <1>6 DEF CacheInv

(* The answer acknowledges an insertion that is through with the cache. *)
LEMMA CacheAnswerStep ==
    ASSUME CacheInv, PathInv', NEW s \in Slots, AnswerWrite(s)
    PROVE  CacheInv'
<1> DEFINE r == request[s]
<1>t. TypeOK /\ request[s] # None /\ r.key \in Keys
    BY RequestType DEF CacheInv, PathInv, AnswerWrite, At
<1>1. /\ \A t \in Slots \ {s} : request'[t] = request[t]
      /\ request'[s] = None
      /\ UNCHANGED <<container, generation, store, cache>>
    BY <1>t, FinishFrees DEF AnswerWrite
<1>2. InsertionStaysCached'
  <2>1. \A t \in Slots : Through(t)' => Through(t) /\ request'[t] = request[t]
      BY <1>1 DEF Through, At
  <2> QED
      BY <1>1, <2>1 DEF CacheInv, InsertionStaysCached, HoldsAtMost
<1>3. AcknowledgedStaysCached'
  <2>1. CASE Acknowledges(s)
    <3>1. acknowledged' = [acknowledged EXCEPT ![r.key] = r.data]
        BY <2>1 DEF AnswerWrite
    <3>2. r.data \notin OverLimit => HoldsAtMost(r.key, r.data)
        BY <2>1, <1>t DEF Acknowledges, Through, At, CacheInv, InsertionStaysCached
    <3>3. /\ \A k \in Keys \ {r.key} : acknowledged'[k] = acknowledged[k]
          /\ acknowledged'[r.key] = r.data
        BY <3>1, <1>t DEF TypeOK
    <3> QED
        BY <1>1, <3>2, <3>3 DEF CacheInv, AcknowledgedStaysCached, HoldsAtMost
  <2>2. CASE ~ Acknowledges(s)
      BY <1>1, <2>2 DEF AnswerWrite, CacheInv, AcknowledgedStaysCached, HoldsAtMost
  <2> QED
      BY <2>1, <2>2
<1> QED
    BY <1>2, <1>3 DEF CacheInv

(* Around the requests: an insertion into an earlier container is not       *)
(* through once the name is created again.                                 *)
LEMMA CacheOther == ASSUME CacheInv, PathInv', OtherStep PROVE CacheInv'
<1> USE DEF bounds
<1>t. TypeOK /\ NothingIsAhead /\ generation \in Int
    BY DEF CacheInv, PathInv, TypeOK, Generations
<1>1. ASSUME NEW k \in Keys, EvictOldest(k) PROVE CacheInv'
  <2>1. \A x \in Keys : cache'[x] = cache[x] \/ cache'[x] = None
      BY <1>1, <1>t DEF EvictOldest, Shard!Evict, TypeOK
  <2> QED
      BY <1>1, <2>1, NoDataCached DEF EvictOldest, Through, At
<1>2. ASSUME MarkAsDeleted PROVE CacheInv'
    BY <1>2, NoDataCached DEF MarkAsDeleted, Becomes, Name!Remove, Through
<1>3. ASSUME DropContainer PROVE CacheInv'
    BY <1>3, NoDataCached DEF DropContainer, Becomes, Name!Collect, Through
<1>4. ASSUME CreateContainer PROVE CacheInv'
  <2>1. \A s \in Slots : ~ Through(s)'
    <3> SUFFICES ASSUME NEW s \in Slots, request[s] # None, request[s].generation = generation + 1
                 PROVE  FALSE
        BY <1>4 DEF CreateContainer, Becomes, Name!Create, Through, At
    <3>1. request[s].generation <= generation
        BY <1>t DEF NothingIsAhead
    <3> QED
        BY <1>t, <3>1
  <2> QED
      BY <1>4, <2>1, NoDataCached DEF CreateContainer, Becomes, Name!Create
<1>5. ASSUME Restart PROVE CacheInv'
  <2>1. \A k \in Keys : cache'[k] = None
      BY <1>5 DEF Restart, Becomes, Name!Abandon, NothingCached
  <2>2. \A s \in Slots : ~ Through(s)'
      BY <1>5 DEF Restart, Becomes, Name!Abandon, NoRequests, Through, At
  <2> QED
      BY <1>5, <2>1, <2>2, NoDataCached DEF Restart, Becomes, Name!Abandon
<1> QED
    BY <1>1, <1>2, <1>3, <1>4, <1>5 DEF OtherStep

(* Between the writer's put into the cache and the next write of the key no *)
(* other data gets in front of an insertion.                               *)
THEOREM CacheInvariant == Spec => []CacheInv
<1>1. Init => CacheInv
  <2>1. Init => PathInv
      BY InitPath
  <2>2. Init => InsertionStaysCached /\ AcknowledgedStaysCached
      BY DEF Init, InsertionStaysCached, AcknowledgedStaysCached, Through, At, NoRequests
  <2> QED
      BY <2>1, <2>2 DEF CacheInv
<1>2. CacheInv /\ PathInv' /\ [Next]_vars => CacheInv'
  <2> SUFFICES ASSUME CacheInv, PathInv', [Next]_vars PROVE CacheInv'
      OBVIOUS
  <2>1. CASE UNCHANGED vars
      BY <2>1, NoDataCached DEF vars, Through, At
  <2>2. ASSUME NEW s \in Slots, SlotStep(s) PROVE CacheInv'
      BY <2>2, CacheReaders, CacheWriteStep, CacheAnswerStep
  <2>3. CASE OtherStep
      BY <2>3, CacheOther
  <2> QED
      BY <2>1, <2>2, <2>3, StepCases
<1> QED
    BY <1>1, <1>2, PathInvariant, PTL DEF Spec

(* For every number of keys, partitions and tasks in flight: a get after an *)
(* acknowledged insertion returns what was inserted, unless the entry has   *)
(* no data or the cache refused the insertion.                             *)
THEOREM GetCorrect == Spec => []AcknowledgedIsReturned
<1>1. CacheInv => AcknowledgedIsReturned
  <2> SUFFICES ASSUME CacheInv, NEW k \in Keys, acknowledged[k] # None,
                      cache[k] # None, cache[k].data # Empty, acknowledged[k] \notin OverLimit
               PROVE  cache[k].data = acknowledged[k]
      BY DEF CacheInv, PathInv, AcknowledgedIsSettled, AcknowledgedIsReturned, ReturnedByGet
  <2> QED
      BY DEF CacheInv, AcknowledgedStaysCached, HoldsAtMost
<1> QED
    BY <1>1, CacheInvariant, PTL
===============================================================================
