------------------------------ MODULE ObjectPath ------------------------------
(***************************************************************************)
(* Requests on the objects of one container: the container check on an     *)
(* HTTP thread, the lookup in the frontline cache, the single writer       *)
(* thread and the read pool of each partition, their storage engine calls  *)
(* and what they put into the cache.                                       *)
(*                                                                         *)
(* The container is removed and created again under these requests; each   *)
(* creation is a generation with column families of its own, while the     *)
(* cache only knows the container's name.  ContainerLifecycle models how   *)
(* the container gets from one state to the next.                          *)
(***************************************************************************)
EXTENDS Integers, FiniteSets

CONSTANTS
    Keys,            \* object identifiers
    Values,          \* data of inserted objects, never empty
    OverLimit,       \* the values the cache refuses for their size
    Empty,           \* data of a get or a remove request
    None,            \* no request, no record, no entry
    Slots,           \* tasks in flight at once (a bound)
    NumPartitions,   \* k_number_collocations
    PartitionOf,     \* the hash of an object identifier, modulo NumPartitions
    MaxGenerations,  \* creations of the container (a bound)
    MaxFailures,     \* storage engine errors in a behaviour (a bound)
    MaxCrashes       \* crashes in a behaviour (a bound)

Partitions == 0 .. NumPartitions - 1
Generations == 1 .. MaxGenerations
Data == Values \cup {Empty}
(* Clients send data with insertions only, as the Python client does. *)
Gets == [pc : {"lookup", "reading", "fill"}, optype : {"get"}, key : Keys,
         data : {Empty}, generation : Generations]
WriteCounters == {"queued", "stored", "cached", "failed"}
Inserts == [pc : WriteCounters, optype : {"insert"}, key : Keys,
            data : Values, generation : Generations]
Removes == [pc : WriteCounters, optype : {"remove"}, key : Keys,
            data : {Empty}, generation : Generations]
Requests == Gets \cup Inserts \cup Removes
Cacheable == [data : Data, generation : Generations]

ASSUME NumPartitionsAssumption == NumPartitions \in Nat \ {0}
ASSUME PartitionOfAssumption == PartitionOf \in [Keys -> Partitions]
ASSUME BoundsAssumption ==
    MaxGenerations \in Nat \ {0} /\ MaxFailures \in Nat /\ MaxCrashes \in Nat
ASSUME DataAssumption ==
    /\ OverLimit \subseteq Values
    /\ Empty \notin Values
    /\ None \notin Data /\ None \notin Requests
    /\ None \notin Cacheable

VARIABLES
    container,     \* state of the container's name in the index
    generation,    \* the container of that name, by order of creation
    store,         \* the column family of a generation in the engines
    cache,         \* the frontline cache for the container's name
    request,       \* object_io_task or request of a slot
    acknowledged,  \* history: the insertion a key's last answer confirmed
    failures, crashes

bounds == <<failures, crashes>>
vars == <<container, generation, store, cache, request, acknowledged, bounds>>

(* The generation of an entry is a history variable. *)
Shard == INSTANCE FrontlineCache WITH
    Contents <- Cacheable,
    cached <- cache,
    putting <- None

(* What other components make of the container's name. *)
Name == INSTANCE ContainerNames WITH
    Names <- {"container"},
    states <- [n \in {"container"} |-> container]

(* Every variable keeps its type. *)
TypeOK ==
    /\ container \in {"active", "deleted", "absent"}
    /\ generation \in Generations
    /\ container # "active" => generation < MaxGenerations
    /\ store \in [Generations -> [Keys -> Values \cup {None}]]
    /\ cache \in [Keys -> Cacheable \cup {None}]
    /\ request \in [Slots -> Requests \cup {None}]
    /\ acknowledged \in [Keys -> Values \cup {None}]
    /\ failures \in 0 .. MaxFailures
    /\ crashes \in 0 .. MaxCrashes

NothingCached == [k \in Keys |-> None]
NoRequests == [s \in Slots |-> None]

Init ==
    /\ container = "active"
    /\ generation = 1
    /\ store = [g \in Generations |-> [k \in Keys |-> None]]
    /\ cache = NothingCached
    /\ request = NoRequests
    /\ acknowledged = [k \in Keys |-> None]
    /\ failures = 0
    /\ crashes = 0

-------------------------------------------------------------------------------
At(s, counters) == request[s] # None /\ request[s].pc \in counters
Goto(s, counter) == request' = [request EXCEPT ![s].pc = counter]
Finish(s) == request' = [request EXCEPT ![s] = None]

Writing(s, k) ==
    At(s, WriteCounters) /\ request[s].key = k

EngineFails ==
    /\ failures < MaxFailures
    /\ failures' = failures + 1
    /\ UNCHANGED crashes

(* A removed container keeps its column families until the collector drops *)
(* them; the engine refuses writes to a dropped one and still reads it.    *)
Dropped(g) == g < generation \/ container = "absent"

(* Mutant: an object that is already cached is kept. *)
PutIntoCacheOnce(r) ==
    IF container = "active" /\ r.data \notin OverLimit /\ cache[r.key] = None
    THEN Shard!Put(r.key, [data |-> r.data, generation |-> r.generation])
    ELSE UNCHANGED cache

(* The cache takes the data of the request, under the container's name, if *)
(* a container of that name is active and the data is within the limit.    *)
PutIntoCache(r) ==
    IF container = "active" /\ r.data \notin OverLimit
    THEN Shard!Put(r.key, [data |-> r.data, generation |-> r.generation])
    ELSE UNCHANGED cache

-------------------------------------------------------------------------------
(* HTTP threads.  A request that finds no active container is answered at  *)
(* once.                                                                   *)

BeginGet(s, k) ==
    /\ request[s] = None
    /\ container = "active"
    /\ request' = [request EXCEPT ![s] =
            [pc |-> "lookup", optype |-> "get", key |-> k, data |-> Empty,
             generation |-> generation]]
    /\ UNCHANGED <<container, generation, store, cache, acknowledged, bounds>>

(* The data of an insertion is validated not to be empty; a removal has none. *)
BeginWrite(s, optype, k, d) ==
    /\ request[s] = None
    /\ container = "active"
    /\ optype = "insert" <=> d \in Values
    /\ request' = [request EXCEPT ![s] =
            [pc |-> "queued", optype |-> optype, key |-> k, data |-> d,
             generation |-> generation]]
    /\ acknowledged' = [acknowledged EXCEPT ![k] = None]
    /\ UNCHANGED <<container, generation, store, cache, bounds>>

InsertObject(s, k) == \E d \in Data : BeginWrite(s, "insert", k, d)
RemoveObject(s, k) == BeginWrite(s, "remove", k, Empty)

Hit(k) == container = "active" /\ cache[k] # None

(* A hit is answered here, whatever it holds; a miss is posted to the read *)
(* pool of the partition.                                                  *)
LookUpCache(s) ==
    /\ At(s, {"lookup"})
    /\ IF Hit(request[s].key)
       THEN Finish(s)
       ELSE Goto(s, "reading")
    /\ UNCHANGED <<container, generation, store, cache, acknowledged, bounds>>

-------------------------------------------------------------------------------
(* The read pool. *)

Retrieved(r) == store[r.generation][r.key]

(* Mutant: a retrieval that finds nothing is not answered. *)
ReadObjectUnanswered(s) ==
    /\ At(s, {"reading"})
    /\ \/ /\ Retrieved(request[s]) # None
          /\ Goto(s, "fill")
          /\ UNCHANGED bounds
       \/ /\ EngineFails
          /\ Finish(s)
    /\ UNCHANGED <<container, generation, store, cache, acknowledged>>

(* The object is read and answered, or the retrieval failed and is         *)
(* answered.                                                               *)
ReadObject(s) ==
    /\ At(s, {"reading"})
    /\ \/ /\ Retrieved(request[s]) # None
          /\ Goto(s, "fill")
          /\ UNCHANGED bounds
       \/ /\ Retrieved(request[s]) = None
          /\ Finish(s)
          /\ UNCHANGED bounds
       \/ /\ EngineFails
          /\ Finish(s)
    /\ UNCHANGED <<container, generation, store, cache, acknowledged>>

(* After the answer, with the data of the request, not the data read. *)
FillCache(s) ==
    /\ At(s, {"fill"})
    /\ PutIntoCache(request[s])
    /\ Finish(s)
    /\ UNCHANGED <<container, generation, store, acknowledged, bounds>>

-------------------------------------------------------------------------------
(* The writer thread of a partition executes one task at a time. *)

Executing == {"stored", "cached", "failed"}

(* What a write makes of the record of its key. *)
Effect(r) == IF r.optype = "insert" THEN r.data ELSE None

(* Mutant: tasks of one partition are executed side by side. *)
NeverBusy(p) == FALSE

Busy(p) ==
    \E s \in Slots : At(s, Executing) /\ PartitionOf[request[s].key] = p

(* Mutant: an error is taken for success. *)
ExecuteWriteIgnoresError(s) ==
    LET r == request[s] IN
    /\ At(s, {"queued"})
    /\ ~ Busy(PartitionOf[r.key])
    /\ \/ /\ ~ Dropped(r.generation)
          /\ store' = [store EXCEPT ![r.generation][r.key] = Effect(r)]
          /\ UNCHANGED bounds
       \/ Dropped(r.generation) /\ UNCHANGED <<store, bounds>>
       \/ EngineFails /\ UNCHANGED store
    /\ Goto(s, "stored")
    /\ UNCHANGED <<container, generation, cache, acknowledged>>

ExecuteWrite(s) ==
    LET r == request[s] IN
    /\ At(s, {"queued"})
    /\ ~ Busy(PartitionOf[r.key])
    /\ \/ /\ ~ Dropped(r.generation)
          /\ store' = [store EXCEPT ![r.generation][r.key] = Effect(r)]
          /\ Goto(s, "stored")
          /\ UNCHANGED bounds
       \/ /\ Dropped(r.generation)
          /\ Goto(s, "failed")
          /\ UNCHANGED <<store, bounds>>
       \/ /\ EngineFails
          /\ Goto(s, "failed")
          /\ UNCHANGED store
    /\ UNCHANGED <<container, generation, cache, acknowledged>>

CacheWrite(s) ==
    /\ At(s, {"stored"})
    /\ PutIntoCache(request[s])
    /\ Goto(s, "cached")
    /\ UNCHANGED <<container, generation, store, acknowledged, bounds>>

(* History: a success confirms an insertion if no other write of the key   *)
(* overlaps it and its container is still there.                           *)
Acknowledges(s) ==
    LET r == request[s] IN
    /\ r.pc = "cached" /\ r.optype = "insert"
    /\ container = "active" /\ r.generation = generation
    /\ \A t \in Slots \ {s} : ~ Writing(t, r.key)

AnswerWrite(s) ==
    /\ At(s, {"cached", "failed"})
    /\ Finish(s)
    /\ acknowledged' = IF Acknowledges(s)
                       THEN [acknowledged EXCEPT ![request[s].key] = request[s].data]
                       ELSE acknowledged
    /\ UNCHANGED <<container, generation, store, cache, bounds>>

-------------------------------------------------------------------------------
(* What happens around the requests.  The container's name moves as        *)
(* ContainerNames has it, which ContainerLifecycle implements.             *)

Becomes(move) == container = move[1] /\ container' = move[2]

(* A put of another object pushes this one out of the shard. *)
EvictOldest(k) ==
    /\ cache[k] # None
    /\ Shard!Evict(k)
    /\ UNCHANGED <<container, generation, store, request, acknowledged, bounds>>

MarkAsDeleted ==
    /\ Becomes(Name!Remove)
    /\ generation < MaxGenerations
    /\ acknowledged' = [k \in Keys |-> None]
    /\ UNCHANGED <<generation, store, cache, request, bounds>>

(* The collector drops the column families and erases the name. *)
DropContainer ==
    /\ Becomes(Name!Collect)
    /\ UNCHANGED <<generation, store, cache, request, acknowledged, bounds>>

CreateContainer ==
    /\ Becomes(Name!Create)
    /\ generation' = generation + 1
    /\ UNCHANGED <<store, cache, request, acknowledged, bounds>>

(* The process dies and starts again: the cache and the requests are lost,  *)
(* and what a creation left is a container to be collected.                *)
Restart ==
    /\ crashes < MaxCrashes
    /\ crashes' = crashes + 1
    /\ cache' = NothingCached
    /\ request' = NoRequests
    /\ Becomes(Name!Abandon) \/ UNCHANGED container
    /\ UNCHANGED <<generation, store, acknowledged, failures>>

-------------------------------------------------------------------------------
BeginRequest(s) ==
    \E k \in Keys : BeginGet(s, k) \/ InsertObject(s, k) \/ RemoveObject(s, k)

WriterStep(p) ==
    \E s \in Slots :
        /\ request[s] # None /\ PartitionOf[request[s].key] = p
        /\ ExecuteWrite(s) \/ CacheWrite(s) \/ AnswerWrite(s)

ReaderStep(s) == LookUpCache(s) \/ ReadObject(s) \/ FillCache(s)

Next ==
    \/ \E s \in Slots : BeginRequest(s) \/ ReaderStep(s)
    \/ \E p \in Partitions : WriterStep(p)
    \/ \E k \in Keys : EvictOldest(k)
    \/ MarkAsDeleted \/ DropContainer \/ CreateContainer
    \/ Restart

Spec == Init /\ [][Next]_vars

(* HTTP threads go on with a request they began, the pool runs what is      *)
(* posted to it, and a writer thread serves its queue.  Which producer the *)
(* queue serves next is left open.                                         *)
FairSpec ==
    /\ Spec
    /\ \A s \in Slots : WF_vars(ReaderStep(s))
    /\ \A p \in Partitions : WF_vars(WriterStep(p))

-------------------------------------------------------------------------------
(* Data in the cache is the data in the storage engine, unless the writer  *)
(* is between the two, the newer data is over the limit of the cache, or   *)
(* the entry is of an earlier container of the name.  Entries without data *)
(* are the subject of StrongConsistency.                                   *)
CachedDataIsCurrent ==
    container = "active" => \A k \in Keys :
        cache[k] # None /\ cache[k].data # Empty /\ cache[k].generation = generation
            => \/ store[generation][k] = cache[k].data
               \/ store[generation][k] \in OverLimit
               \/ \E s \in Slots : At(s, {"stored"}) /\ request[s].key = k

(* An acknowledged insertion is in the storage engine until another write  *)
(* of the key begins, across failures of other requests and a crash.       *)
AcknowledgedIsStored ==
    \A k \in Keys : acknowledged[k] # None => store[generation][k] = acknowledged[k]

(* What a get that looks up now would return. *)
ReturnedByGet(k) == IF cache[k] # None THEN cache[k].data ELSE store[generation][k]

(* A get after an acknowledged insertion returns what was inserted.  Only   *)
(* two things can stand before it in the cache: an entry without data, and  *)
(* older data when the cache refused the inserted data for its size.  An    *)
(* entry of an earlier container of the name never does, although the       *)
(* cache knows no generations: a write to the earlier container is through  *)
(* with the cache before the writer thread stores the insertion.           *)
AcknowledgedIsReturned ==
    \A k \in Keys : acknowledged[k] # None =>
        \/ ReturnedByGet(k) = acknowledged[k]
        \/ cache[k] # None /\ (cache[k].data = Empty \/ acknowledged[k] \in OverLimit)

(* write_io_dispatcher.cc:145: "This provides strong consistency for get   *)
(* operations after a well-acknowledged object insertion."                 *)
StrongConsistency ==
    \A k \in Keys : acknowledged[k] # None => ReturnedByGet(k) = acknowledged[k]

(* Unless clients keep sending requests for ever, every request ends.      *)
RequestsDrain ==
    \/ []<><<\E s \in Slots : BeginRequest(s)>>_vars
    \/ \A s \in Slots : <>[](request[s] = None)
===============================================================================
