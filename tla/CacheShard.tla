------------------------------ MODULE CacheShard ------------------------------
(***************************************************************************)
(* One shard of the frontline cache: a list of objects from the most to    *)
(* the least recently used, a map from a key (container name and object)   *)
(* to its node of the list, and the number of bytes the shard believes to  *)
(* hold.  A mutex serializes all of it; a put is taken apart into the      *)
(* steps it makes under the mutex.                                         *)
(***************************************************************************)
EXTENDS Integers, Sequences, FiniteSets, SequencesExt

CONSTANTS
    Keys,           \* pairs of container name and object
    Data,           \* data of objects
    SizeOf,         \* bytes of data
    MaxShardSize,   \* max_cache_shard_size_bytes_
    MaxObjectSize,  \* max_object_size_bytes_
    Modulus,        \* std::size_t counts modulo 2^64
    None            \* the mutex is free; no node for a key

ASSUME SizeOfAssumption == SizeOf \in [Data -> Nat]
ASSUME SizesAssumption == MaxObjectSize \in Nat /\ MaxShardSize \in Nat
ASSUME ModulusAssumption == Modulus \in Nat /\ MaxObjectSize + MaxShardSize < Modulus

Puts == [key : Keys, content : Data]

VARIABLES
    lru,          \* lru_doubly_linked_list_
    mapped,       \* keys of lru_cache_map_
    currentSize,  \* current_cache_shard_size_bytes_
    holder        \* the put under the mutex

vars == <<lru, mapped, currentSize, holder>>

(* Every variable keeps its type. *)
TypeOK ==
    /\ lru \in Seq(Puts)
    /\ mapped \in SUBSET Keys
    /\ currentSize \in 0 .. Modulus - 1
    /\ holder \in Puts \cup {None}

Init ==
    /\ lru = <<>>
    /\ mapped = {}
    /\ currentSize = 0
    /\ holder = None

Size(node) == SizeOf[node.content]

(* The iterator the map holds for a key, as a place in the list. *)
PositionOf(k) == CHOOSE i \in DOMAIN lru : lru[i].key = k
NodeOf(k) == lru[PositionOf(k)]
Without(k) == RemoveAt(lru, PositionOf(k))
AtFront(k) == lru # <<>> /\ Head(lru).key = k

(* Mutant: the size of the new object is left out of the condition. *)
MustEvictIgnoresNew == currentSize > MaxShardSize /\ lru # <<>>

(* The condition of the eviction loop. *)
MustEvict == (currentSize + Size(holder)) % Modulus > MaxShardSize /\ lru # <<>>

-------------------------------------------------------------------------------
(* A put that is over the limit of an object returns before the mutex. *)
LockForPut(put) ==
    /\ holder = None
    /\ Size(put) <= MaxObjectSize
    /\ holder' = put
    /\ UNCHANGED <<lru, mapped, currentSize>>

(* Mutant: the data of the object at the front is kept. *)
OverwriteFrontKeepsData ==
    /\ holder # None
    /\ holder.key \in mapped /\ AtFront(holder.key)
    /\ holder' = None
    /\ UNCHANGED <<lru, mapped, currentSize>>

(* The object is the most recent one: its data is replaced in place. *)
OverwriteFront ==
    /\ holder # None
    /\ holder.key \in mapped /\ AtFront(holder.key)
    /\ lru' = <<holder>> \o Tail(lru)
    /\ holder' = None
    /\ UNCHANGED <<mapped, currentSize>>

(* Mutant: the bytes of the older node stay in the count. *)
EraseOlderUncounted ==
    /\ holder # None
    /\ holder.key \in mapped /\ ~ AtFront(holder.key)
    /\ lru' = Without(holder.key)
    /\ mapped' = mapped \ {holder.key}
    /\ UNCHANGED <<currentSize, holder>>

(* The object is elsewhere in the list. *)
EraseOlder ==
    /\ holder # None
    /\ holder.key \in mapped /\ ~ AtFront(holder.key)
    /\ currentSize' = (currentSize - Size(NodeOf(holder.key))) % Modulus
    /\ lru' = Without(holder.key)
    /\ mapped' = mapped \ {holder.key}
    /\ UNCHANGED holder

(* Mutants: an eviction forgets the map; the count is signed. *)
EvictOldestKeepsMap ==
    /\ holder # None /\ holder.key \notin mapped
    /\ MustEvict
    /\ currentSize' = (currentSize - Size(Last(lru))) % Modulus
    /\ lru' = Front(lru)
    /\ UNCHANGED <<mapped, holder>>
EvictOldestSigned ==
    /\ holder # None /\ holder.key \notin mapped
    /\ MustEvict
    /\ currentSize' = currentSize - Size(Last(lru))
    /\ mapped' = mapped \ {Last(lru).key}
    /\ lru' = Front(lru)
    /\ UNCHANGED holder

EvictOldest ==
    /\ holder # None /\ holder.key \notin mapped
    /\ MustEvict
    /\ currentSize' = (currentSize - Size(Last(lru))) % Modulus
    /\ mapped' = mapped \ {Last(lru).key}
    /\ lru' = Front(lru)
    /\ UNCHANGED holder

InsertAtFront ==
    /\ holder # None /\ holder.key \notin mapped
    /\ ~ MustEvict
    /\ lru' = <<holder>> \o lru
    /\ mapped' = mapped \cup {holder.key}
    /\ currentSize' = (currentSize + Size(holder)) % Modulus
    /\ holder' = None

(* A get that finds its object splices the node to the front. *)
Get(k) ==
    /\ holder = None
    /\ k \in mapped
    /\ lru' = <<NodeOf(k)>> \o Without(k)
    /\ UNCHANGED <<mapped, currentSize, holder>>

Next ==
    \/ \E put \in Puts : LockForPut(put)
    \/ OverwriteFront \/ EraseOlder \/ EvictOldest \/ InsertAtFront
    \/ \E k \in Keys : Get(k)

Spec == Init /\ [][Next]_vars

-------------------------------------------------------------------------------
(* The bytes of all nodes.  A key has one node, see MapAgreesWithList. *)
BytesUnder(k, content) == {k} \X (1 .. SizeOf[content])
Bytes == UNION {BytesUnder(lru[i].key, lru[i].content) : i \in DOMAIN lru}
TotalSize == Cardinality(Bytes)

AccountIsExact == currentSize = TotalSize

(* Every key of the map has exactly one node in the list and every node a  *)
(* key in the map: no iterator dangles and no object is beyond reach.      *)
MapAgreesWithList ==
    /\ mapped = {lru[i].key : i \in DOMAIN lru}
    /\ \A i, j \in DOMAIN lru : lru[i].key = lru[j].key => i = j

(* The byte count parts from the bytes in the list at one place only: when *)
(* the most recent object is overwritten with data of another size.        *)
OnlyOverwritesMiscount ==
    [][(currentSize - TotalSize) % Modulus # (currentSize' - TotalSize') % Modulus
        => OverwriteFront]_vars

(* Whenever the mutex is free and the count is exact, whatever it has been  *)
(* before, the shard is within its maximum, or holds no more than one       *)
(* object: no configuration is refused whose objects may exceed a shard.    *)
FitsWhileAccountIsExact ==
    holder = None /\ AccountIsExact
        => TotalSize <= MaxShardSize \/ (Len(lru) = 1 /\ TotalSize <= MaxObjectSize)

(* storage_configuration.hh:126: "Maximum size for a frontline cache shard *)
(* instance in MiB."                                                       *)
ShardFitsItsMaximum == TotalSize <= MaxShardSize

-------------------------------------------------------------------------------
(* What a get of each key would find. *)
Cached == [k \in Keys |-> IF k \in mapped THEN NodeOf(k).content ELSE None]

Abstract == INSTANCE FrontlineCache WITH
    Contents <- Data,
    cached <- Cached,
    putting <- holder

(* A key holds what the last accepted put gave it or nothing, although     *)
(* nodes move, the count is wrong and objects are evicted around it.       *)
ImplementsFrontlineCache == Abstract!Spec
===============================================================================
