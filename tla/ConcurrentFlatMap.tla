-------------------------- MODULE ConcurrentFlatMap --------------------------
(***************************************************************************)
(* common::concurrent_flat_map: a hash map cut into shards, each with a    *)
(* std::shared_mutex.  An operation on one key locks the shard of the key; *)
(* get_all and get_size lock all shards, one after the other, before they  *)
(* visit them one by one.  Two members of the data store are such maps:    *)
(* the containers of an index bucket and the approved references of an     *)
(* engine.  A call keeps the entries it saw: get answers with the value in *)
(* them, exists and erase with whether there are any, get_size with their  *)
(* number, get_all with all of them.                                       *)
(***************************************************************************)
EXTENDS Integers, FiniteSets

CONSTANTS
    Keys, Values,
    NoValue,    \* std::nullopt
    Threads,    \* threads that share the map
    NumShards,  \* num_map_shards_
    ShardOf     \* the hash of a key, modulo num_map_shards_

Shards == 0 .. NumShards - 1

ASSUME KeysAssumption == Keys # {}
ASSUME NumShardsAssumption == NumShards \in Nat \ {0}
ASSUME ShardOfAssumption == ShardOf \in [Keys -> Shards]
ASSUME NoValueAssumption == NoValue \notin Values

VARIABLES
    table,      \* flat_hash_map_ of all shards: the value of a key, or NoValue
    shared,     \* threads that hold lock_ of a shard in shared mode
    exclusive,  \* ... and in exclusive mode
    call        \* the operation a thread is in

mapVars == <<table, shared, exclusive, call>>

SingleKey == {"insert", "get", "exists", "erase"}
Modifying == {"insert", "erase"}
WholeMap == {"get_all", "get_size"}
Entry == Keys \X Values
NotCalled == [op |-> "none", pc |-> "idle"]
Calls ==
    [op : SingleKey, pc : {"lock", "execute", "unlock", "done"}, key : Keys,
     value : Values, shard : {0}, seen : SUBSET Entry] \cup
    [op : WholeMap, pc : {"lock", "execute", "unlock", "done"}, key : Keys,
     value : Values, shard : Shards, seen : SUBSET Entry]

MapTypeOK ==
    /\ table \in [Keys -> Values \cup {NoValue}]
    /\ shared \in [Shards -> SUBSET Threads]
    /\ exclusive \in [Shards -> SUBSET Threads]
    /\ call \in [Threads -> Calls \cup {NotCalled}]

MapInit ==
    /\ table = [k \in Keys |-> NoValue]
    /\ shared = [s \in Shards |-> {}] /\ exclusive = [s \in Shards |-> {}]
    /\ call = [t \in Threads |-> NotCalled]

Present == {k \in Keys : table[k] # NoValue}
EntriesOf(ks) == {<<k, table[k]>> : k \in ks \cap Present}
ShardKeys(s) == {k \in Keys : ShardOf[k] = s}

-------------------------------------------------------------------------------
Begin(t, op, k, v) ==
    /\ call[t] = NotCalled
    /\ call' = [call EXCEPT ![t] = [op |-> op, pc |-> "lock", key |-> k, value |-> v,
                                    shard |-> 0, seen |-> {}]]
    /\ UNCHANGED <<table, shared, exclusive>>

LockExclusive(t, s) ==
    /\ shared[s] = {} /\ exclusive[s] = {}
    /\ exclusive' = [exclusive EXCEPT ![s] = {t}]
    /\ UNCHANGED shared

LockShared(t, s) ==
    /\ exclusive[s] = {}
    /\ shared' = [shared EXCEPT ![s] = @ \cup {t}]
    /\ UNCHANGED exclusive

(* Mutant: a writer takes the lock of its shard in shared mode. *)
LockShardOfKeyShared(t) ==
    /\ call[t].pc = "lock" /\ call[t].op \in SingleKey
    /\ LockShared(t, ShardOf[call[t].key])
    /\ call' = [call EXCEPT ![t].pc = "execute"]
    /\ UNCHANGED table

LockShardOfKey(t) ==
    /\ call[t].pc = "lock" /\ call[t].op \in SingleKey
    /\ IF call[t].op \in Modifying
       THEN LockExclusive(t, ShardOf[call[t].key])
       ELSE LockShared(t, ShardOf[call[t].key])
    /\ call' = [call EXCEPT ![t].pc = "execute"]
    /\ UNCHANGED table

(* Mutant: the shards are visited while others are not locked yet. *)
LockFirstShardOnly(t) ==
    /\ call[t].pc = "lock" /\ call[t].op \in WholeMap
    /\ LockShared(t, call[t].shard)
    /\ call' = [call EXCEPT ![t].pc = "execute"]
    /\ UNCHANGED table

LockNextShard(t) ==
    /\ call[t].pc = "lock" /\ call[t].op \in WholeMap
    /\ LockShared(t, call[t].shard)
    /\ call' = IF call[t].shard + 1 \in Shards
               THEN [call EXCEPT ![t].shard = @ + 1]
               ELSE [call EXCEPT ![t].pc = "execute", ![t].shard = 0]
    /\ UNCHANGED table

Execute(t) ==
    /\ call[t].pc = "execute" /\ call[t].op \in SingleKey
    /\ table' = [table EXCEPT ![call[t].key] =
                    CASE call[t].op = "insert" -> call[t].value
                      [] call[t].op = "erase" -> NoValue
                      [] OTHER -> @]
    /\ call' = [call EXCEPT ![t].pc = "unlock",
                            ![t].seen = IF call[t].op = "insert" THEN {} ELSE EntriesOf({call[t].key})]
    /\ UNCHANGED <<shared, exclusive>>

VisitNextShard(t) ==
    /\ call[t].pc = "execute" /\ call[t].op \in WholeMap
    /\ call' = IF call[t].shard + 1 \in Shards
               THEN [call EXCEPT ![t].shard = @ + 1,
                                 ![t].seen = @ \cup EntriesOf(ShardKeys(call[t].shard))]
               ELSE [call EXCEPT ![t].pc = "unlock", ![t].shard = 0,
                                 ![t].seen = @ \cup EntriesOf(ShardKeys(call[t].shard))]
    /\ UNCHANGED <<table, shared, exclusive>>

HeldBy(t) == {s \in Shards : t \in shared[s] \cup exclusive[s]}

(* Mutant: only the first of the locks is given back. *)
UnlockFirst(t, s) ==
    /\ call[t].pc = "unlock"
    /\ s \in HeldBy(t) /\ \A r \in HeldBy(t) : s <= r
    /\ shared' = [shared EXCEPT ![s] = @ \ {t}]
    /\ exclusive' = [exclusive EXCEPT ![s] = @ \ {t}]
    /\ call' = [call EXCEPT ![t].pc = "done"]
    /\ UNCHANGED table

(* The destructors release the locks at the end, from the first to the last. *)
Unlock(t, s) ==
    /\ call[t].pc = "unlock"
    /\ s \in HeldBy(t) /\ \A r \in HeldBy(t) : s <= r
    /\ shared' = [shared EXCEPT ![s] = @ \ {t}]
    /\ exclusive' = [exclusive EXCEPT ![s] = @ \ {t}]
    /\ call' = IF HeldBy(t) = {s} THEN [call EXCEPT ![t].pc = "done"] ELSE call
    /\ UNCHANGED table

Return(t) ==
    /\ call[t].pc = "done"
    /\ call' = [call EXCEPT ![t] = NotCalled]
    /\ UNCHANGED <<table, shared, exclusive>>

(* A step inside an operation of the map. *)
MapStep(t) ==
    \/ LockShardOfKey(t) \/ LockNextShard(t)
    \/ Execute(t) \/ VisitNextShard(t)
    \/ \E s \in Shards : Unlock(t, s)

MapNext ==
    \E t \in Threads :
        \/ \E op \in SingleKey \cup WholeMap, k \in Keys, v \in Values : Begin(t, op, k, v)
        \/ MapStep(t)
        \/ Return(t)

MapSpec == MapInit /\ [][MapNext]_mapVars

-------------------------------------------------------------------------------
(* A call that visits the map has seen, of the shards behind it, exactly    *)
(* what they hold now, though other threads go on inserting and erasing:   *)
(* the shards wait for it until the last one has been visited.             *)
SnapshotIsConsistent ==
    \A t \in Threads : call[t].op \in WholeMap /\ call[t].pc = "execute" =>
        call[t].seen = EntriesOf({k \in Keys : ShardOf[k] < call[t].shard})

(* The shard whose lock a thread waits for. *)
Wanted(t) == IF call[t].op \in WholeMap THEN call[t].shard ELSE ShardOf[call[t].key]

(* Threads never wait for each other in a circle: whoever holds a lock      *)
(* somebody waits for is in an operation, and has all locks it needs or     *)
(* waits for one of a later shard.                                         *)
WaitsAreNotCyclic ==
    \A t \in Threads : call[t].pc = "lock" =>
        \A u \in shared[Wanted(t)] \cup exclusive[Wanted(t)] :
            \/ call[u].pc \in {"execute", "unlock"}
            \/ call[u].pc = "lock" /\ Wanted(t) < Wanted(u)

(* An operation on one key takes effect under the lock of its shard; one on *)
(* the whole map when it has the last of the locks.                        *)
HasTakenEffect(t) ==
    \/ call[t].pc \in {"unlock", "done"}
    \/ call[t].pc = "execute" /\ call[t].op \in WholeMap

AbstractCall(t) ==
    IF call[t] = NotCalled THEN [state |-> "idle"]
    ELSE IF HasTakenEffect(t)
    THEN [state |-> "applied", op |-> call[t].op, key |-> call[t].key, value |-> call[t].value,
          seen |-> IF call[t].pc = "execute" THEN EntriesOf(Keys) ELSE call[t].seen]
    ELSE [state |-> "invoked", op |-> call[t].op, key |-> call[t].key, value |-> call[t].value]

Atomic == INSTANCE AtomicMap WITH
    content <- table,
    calls <- [t \in Threads |-> AbstractCall(t)]

(* Every operation of the map is atomic, the copy of the whole map also:    *)
(* what it returns is what the map held at one instant during the call.    *)
ImplementsAtomicMap == Atomic!Spec
===============================================================================
