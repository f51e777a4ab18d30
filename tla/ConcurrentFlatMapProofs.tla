----------------------- MODULE ConcurrentFlatMapProofs -----------------------
(* Proofs about ConcurrentFlatMap for every value of its constants: the     *)
(* locks make every operation atomic, the copy of the whole map also.      *)
EXTENDS ConcurrentFlatMap, TLAPS

-------------------------------------------------------------------------------
(* The inductive invariant. *)

(* A shard has one writer, or readers. *)
LocksExclude ==
    \A s \in Shards :
        /\ exclusive[s] = {} \/ shared[s] = {}
        /\ \A t, u \in exclusive[s] : t = u

(* A thread holds the lock of the key it works on; one that copies the map  *)
(* holds the locks of the shards it has come past, and in the end all.     *)
LocksAreHeld ==
    \A t \in Threads :
        /\ call[t].pc = "execute" /\ call[t].op \in Modifying => t \in exclusive[ShardOf[call[t].key]]
        /\ call[t].pc = "execute" /\ call[t].op \in SingleKey \ Modifying => t \in shared[ShardOf[call[t].key]]
        /\ call[t].pc = "lock" /\ call[t].op \in WholeMap =>
              \A s \in Shards : s < call[t].shard => t \in shared[s]
        /\ call[t].pc = "execute" /\ call[t].op \in WholeMap => \A s \in Shards : t \in shared[s]

(* A thread that waits for locks has seen nothing. *)
LocksComeFirst == \A t \in Threads : call[t].pc = "lock" => call[t].seen = {}

MapInv == MapTypeOK /\ LocksExclude /\ LocksAreHeld /\ LocksComeFirst /\ SnapshotIsConsistent

-------------------------------------------------------------------------------
(* Types. *)

(* Shards are numbered from zero, and every key has one. *)
LEMMA ShardNumbers ==
    /\ 0 \in Shards
    /\ Shards \subseteq Nat
    /\ \A k \in Keys : ShardOf[k] \in Shards
    /\ \A s \in Shards : s + 1 \notin Shards => \A r \in Shards : r < s + 1
    /\ \A s \in Shards : \A r \in Shards : r < s + 1 <=> r < s \/ r = s
BY NumShardsAssumption, ShardOfAssumption DEF Shards

(* No shard comes before the first. *)
LEMMA NoShardBefore ==
    /\ \A s \in Shards : ~ (s < 0)
    /\ {k \in Keys : ShardOf[k] < 0} = {}
BY ShardNumbers DEF Shards

(* What the kinds of operations have in common. *)
LEMMA Operations ==
    /\ SingleKey \cap WholeMap = {} /\ Modifying \subseteq SingleKey
    /\ Modifying = {"insert", "erase"}
BY DEF SingleKey, WholeMap, Modifying

(* What a thread that is in a call has. *)
LEMMA CallType ==
    ASSUME MapTypeOK, NEW t \in Threads
    PROVE  \/ call[t] = NotCalled /\ call[t].pc = "idle" /\ call[t].op \notin SingleKey \cup WholeMap
           \/ /\ call[t] \in Calls /\ call[t] # NotCalled
              /\ call[t].pc \in {"lock", "execute", "unlock", "done"}
              /\ call[t].op \in SingleKey \cup WholeMap
              /\ call[t].key \in Keys /\ call[t].value \in Values
              /\ call[t].shard \in Shards
              /\ call[t].seen \subseteq Entry
              /\ call[t].op \in SingleKey => call[t].shard = 0
BY ShardNumbers DEF MapTypeOK, Calls, NotCalled, SingleKey, WholeMap

(* The changes a step makes to a call keep its type. *)
LEMMA CallUpdates ==
    ASSUME MapTypeOK, NEW t \in Threads, call[t] # NotCalled
    PROVE  /\ \A pc \in {"lock", "execute", "unlock", "done"} :
                 /\ [call[t] EXCEPT !.pc = pc] \in Calls
                 /\ [call[t] EXCEPT !.pc = pc, !.shard = 0] \in Calls
                 /\ \A e \in SUBSET Entry :
                       /\ [call[t] EXCEPT !.pc = pc, !.seen = e] \in Calls
                       /\ [call[t] EXCEPT !.pc = pc, !.shard = 0, !.seen = e] \in Calls
           /\ call[t].op \in WholeMap => \A s \in Shards, e \in SUBSET Entry :
                 /\ [call[t] EXCEPT !.shard = s] \in Calls
                 /\ [call[t] EXCEPT !.shard = s, !.seen = e] \in Calls
<1>1. call[t] \in Calls /\ call[t].seen \subseteq Entry
    BY CallType
<1>2. ASSUME NEW pc \in {"lock", "execute", "unlock", "done"}
      PROVE  [call[t] EXCEPT !.pc = pc] \in Calls /\ [call[t] EXCEPT !.pc = pc, !.shard = 0] \in Calls
    BY <1>1, ShardNumbers DEF Calls
<1>3. ASSUME NEW pc \in {"lock", "execute", "unlock", "done"}, NEW e \in SUBSET Entry
      PROVE  /\ [call[t] EXCEPT !.pc = pc, !.seen = e] \in Calls
             /\ [call[t] EXCEPT !.pc = pc, !.shard = 0, !.seen = e] \in Calls
    BY <1>1, ShardNumbers DEF Calls
<1>4. ASSUME call[t].op \in WholeMap, NEW s \in Shards, NEW e \in SUBSET Entry
      PROVE  [call[t] EXCEPT !.shard = s] \in Calls /\ [call[t] EXCEPT !.shard = s, !.seen = e] \in Calls
    BY <1>1, <1>4, Operations DEF Calls
<1> QED
    BY <1>2, <1>3, <1>4

(* What a call can see are entries. *)
LEMMA EntriesType == MapTypeOK => \A ks : EntriesOf(ks) \subseteq Entry
BY NoValueAssumption DEF MapTypeOK, EntriesOf, Present, Entry

(* An empty map has the right type. *)
LEMMA MapTypeInit == MapInit => MapTypeOK
BY DEF MapInit, MapTypeOK, NotCalled

(* Invocations and returns. *)
LEMMA MapTypeCalls ==
    ASSUME MapTypeOK, NEW t \in Threads,
           \/ Return(t)
           \/ \E op \in SingleKey \cup WholeMap, k \in Keys, v \in Values : Begin(t, op, k, v)
    PROVE  MapTypeOK'
<1>1. CASE Return(t)
    BY <1>1 DEF Return, MapTypeOK
<1>2. ASSUME NEW op \in SingleKey \cup WholeMap, NEW k \in Keys, NEW v \in Values, Begin(t, op, k, v)
      PROVE  MapTypeOK'
  <2>1. [op |-> op, pc |-> "lock", key |-> k, value |-> v, shard |-> 0, seen |-> {}] \in Calls
    BY ShardNumbers DEF Calls
  <2> QED
    BY <1>2, <2>1 DEF Begin, MapTypeOK
<1> QED
    BY <1>1, <1>2

(* A step inside an operation keeps the types. *)
LEMMA MapTypeSteps == ASSUME MapTypeOK, NEW t \in Threads, MapStep(t) PROVE MapTypeOK'
<1>1. CASE LockShardOfKey(t)
  <2>1. call[t] # NotCalled
    BY <1>1 DEF LockShardOfKey, NotCalled
  <2>2. ShardOf[call[t].key] \in Shards
    BY <2>1, CallType, ShardNumbers
  <2>3. [call[t] EXCEPT !.pc = "execute"] \in Calls
    BY <2>1, CallUpdates
  <2> QED
    BY <1>1, <2>2, <2>3 DEF LockShardOfKey, LockShared, LockExclusive, MapTypeOK
<1>2. CASE LockNextShard(t)
  <2>1. call[t] # NotCalled /\ call[t].op \in WholeMap
    BY <1>2 DEF LockNextShard, NotCalled
  <2>2. call[t].shard \in Shards
    BY <2>1, CallType
  <2>3. /\ [call[t] EXCEPT !.pc = "execute", !.shard = 0] \in Calls
        /\ call[t].shard + 1 \in Shards => [call[t] EXCEPT !.shard = call[t].shard + 1] \in Calls
    BY <2>1, CallUpdates
  <2> QED
    BY <1>2, <2>2, <2>3 DEF LockNextShard, LockShared, MapTypeOK
<1>3. CASE Execute(t)
  <2>1. call[t] # NotCalled
    BY <1>3 DEF Execute, NotCalled
  <2>2. \A e \in SUBSET Entry : [call[t] EXCEPT !.pc = "unlock", !.seen = e] \in Calls
    BY <2>1, CallUpdates
  <2>3. EntriesOf({call[t].key}) \in SUBSET Entry /\ {} \in SUBSET Entry
    BY EntriesType
  <2>4. table' \in [Keys -> Values \cup {NoValue}]
    BY <1>3, <2>1, CallType DEF Execute, MapTypeOK
  <2> QED
    BY <1>3, <2>2, <2>3, <2>4 DEF Execute, MapTypeOK
<1>4. CASE VisitNextShard(t)
  <2>1. call[t] # NotCalled /\ call[t].op \in WholeMap
    BY <1>4 DEF VisitNextShard, NotCalled
  <2>2. call[t].seen \cup EntriesOf(ShardKeys(call[t].shard)) \in SUBSET Entry
    BY <2>1, CallType, EntriesType
  <2>3. \A e \in SUBSET Entry :
            /\ [call[t] EXCEPT !.pc = "unlock", !.shard = 0, !.seen = e] \in Calls
            /\ call[t].shard + 1 \in Shards => [call[t] EXCEPT !.shard = call[t].shard + 1, !.seen = e] \in Calls
    BY <2>1, CallUpdates
  <2> QED
    BY <1>4, <2>2, <2>3 DEF VisitNextShard, MapTypeOK
<1>5. ASSUME NEW s \in Shards, Unlock(t, s) PROVE MapTypeOK'
  <2>1. call[t] # NotCalled
    BY <1>5 DEF Unlock, NotCalled
  <2>2. [call[t] EXCEPT !.pc = "done"] \in Calls
    BY <2>1, CallUpdates
  <2> QED
    BY <1>5, <2>2 DEF Unlock, MapTypeOK
<1> QED
    BY <1>1, <1>2, <1>3, <1>4, <1>5 DEF MapStep

-------------------------------------------------------------------------------
(* The invariant. *)

(* An empty map with no locks held satisfies the invariant. *)
LEMMA MapInvInit == MapInit => MapInv
BY MapTypeInit DEF MapInit, MapInv, LocksExclude, LocksAreHeld, LocksComeFirst, SnapshotIsConsistent, NotCalled, WholeMap, SingleKey

(* An invocation has no locks yet, and a return has none left. *)
LEMMA MapInvCalls ==
    ASSUME MapInv, NEW t \in Threads,
           \/ Return(t)
           \/ \E op \in SingleKey \cup WholeMap, k \in Keys, v \in Values : Begin(t, op, k, v)
    PROVE  MapInv'
<1>1. MapTypeOK /\ MapTypeOK'
    BY MapTypeCalls DEF MapInv
<1>2. UNCHANGED <<table, shared, exclusive>>
    BY DEF Return, Begin
<1>3. /\ \A u \in Threads : u # t => call'[u] = call[u]
      /\ call'[t].pc # "execute"
      /\ call'[t].pc = "lock" => call'[t].shard = 0 /\ call'[t].seen = {}
    BY <1>1 DEF Return, Begin, MapTypeOK, NotCalled
<1>4. LocksExclude'
    BY <1>2 DEF MapInv, LocksExclude
<1>5. LocksAreHeld'
  <2>1. ASSUME NEW u \in Threads, u # t PROVE LocksAreHeld!(u)'
    BY <1>2, <1>3, <2>1 DEF MapInv, LocksAreHeld
  <2>2. LocksAreHeld!(t)'
    BY <1>3, NoShardBefore
  <2> QED
    BY <2>1, <2>2 DEF LocksAreHeld
<1>6. SnapshotIsConsistent'
    BY <1>2, <1>3 DEF MapInv, SnapshotIsConsistent, EntriesOf, Present
<1>7. LocksComeFirst'
    BY <1>3 DEF MapInv, LocksComeFirst
<1> QED
    BY <1>1, <1>4, <1>5, <1>6, <1>7 DEF MapInv

(* Nobody changes the map while a thread visits it. *)
LEMMA NobodyWritesDuringVisit ==
    ASSUME MapInv, NEW t \in Threads, Execute(t), NEW u \in Threads,
           call[u].op \in WholeMap, call[u].pc = "execute"
    PROVE  UNCHANGED table
<1>1. CASE call[t].op \in Modifying
  <2>1. ShardOf[call[t].key] \in Shards
    BY <1>1, CallType, ShardNumbers DEF Execute, NotCalled, MapInv
  <2>2. t \in exclusive[ShardOf[call[t].key]]
    BY <1>1 DEF Execute, MapInv, LocksAreHeld
  <2>3. u \in shared[ShardOf[call[t].key]]
    BY <2>1 DEF MapInv, LocksAreHeld
  <2> QED
    BY <2>1, <2>2, <2>3 DEF MapInv, LocksExclude
<1>2. CASE call[t].op \notin Modifying
    BY <1>2 DEF Execute, Modifying, MapInv, MapTypeOK
<1> QED
    BY <1>1, <1>2

(* A step inside an operation keeps the locks exclusive and every           *)
(* visit consistent.                                                        *)
LEMMA MapInvSteps == ASSUME MapInv, NEW t \in Threads, MapStep(t) PROVE MapInv'
<1>t. MapTypeOK /\ MapTypeOK'
    BY MapTypeSteps DEF MapInv
<1> USE <1>t, ShardNumbers, Operations
<1>u. \A u \in Threads : u # t => call'[u] = call[u]
    BY DEF MapStep, LockShardOfKey, LockNextShard, Execute, VisitNextShard, Unlock, MapTypeOK
<1>v. LocksComeFirst'
    BY <1>u, CallType DEF MapInv, LocksComeFirst, MapStep, LockShardOfKey, LockNextShard, Execute, VisitNextShard, Unlock,
       MapTypeOK, Calls, NotCalled
<1> USE <1>v
<1>1. CASE LockShardOfKey(t)
  <2> DEFINE s == ShardOf[call[t].key]
  <2>1. s \in Shards /\ call[t].op \in SingleKey
    BY <1>1, CallType DEF LockShardOfKey, NotCalled
  <2>2. LocksExclude'
    BY <1>1, <2>1 DEF LockShardOfKey, LockShared, LockExclusive, MapInv, LocksExclude, MapTypeOK
  <2>3. /\ call'[t].pc = "execute" /\ call'[t].op = call[t].op /\ call'[t].key = call[t].key
        /\ \A r \in Shards : shared[r] \subseteq shared'[r] /\ exclusive[r] \subseteq exclusive'[r]
        /\ call[t].op \in Modifying => t \in exclusive'[s]
        /\ call[t].op \notin Modifying => t \in shared'[s]
    BY <1>1, <2>1, CallType DEF LockShardOfKey, LockShared, LockExclusive, MapTypeOK, Calls, NotCalled
  <2>4. LocksAreHeld'
    <3>1. ASSUME NEW u \in Threads, u # t PROVE LocksAreHeld!(u)'
      <4>1. LocksAreHeld!(u) /\ call'[u] = call[u]
        BY <1>u, <3>1 DEF MapInv, LocksAreHeld
      <4>2. call[u].pc = "execute" /\ call[u].op \in SingleKey => ShardOf[call[u].key] \in Shards
        BY CallType DEF NotCalled
      <4> QED
        BY <2>3, <4>1, <4>2
    <3>2. LocksAreHeld!(t)'
      BY <2>1, <2>3
    <3> QED
      BY <3>1, <3>2 DEF LocksAreHeld
  <2>5. SnapshotIsConsistent'
    BY <1>1, <1>u, <2>1, <2>3 DEF LockShardOfKey, MapInv, SnapshotIsConsistent, EntriesOf, Present
  <2> QED
    BY <2>2, <2>4, <2>5 DEF MapInv
<1>2. CASE LockNextShard(t)
  <2>1. call[t].shard \in Shards /\ call[t].op \in WholeMap /\ call[t] # NotCalled
    BY <1>2, CallType DEF LockNextShard, NotCalled
  <2>2. LocksExclude'
    BY <1>2, <2>1 DEF LockNextShard, LockShared, MapInv, LocksExclude, MapTypeOK
  <2>3. /\ \A r \in Shards : shared[r] \subseteq shared'[r] /\ exclusive'[r] = exclusive[r]
        /\ t \in shared'[call[t].shard]
        /\ call'[t].op = call[t].op /\ call'[t].seen = call[t].seen
        /\ \/ call'[t].pc = "lock" /\ call'[t].shard = call[t].shard + 1
           \/ call'[t].pc = "execute" /\ call'[t].shard = 0 /\ call[t].shard + 1 \notin Shards
    BY <1>2, <2>1, CallType DEF LockNextShard, LockShared, MapTypeOK, Calls
  <2>4. \A r \in Shards : r < call[t].shard \/ r = call[t].shard => t \in shared'[r]
    BY <1>2, <2>1, <2>3 DEF LockNextShard, MapInv, LocksAreHeld
  <2>5. call'[t].pc = "lock" => \A r \in Shards : r < call'[t].shard => t \in shared'[r]
    BY <2>1, <2>3, <2>4
  <2>6. call'[t].pc = "execute" => \A r \in Shards : t \in shared'[r]
    BY <2>1, <2>3, <2>4
  <2>7. LocksAreHeld'
    <3>1. ASSUME NEW u \in Threads, u # t PROVE LocksAreHeld!(u)'
        BY <1>u, <2>3, <3>1, CallType DEF MapInv, LocksAreHeld
    <3>2. LocksAreHeld!(t)'
        BY <2>1, <2>3, <2>5, <2>6
    <3> QED
        BY <3>1, <3>2 DEF LocksAreHeld
  <2>8. call'[t].pc = "execute" =>
            call'[t].seen = EntriesOf({k \in Keys : ShardOf[k] < call'[t].shard})
    <3>1. call'[t].seen = {}
        BY <1>2, <2>3 DEF LockNextShard, MapInv, LocksComeFirst
    <3>2. call'[t].pc = "execute" => {k \in Keys : ShardOf[k] < call'[t].shard} = {}
        BY <2>3, NoShardBefore
    <3> QED
        BY <3>1, <3>2 DEF EntriesOf
  <2>9. SnapshotIsConsistent'
    <3>1. table' = table
        BY <1>2 DEF LockNextShard
    <3>2. ASSUME NEW u \in Threads, u # t PROVE SnapshotIsConsistent!(u)'
        BY <1>u, <3>1, <3>2 DEF MapInv, SnapshotIsConsistent, EntriesOf, Present
    <3>3. SnapshotIsConsistent!(t)'
        BY <2>8, <3>1 DEF EntriesOf, Present
    <3> QED
        BY <3>2, <3>3 DEF SnapshotIsConsistent
  <2> QED
    BY <2>2, <2>7, <2>9 DEF MapInv
<1>3. CASE Execute(t)
  <2>1. UNCHANGED <<shared, exclusive>> /\ call'[t].pc = "unlock"
    BY <1>3 DEF Execute, MapTypeOK
  <2>2. LocksExclude'
    BY <2>1 DEF MapInv, LocksExclude
  <2>3. LocksAreHeld'
    BY <1>u, <2>1 DEF MapInv, LocksAreHeld
  <2>4. SnapshotIsConsistent'
    BY <1>3, <1>u, <2>1, NobodyWritesDuringVisit DEF MapInv, SnapshotIsConsistent, EntriesOf, Present
  <2> QED
    BY <2>2, <2>3, <2>4 DEF MapInv
<1>4. CASE VisitNextShard(t)
  <2>1. UNCHANGED <<table, shared, exclusive>> /\ call[t].op \in WholeMap /\ call[t].pc = "execute"
    BY <1>4 DEF VisitNextShard
  <2>2. LocksExclude'
    BY <2>1 DEF MapInv, LocksExclude
  <2>3. \/ call'[t].pc = "unlock"
        \/ /\ call'[t].pc = "execute" /\ call'[t].op = call[t].op
           /\ call'[t].shard = call[t].shard + 1
           /\ call'[t].seen = call[t].seen \cup EntriesOf(ShardKeys(call[t].shard))
    BY <1>4, CallType DEF VisitNextShard, MapTypeOK, Calls, NotCalled
  <2>4. LocksAreHeld'
    BY <1>u, <2>1, <2>3 DEF MapInv, LocksAreHeld
  <2>5. EntriesOf({k \in Keys : ShardOf[k] < call[t].shard + 1}) =
            EntriesOf({k \in Keys : ShardOf[k] < call[t].shard}) \cup EntriesOf(ShardKeys(call[t].shard))
    <3>1. call[t].shard \in Shards
        BY <2>1, CallType DEF NotCalled
    <3>2. {k \in Keys : ShardOf[k] < call[t].shard + 1} =
             {k \in Keys : ShardOf[k] < call[t].shard} \cup ShardKeys(call[t].shard)
        BY <3>1 DEF ShardKeys
    <3> QED
        BY <3>2 DEF EntriesOf
  <2>6. SnapshotIsConsistent'
    BY <1>u, <2>1, <2>3, <2>5 DEF MapInv, SnapshotIsConsistent, EntriesOf, Present
  <2> QED
    BY <2>2, <2>4, <2>6 DEF MapInv
<1>5. ASSUME NEW s \in Shards, Unlock(t, s) PROVE MapInv'
  <2>1. /\ call'[t].pc \in {"unlock", "done"}
        /\ table' = table
        /\ \A r \in Shards : shared'[r] \subseteq shared[r] /\ exclusive'[r] \subseteq exclusive[r]
        /\ \A r \in Shards, u \in Threads : u # t =>
              (u \in shared[r] => u \in shared'[r]) /\ (u \in exclusive[r] => u \in exclusive'[r])
    BY <1>5, CallType DEF Unlock, MapTypeOK, Calls, NotCalled
  <2>2. LocksExclude'
    BY <2>1 DEF MapInv, LocksExclude
  <2>3. LocksAreHeld'
    BY <1>u, <2>1, CallType DEF MapInv, LocksAreHeld
  <2>4. SnapshotIsConsistent'
    BY <1>u, <2>1 DEF MapInv, SnapshotIsConsistent, EntriesOf, Present
  <2> QED
    BY <2>2, <2>3, <2>4 DEF MapInv
<1> QED
    BY <1>1, <1>2, <1>3, <1>4, <1>5 DEF MapStep

(* The invariant is inductive. *)
LEMMA MapInvStep == MapInv /\ [MapNext]_mapVars => MapInv'
<1>1. MapInv /\ UNCHANGED mapVars => MapInv'
    BY DEF MapInv, MapTypeOK, LocksExclude, LocksAreHeld, LocksComeFirst, SnapshotIsConsistent, EntriesOf, Present, mapVars
<1> QED
    BY <1>1, MapInvCalls, MapInvSteps DEF MapNext

-------------------------------------------------------------------------------
(* Waiting. *)

(* The locks of a thread that waits for another one are of earlier shards,  *)
(* and a thread outside an operation has none.                             *)
HeldLocksAreBehind ==
    \A s \in Shards : \A u \in shared[s] \cup exclusive[s] :
        \/ call[u].pc \in {"execute", "unlock"}
        \/ call[u].pc = "lock" /\ call[u].op \in WholeMap /\ s < call[u].shard

WaitInv == MapTypeOK /\ HeldLocksAreBehind

(* Every step of the map keeps the order in which a thread takes its locks. *)
LEMMA WaitInvStep == WaitInv /\ [MapNext]_mapVars => WaitInv'
<1> SUFFICES ASSUME WaitInv, [MapNext]_mapVars PROVE WaitInv'
    OBVIOUS
<1> USE ShardNumbers, Operations DEF WaitInv
<1>1. ASSUME NEW t \in Threads, Return(t) PROVE HeldLocksAreBehind'
  <2>1. \A s \in Shards : t \notin shared[s] \cup exclusive[s]
    BY <1>1 DEF HeldLocksAreBehind, Return
  <2> QED
    BY <1>1, <2>1 DEF HeldLocksAreBehind, Return, MapTypeOK
<1>2. ASSUME NEW t \in Threads, NEW op \in SingleKey \cup WholeMap, NEW k \in Keys, NEW v \in Values,
             Begin(t, op, k, v)
      PROVE  HeldLocksAreBehind'
  <2>1. \A s \in Shards : t \notin shared[s] \cup exclusive[s]
    BY <1>2 DEF HeldLocksAreBehind, Begin, NotCalled
  <2> QED
    BY <1>2, <2>1 DEF HeldLocksAreBehind, Begin, MapTypeOK
<1>3. ASSUME NEW t \in Threads, LockShardOfKey(t) PROVE HeldLocksAreBehind'
  <2>1. call'[t].pc = "execute" /\ \A u \in Threads \ {t} : call'[u] = call[u]
    BY <1>3 DEF LockShardOfKey, MapTypeOK
  <2>2. \A s \in Shards : shared'[s] \cup exclusive'[s] \subseteq shared[s] \cup exclusive[s] \cup {t}
    BY <1>3 DEF LockShardOfKey, LockShared, LockExclusive, MapTypeOK
  <2> QED
    BY <2>1, <2>2 DEF HeldLocksAreBehind, MapTypeOK
<1>4. ASSUME NEW t \in Threads, LockNextShard(t) PROVE HeldLocksAreBehind'
  <2>1. call[t].shard \in Shards /\ call[t].op \in WholeMap /\ call[t].pc = "lock"
    BY <1>4, CallType DEF LockNextShard, NotCalled
  <2>2. /\ \A u \in Threads \ {t} : call'[u] = call[u]
        /\ \/ call'[t].pc = "execute"
           \/ call'[t].pc = "lock" /\ call'[t].op = call[t].op /\ call'[t].shard = call[t].shard + 1
    BY <1>4, <2>1, CallType DEF LockNextShard, MapTypeOK, Calls
  <2>3. /\ exclusive' = exclusive
        /\ \A s \in Shards : s # call[t].shard => shared'[s] = shared[s]
        /\ shared'[call[t].shard] = shared[call[t].shard] \cup {t}
    BY <1>4, <2>1 DEF LockNextShard, LockShared, MapTypeOK
  <2>4. ASSUME NEW s \in Shards, t \in shared'[s] \cup exclusive'[s] PROVE s < call[t].shard + 1
    BY <2>1, <2>3, <2>4 DEF HeldLocksAreBehind
  <2>5. \A s \in Shards : shared'[s] \cup exclusive'[s] \subseteq shared[s] \cup exclusive[s] \cup {t}
    BY <2>3
  <2> QED
    BY <2>1, <2>2, <2>4, <2>5 DEF HeldLocksAreBehind, MapTypeOK
<1>5. ASSUME NEW t \in Threads, Execute(t) \/ VisitNextShard(t) PROVE HeldLocksAreBehind'
  <2>1. call'[t].pc \in {"execute", "unlock"} /\ \A u \in Threads \ {t} : call'[u] = call[u]
    BY <1>5, CallType DEF Execute, VisitNextShard, MapTypeOK, Calls, NotCalled
  <2>2. UNCHANGED <<shared, exclusive>>
    BY <1>5 DEF Execute, VisitNextShard
  <2> QED
    BY <2>1, <2>2 DEF HeldLocksAreBehind, MapTypeOK
<1>6. ASSUME NEW t \in Threads, NEW s \in Shards, Unlock(t, s) PROVE HeldLocksAreBehind'
  <2>1. \A r \in Shards : shared'[r] \cup exclusive'[r] \subseteq shared[r] \cup exclusive[r]
    BY <1>6 DEF Unlock, MapTypeOK
  <2>2. CASE HeldBy(t) = {s}
    <3>1. \A r \in Shards : t \notin shared'[r] \cup exclusive'[r]
        BY <1>6, <2>2 DEF Unlock, HeldBy, MapTypeOK
    <3> QED
        BY <1>6, <2>1, <3>1 DEF Unlock, HeldLocksAreBehind, MapTypeOK
  <2>3. CASE HeldBy(t) # {s}
    BY <1>6, <2>1, <2>3 DEF Unlock, HeldLocksAreBehind
  <2> QED
    BY <2>2, <2>3
<1>7. ASSUME UNCHANGED mapVars PROVE HeldLocksAreBehind'
  <2>1. shared' = shared /\ exclusive' = exclusive /\ call' = call
    BY <1>7 DEF mapVars
  <2> QED
    BY <2>1 DEF HeldLocksAreBehind
<1>8. HeldLocksAreBehind'
    BY <1>1, <1>2, <1>3, <1>4, <1>5, <1>6, <1>7 DEF MapNext, MapStep
<1>9. MapTypeOK'
  <2>1. CASE UNCHANGED mapVars
    BY <2>1 DEF MapTypeOK, mapVars
  <2> QED
    BY <2>1, MapTypeCalls, MapTypeSteps DEF MapNext
<1> QED
    BY <1>8, <1>9

(* Threads never wait for each other in a circle. *)
THEOREM WaitsCorrect == MapSpec => []WaitsAreNotCyclic
<1>1. MapInit => WaitInv
    BY MapTypeInit DEF MapInit, WaitInv, HeldLocksAreBehind
<1>2. ASSUME WaitInv, NEW t \in Threads, call[t].pc = "lock"
      PROVE  /\ Wanted(t) \in Shards
             /\ \A u \in shared[Wanted(t)] \cup exclusive[Wanted(t)] :
                    \/ call[u].pc \in {"execute", "unlock"}
                    \/ call[u].pc = "lock" /\ Wanted(t) < Wanted(u)
  <2>1. Wanted(t) \in Shards
    BY <1>2, CallType, ShardNumbers DEF WaitInv, Wanted, NotCalled
  <2> QED
    BY <2>1, <1>2 DEF WaitInv, HeldLocksAreBehind, Wanted
<1>3. WaitInv => WaitsAreNotCyclic
    BY <1>2 DEF WaitsAreNotCyclic
<1> QED
    BY <1>1, <1>3, WaitInvStep, PTL DEF MapSpec

-------------------------------------------------------------------------------
(* Refinement. *)

AbstractCalls == [t \in Threads |-> AbstractCall(t)]

(* An empty map maps to an empty atomic map. *)
LEMMA AbstractInit == MapInit => Atomic!Init
BY DEF MapInit, Atomic!Init, Atomic!Idle, AbstractCall, NotCalled

(* Entries of the table are entries of the atomic map. *)
LEMMA AbstractEntries ==
    /\ Atomic!Entries = EntriesOf(Keys)
    /\ \A k \in Keys : {e \in Atomic!Entries : e[1] = k} = EntriesOf({k})
BY DEF Atomic!Entries, EntriesOf, Present

(* The abstract call of a thread that takes no step stays as it is, even if *)
(* another one writes: then it is not visiting the map.                    *)
LEMMA OtherCalls ==
    ASSUME MapInv, NEW t \in Threads, NEW u \in Threads, u # t,
           \/ MapStep(t) \/ Return(t)
           \/ \E op \in SingleKey \cup WholeMap, k \in Keys, v \in Values : Begin(t, op, k, v)
    PROVE  AbstractCall(u)' = AbstractCall(u)
<1>1. call'[u] = call[u]
    BY DEF MapInv, MapStep, LockShardOfKey, LockNextShard, Execute, VisitNextShard, Unlock, Return, Begin, MapTypeOK
<1>2. CASE table' = table
    BY <1>1, <1>2 DEF AbstractCall, HasTakenEffect, EntriesOf, Present
<1>3. CASE table' # table
  <2>1. Execute(t)
    BY <1>3 DEF MapStep, LockShardOfKey, LockNextShard, VisitNextShard, Unlock, Return, Begin
  <2>2. ~ (call[u].op \in WholeMap /\ call[u].pc = "execute")
    BY <2>1, <1>3, NobodyWritesDuringVisit
  <2> QED
    BY <1>1, <2>2, CallType DEF AbstractCall, HasTakenEffect, MapInv
<1> QED
    BY <1>2, <1>3

(* A step of a thread changes the abstract call of that thread only. *)
LEMMA AbstractUpdate ==
    ASSUME MapInv, NEW t \in Threads,
           \/ MapStep(t) \/ Return(t)
           \/ \E op \in SingleKey \cup WholeMap, k \in Keys, v \in Values : Begin(t, op, k, v)
    PROVE  AbstractCalls' = [AbstractCalls EXCEPT ![t] = AbstractCall(t)']
BY OtherCalls DEF AbstractCalls

(* An invocation is one, and so is a return. *)
LEMMA AbstractInvoke ==
    ASSUME MapInv, NEW t \in Threads, NEW op \in SingleKey \cup WholeMap, NEW k \in Keys, NEW v \in Values,
           Begin(t, op, k, v)
    PROVE  Atomic!Invoke(t, op, k, v)
<1>1. AbstractCall(t) = Atomic!Idle
    BY DEF Begin, AbstractCall, Atomic!Idle
<1>2. AbstractCall(t)' = Atomic!Invoked(op, k, v)
    BY DEF Begin, AbstractCall, HasTakenEffect, NotCalled, Atomic!Invoked, MapInv, MapTypeOK
<1> QED
    BY <1>1, <1>2, AbstractUpdate DEF Atomic!Invoke, Begin, AbstractCalls

(* A return is a return of the atomic map. *)
LEMMA AbstractReturn ==
    ASSUME MapInv, NEW t \in Threads, Return(t) PROVE Atomic!Return(t)
<1>1. AbstractCall(t).state = "applied"
    BY DEF Return, AbstractCall, HasTakenEffect, NotCalled
<1>2. AbstractCall(t)' = Atomic!Idle
    BY DEF Return, AbstractCall, NotCalled, Atomic!Idle, MapInv, MapTypeOK
<1> QED
    BY <1>1, <1>2, AbstractUpdate DEF Atomic!Return, Return, AbstractCalls

(* The step at which an operation takes effect: a call on one key as it is  *)
(* executed, a copy of the map as it gets the last lock.                   *)
LEMMA AbstractExecute ==
    ASSUME MapInv, NEW t \in Threads, Execute(t) PROVE Atomic!Apply(t)
<1>t. call[t] # NotCalled /\ call[t].op \in SingleKey /\ call[t].key \in Keys /\ call[t].pc = "execute"
    BY CallType DEF Execute, NotCalled, MapInv
<1>o. call[t].op \notin WholeMap
    BY <1>t, Operations
<1> DEFINE c == AbstractCall(t)
<1>1. c = [state |-> "invoked", op |-> call[t].op, key |-> call[t].key, value |-> call[t].value]
    BY <1>t, <1>o DEF AbstractCall, HasTakenEffect
<1>2. AbstractCall(t)' = Atomic!Applied(c, IF call[t].op = "insert" THEN {} ELSE EntriesOf({call[t].key}))
  <2>1. call'[t] = [call[t] EXCEPT !.pc = "unlock",
                        !.seen = IF call[t].op = "insert" THEN {} ELSE EntriesOf({call[t].key})]
    BY DEF Execute, MapInv, MapTypeOK
  <2>2. call[t] \in Calls
    BY <1>t, CallType DEF MapInv
  <2>3. /\ call'[t].op = call[t].op /\ call'[t].key = call[t].key /\ call'[t].value = call[t].value
        /\ call'[t].pc = "unlock" /\ call'[t] # NotCalled
        /\ call'[t].seen = IF call[t].op = "insert" THEN {} ELSE EntriesOf({call[t].key})
    BY <2>1, <2>2 DEF Calls, NotCalled
  <2> QED
    BY <1>1, <2>3 DEF AbstractCall, HasTakenEffect, Atomic!Applied
<1>3. AbstractCalls' = [AbstractCalls EXCEPT ![t] = AbstractCall(t)'] /\ AbstractCalls[t] = c
    BY AbstractUpdate DEF MapStep, AbstractCalls
<1>c. c.op = call[t].op /\ c.key = call[t].key /\ c.value = call[t].value /\ c.state = "invoked"
    BY <1>1
<1>4. {e \in Atomic!Entries : e[1] = c.key} = EntriesOf({call[t].key})
    BY <1>t, <1>c, AbstractEntries
<1>5. table' = [table EXCEPT ![call[t].key] =
                    CASE call[t].op = "insert" -> call[t].value
                      [] call[t].op = "erase" -> NoValue
                      [] OTHER -> @]
    BY DEF Execute
<1>6. CASE call[t].op = "insert"
  <2>1. table' = [table EXCEPT ![c.key] = c.value]
    BY <1>5, <1>6, <1>c
  <2> QED
    <3>1. AbstractCall(t)' = Atomic!Applied(c, {})
        BY <1>2, <1>6
    <3>2. Atomic!Insert(t, c)
        BY <1>c, <1>3, <1>6, <2>1, <3>1 DEF Atomic!Insert, AbstractCalls
    <3> QED
        BY <1>c, <1>3, <3>2 DEF Atomic!Apply, AbstractCalls
<1>7. CASE call[t].op = "erase"
  <2>1. table' = [table EXCEPT ![c.key] = NoValue]
    BY <1>5, <1>7, <1>c
  <2> QED
    <3>1. AbstractCall(t)' = Atomic!Applied(c, {e \in Atomic!Entries : e[1] = c.key})
        BY <1>2, <1>4, <1>7
    <3>2. Atomic!Erase(t, c)
        BY <1>c, <1>3, <1>7, <2>1, <3>1 DEF Atomic!Erase, AbstractCalls
    <3> QED
        BY <1>c, <1>3, <3>2 DEF Atomic!Apply, AbstractCalls
<1>8. CASE call[t].op \in {"get", "exists"}
  <2>1. table' = table
    BY <1>5, <1>8 DEF MapInv, MapTypeOK
  <2> QED
    <3>1. AbstractCall(t)' = Atomic!Applied(c, {e \in Atomic!Entries : e[1] = c.key})
        BY <1>2, <1>4, <1>8
    <3>2. Atomic!Lookup(t, c)
        BY <1>c, <1>3, <1>8, <2>1, <3>1 DEF Atomic!Lookup, AbstractCalls
    <3> QED
        BY <1>c, <1>3, <3>2 DEF Atomic!Apply, AbstractCalls
<1> QED
    BY <1>t, <1>6, <1>7, <1>8 DEF SingleKey

(* A call on the whole map takes effect with the last of its locks; with    *)
(* the others it stutters.                                                  *)
LEMMA AbstractSnapshot ==
    ASSUME MapInv, NEW t \in Threads, LockNextShard(t)
    PROVE  Atomic!Apply(t) \/ UNCHANGED <<table, AbstractCalls>>
<1>t. call[t] # NotCalled /\ call[t].op \in WholeMap /\ call[t].pc = "lock" /\ call[t] \in Calls
    BY CallType DEF LockNextShard, NotCalled, MapInv
<1> DEFINE c == AbstractCall(t)
<1>1. c = [state |-> "invoked", op |-> call[t].op, key |-> call[t].key, value |-> call[t].value]
    BY <1>t DEF AbstractCall, HasTakenEffect
<1>2. AbstractCalls' = [AbstractCalls EXCEPT ![t] = AbstractCall(t)'] /\ AbstractCalls[t] = c
    BY AbstractUpdate DEF MapStep, AbstractCalls
<1>3. /\ call'[t].op = call[t].op /\ call'[t].key = call[t].key /\ call'[t].value = call[t].value
      /\ call'[t].pc \in {"lock", "execute"} /\ call'[t] # NotCalled
      /\ table' = table
    BY <1>t DEF LockNextShard, Calls, NotCalled, MapInv, MapTypeOK
<1>4. CASE call'[t].pc = "lock"
  <2>1. AbstractCall(t)' = c
    BY <1>1, <1>3, <1>4 DEF AbstractCall, HasTakenEffect
  <2> QED
    BY <1>2, <1>3, <2>1 DEF AbstractCalls
<1>5. CASE call'[t].pc = "execute"
  <2>1. AbstractCall(t)' = Atomic!Applied(c, EntriesOf(Keys))
    BY <1>t, <1>1, <1>3, <1>5 DEF AbstractCall, HasTakenEffect, Atomic!Applied, EntriesOf, Present
  <2> QED
    <3>1. Atomic!Snapshot(t, c)
        BY <1>t, <1>1, <1>2, <1>3, <2>1, AbstractEntries DEF Atomic!Snapshot, WholeMap, AbstractCalls
    <3> QED
        BY <1>1, <1>2, <3>1 DEF Atomic!Apply, AbstractCalls
<1> QED
    BY <1>3, <1>4, <1>5

(* The other steps are not seen from outside: what a thread has copied when *)
(* it comes to the last shard is the whole map.                            *)
LEMMA AbstractStutter ==
    ASSUME MapInv, NEW t \in Threads,
           LockShardOfKey(t) \/ VisitNextShard(t) \/ \E s \in Shards : Unlock(t, s)
    PROVE  UNCHANGED <<table, AbstractCalls>>
<1>1. AbstractCalls' = [AbstractCalls EXCEPT ![t] = AbstractCall(t)']
    BY AbstractUpdate DEF MapStep
<1>2. table' = table
    BY DEF LockShardOfKey, VisitNextShard, Unlock
<1>t. call[t] # NotCalled /\ call[t] \in Calls
    BY CallType DEF LockShardOfKey, VisitNextShard, Unlock, NotCalled, MapInv
<1>3. AbstractCall(t)' = AbstractCall(t)
  <2>1. CASE LockShardOfKey(t)
    <3>1. /\ call'[t].op = call[t].op /\ call'[t].key = call[t].key /\ call'[t].value = call[t].value
          /\ call'[t].pc = "execute" /\ call'[t] # NotCalled
          /\ call[t].pc = "lock" /\ call[t].op \notin WholeMap
        BY <2>1, <1>t, Operations DEF LockShardOfKey, Calls, NotCalled, MapInv, MapTypeOK
    <3> QED
        BY <1>t, <3>1 DEF AbstractCall, HasTakenEffect
  <2>2. CASE VisitNextShard(t)
    <3>1. /\ call'[t].op = call[t].op /\ call'[t].key = call[t].key /\ call'[t].value = call[t].value
          /\ call'[t] # NotCalled /\ call[t].pc = "execute" /\ call[t].op \in WholeMap
          /\ \/ call'[t].pc = "execute"
             \/ /\ call'[t].pc = "unlock" /\ call[t].shard + 1 \notin Shards
                /\ call'[t].seen = call[t].seen \cup EntriesOf(ShardKeys(call[t].shard))
        BY <2>2, <1>t DEF VisitNextShard, Calls, NotCalled, MapInv, MapTypeOK
    <3>2. call[t].seen = EntriesOf({k \in Keys : ShardOf[k] < call[t].shard})
        BY <3>1 DEF MapInv, SnapshotIsConsistent
    <3>3. call[t].shard \in Shards
        BY <1>t, CallType DEF MapInv
    <3>4. call[t].shard + 1 \notin Shards =>
            \A k \in Keys : ShardOf[k] < call[t].shard \/ ShardOf[k] = call[t].shard
        BY <3>3, ShardNumbers
    <3>5. call'[t].pc = "unlock" => call'[t].seen = EntriesOf(Keys)
        BY <3>1, <3>2, <3>4 DEF EntriesOf, ShardKeys
    <3> QED
        BY <1>t, <1>2, <3>1, <3>5 DEF AbstractCall, HasTakenEffect, EntriesOf, Present
  <2>3. ASSUME NEW s \in Shards, Unlock(t, s) PROVE AbstractCall(t)' = AbstractCall(t)
    <3>1. /\ call'[t].op = call[t].op /\ call'[t].key = call[t].key /\ call'[t].value = call[t].value
          /\ call'[t].seen = call[t].seen /\ call'[t] # NotCalled
          /\ call[t].pc = "unlock" /\ call'[t].pc \in {"unlock", "done"}
        BY <2>3, <1>t DEF Unlock, Calls, NotCalled, MapInv, MapTypeOK
    <3> QED
        BY <1>t, <3>1 DEF AbstractCall, HasTakenEffect
  <2> QED
    BY <2>1, <2>2, <2>3
<1> QED
    BY <1>1, <1>2, <1>3 DEF AbstractCalls

(* Every step of the map is one of the atomic map, or a stutter. *)
LEMMA AbstractStep == MapInv /\ [MapNext]_mapVars => [Atomic!Next]_<<table, AbstractCalls>>
<1> SUFFICES ASSUME MapInv, [MapNext]_mapVars PROVE [Atomic!Next]_<<table, AbstractCalls>>
    OBVIOUS
<1>1. ASSUME NEW t \in Threads, NEW op \in SingleKey \cup WholeMap, NEW k \in Keys, NEW v \in Values, Begin(t, op, k, v)
      PROVE  Atomic!Next
    BY <1>1, AbstractInvoke DEF Atomic!Next, Atomic!Operations, SingleKey, WholeMap
<1>2. ASSUME NEW t \in Threads, Return(t) PROVE Atomic!Next
    BY <1>2, AbstractReturn DEF Atomic!Next
<1>3. ASSUME NEW t \in Threads, MapStep(t) PROVE [Atomic!Next]_<<table, AbstractCalls>>
    BY <1>3, AbstractExecute, AbstractSnapshot, AbstractStutter DEF MapStep, Atomic!Next
<1>4. CASE UNCHANGED mapVars
    BY <1>4 DEF mapVars, AbstractCalls, AbstractCall, HasTakenEffect, EntriesOf, Present
<1> QED
    BY <1>1, <1>2, <1>3, <1>4 DEF MapNext

(* A copy of the map is one of its contents, for any number of threads,     *)
(* keys and shards.                                                        *)
THEOREM SnapshotCorrect == MapSpec => []SnapshotIsConsistent
<1>1. MapSpec => []MapInv
    BY MapInvInit, MapInvStep, PTL DEF MapSpec
<1> QED
    BY <1>1, PTL DEF MapInv

(* Every operation of concurrent_flat_map is atomic. *)
THEOREM MapCorrect == MapSpec => ImplementsAtomicMap
<1>1. MapSpec => []MapInv
    BY MapInvInit, MapInvStep, PTL DEF MapSpec
<1> QED
    BY <1>1, AbstractInit, AbstractStep, PTL DEF MapSpec, ImplementsAtomicMap, Atomic!Spec, AbstractCalls
===============================================================================
