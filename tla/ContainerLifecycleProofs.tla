----------------------- MODULE ContainerLifecycleProofs -----------------------
(* Proofs about ContainerLifecycle for every value of its constants.        *)
EXTENDS ContainerLifecycle, FiniteSetTheorems, SequenceTheorems, TLAPS

(* The initial values have the types of their variables. *)
LEMMA TypeInit == Init => TypeOK
BY  NumPartitionsAssumption, NumBucketsAssumption, BoundsAssumption
   DEF Init, TypeOK, SerializerStates, CollectorStates, Partitions, Buckets, NoHandles, NoObjects, EmptyIndex, NothingHeld,
       IdleSerializer, IdleCollector, Statuses

(* The request at the head of the queue, when there is one. *)
LEMMA TaskType == TypeOK /\ tasks # <<>> => Task \in Tasks /\ Task.name \in Names
<1> SUFFICES ASSUME TypeOK, tasks # <<>> PROVE Task \in Tasks /\ Task.name \in Names
    OBVIOUS
<1>1. tasks \in Seq(Tasks)
    BY DEF TypeOK
<1>2. Head(tasks) \in Tasks
    BY <1>1, HeadTailProperties
<1> QED
    BY <1>2 DEF Task, Tasks

(* get_container_existence_status returns one of the statuses. *)
LEMMA ExistenceType == \A n : ExistenceStatus(n) \in Statuses
BY DEF ExistenceStatus, Statuses

(* Requests, destructors and crashes keep the types. *)
LEMMA TypeRequests ==
    TypeOK /\ RequestStep => TypeOK'
<1> SUFFICES ASSUME TypeOK, RequestStep PROVE TypeOK'
    OBVIOUS
<1>1. ASSUME NEW t \in Tasks, ValidateRequest(t) PROVE TypeOK'
    BY <1>1 DEF TypeOK, ValidateRequest, disk, refs, table, bounds
<1>2. ASSUME NEW t \in admitted, EnqueueRequest(t) PROVE TypeOK'
    BY <1>2 DEF TypeOK, EnqueueRequest, disk, refs, table, bounds
<1>3. ASSUME NEW u \in Users, NEW n \in Names, AcquireContainer(u, n) PROVE TypeOK'
    BY <1>3 DEF TypeOK, AcquireContainer, disk, refs, table, requests, bounds
<1>4. ASSUME NEW u \in Users, ReleaseContainer(u) PROVE TypeOK'
    BY <1>4 DEF TypeOK, ReleaseContainer, disk, refs, table, requests, bounds
<1>5. ASSUME NEW o \in Objects, DestroyContainer(o) PROVE TypeOK'
    BY <1>5 DEF TypeOK, DestroyContainer, Closed, disk, requests, bounds
<1>6. ASSUME Crash PROVE TypeOK'
    BY <1>6, NumPartitionsAssumption, NumBucketsAssumption, BoundsAssumption
       DEF TypeOK, SerializerStates, CollectorStates, Crash, ProcessDies, disk, Partitions, Buckets, NoHandles, NoObjects,
           EmptyIndex, NothingHeld, IdleSerializer, IdleCollector, Statuses
<1> QED
    BY <1>1, <1>2, <1>3, <1>4, <1>5, <1>6 DEF RequestStep

(* Every step of the serializer thread keeps the types: each program        *)
(* counter finds the request and the container it works on.                *)
LEMMA TypeSerializer ==
    TypeOK /\ SerializerStep => TypeOK'
<1> SUFFICES ASSUME TypeOK, SerializerStep PROVE TypeOK'
    OBVIOUS
<1> USE NumPartitionsAssumption DEF disk, refs, table, requests, bounds
<1>r. \A s \in Statuses : Respond(s) => /\ serializer' \in SerializerStates
                                         /\ serializer'.pc # "idle"
    BY DEF Respond, SerializerStates, Partitions
<1>s. {"success", "container_creation_failed", "object_insertion_failed", "container_not_exists",
       "object_deletion_failed", "container_insertion_collision"} \subseteq Statuses
    BY DEF Statuses
<1>n. serializer.pc # "idle" => Task.name \in Names /\ tasks # <<>>
    BY TaskType DEF TypeOK
<1>c. serializer.pc \in CreationCounters =>
        /\ serializer.container \in Objects
        /\ serializer.container.name \in Names
        /\ \A c \in CreationCounters, p \in Partitions :
              /\ [serializer EXCEPT !.pc = c] \in SerializerStates
              /\ [serializer EXCEPT !.pc = c, !.partition = p] \in SerializerStates
              /\ [serializer EXCEPT !.partition = p] \in SerializerStates
        /\ [serializer EXCEPT !.pc = "approve"] \in SerializerStates
        /\ [serializer EXCEPT !.pc = "index"] \in SerializerStates
        /\ [serializer EXCEPT !.pc = "count"] \in SerializerStates
    BY DEF TypeOK, SerializerStates, CreationCounters, Objects
<1>u. serializer.pc \in {"idle", "unlink"} =>
        /\ \A c \in {"unlink", "mark"} : [serializer EXCEPT !.pc = c] \in SerializerStates
        /\ \A o \in Objects :
              [serializer EXCEPT !.pc = "create", !.container = o] \in SerializerStates
  <2> SUFFICES ASSUME serializer.pc \in {"idle", "unlink"} PROVE <1>u!2
    OBVIOUS
  <2>0. 0 \in Partitions
    BY DEF Partitions
  <2>1. serializer \in [pc : {"idle", "unlink", "mark", "respond"}, container : {NoContainer},
                        partition : {0}, status : Statuses]
    BY DEF TypeOK, SerializerStates, CreationCounters
  <2>2. \A c \in {"unlink", "mark"} : [serializer EXCEPT !.pc = c] \in SerializerStates
    BY <2>1 DEF SerializerStates
  <2>3. \A o \in Objects :
            [serializer EXCEPT !.pc = "create", !.container = o] \in SerializerStates
    BY <2>0, <2>1 DEF SerializerStates, CreationCounters
  <2> QED
    BY <2>2, <2>3
<1>p. serializer.pc = "create" => serializer.partition \in Partitions /\ 0 \in Partitions
    BY DEF TypeOK, SerializerStates, Partitions
<1>1. CASE BeginCreation
  <2>1. Task.name \in Names /\ tasks # <<>>
    BY <1>1, TaskType DEF BeginCreation, Serving
  <2>2. serializer' \in SerializerStates
    <3>1. \A a \in Addresses : [name |-> Task.name, address |-> a] \in Objects
        BY <2>1 DEF Objects
    <3>2. \/ Respond(ExistenceStatus(Task.name))
          \/ \E o \in Objects : serializer' = [serializer EXCEPT !.pc = "create", !.container = o]
        BY <1>1, <3>1 DEF BeginCreation
    <3>3. CASE Respond(ExistenceStatus(Task.name))
        BY <3>3, <1>r, ExistenceType
    <3>4. CASE \E o \in Objects : serializer' = [serializer EXCEPT !.pc = "create", !.container = o]
      <4>1. PICK o \in Objects : serializer' = [serializer EXCEPT !.pc = "create", !.container = o]
        BY <3>4
      <4>2. [serializer EXCEPT !.pc = "create", !.container = o] \in SerializerStates
        BY <1>1, <1>u DEF BeginCreation
      <4> QED
        BY <4>1, <4>2
    <3> QED
        BY <3>2, <3>3, <3>4
  <2> QED
    BY <1>1, <2>1, <2>2 DEF TypeOK, BeginCreation
<1>2. CASE CreateInstance
    BY <1>2, <1>n, <1>c, <1>p DEF TypeOK, CreateInstance, CreationCounters
<1>3. CASE FailCreateInstance
    BY <1>3, <1>r, <1>s, <1>n, BoundsAssumption DEF TypeOK, FailCreateInstance, EngineFails
<1>4. CASE PutMetadata
  <2>1. serializer' \in SerializerStates
    BY <1>4, <1>r, <1>s, <1>c DEF PutMetadata, CreationCounters
  <2>2. failures' \in 0 .. MaxFailures /\ crashes' = crashes
    BY <1>4, BoundsAssumption DEF TypeOK, PutMetadata, EngineFails
  <2>3. metadata' \in SUBSET Names /\ tasks # <<>>
    BY <1>4, <1>n DEF TypeOK, PutMetadata
  <2> QED
    BY <1>4, <2>1, <2>2, <2>3 DEF TypeOK, PutMetadata
<1>5. CASE ApproveReferences
  <2>1. serializer' \in SerializerStates /\ approved' \in SUBSET (Objects \X Partitions)
    BY <1>5, <1>c DEF TypeOK, ApproveReferences, CreationCounters
  <2> QED
    BY <1>5, <1>n, <2>1 DEF TypeOK, ApproveReferences
<1>6. CASE InsertIntoIndex
  <2>1. serializer' \in SerializerStates
    BY <1>6, <1>r, <1>s, <1>c DEF InsertIntoIndex, CreationCounters
  <2>2. serializer.container \in Objects
    BY <1>6, <1>c DEF InsertIntoIndex, CreationCounters
  <2>3. /\ objects' \in [Objects -> {"unallocated", "active", "deleted"}]
        /\ index' \in [Names -> Objects \cup {NoContainer}]
    BY <1>6, <2>2 DEF TypeOK, InsertIntoIndex
  <2> QED
    BY <1>6, <1>n, <2>1, <2>3 DEF TypeOK, InsertIntoIndex
<1>7. CASE CountContainer
    BY <1>7, <1>r, <1>s, <1>n DEF TypeOK, CountContainer
<1>8. CASE BeginRemoval
    BY <1>8, <1>r, <1>s, <1>u DEF TypeOK, BeginRemoval, Serving
<1>9. CASE DeleteMetadata
  <2>1. serializer' \in SerializerStates
    BY <1>9, <1>r, <1>s, <1>u DEF DeleteMetadata
  <2>2. failures' \in 0 .. MaxFailures /\ crashes' = crashes
    BY <1>9, BoundsAssumption DEF TypeOK, DeleteMetadata, EngineFails
  <2>3. metadata' \in SUBSET Names /\ tasks # <<>>
    BY <1>9, <1>n DEF TypeOK, DeleteMetadata
  <2> QED
    BY <1>9, <2>1, <2>2, <2>3 DEF TypeOK, DeleteMetadata
<1>10. CASE MarkAsDeleted
    BY <1>10, <1>r, <1>s, <1>n DEF TypeOK, MarkAsDeleted
<1>11. CASE SendResponse
    BY <1>11, <1>n DEF TypeOK, SendResponse, IdleSerializer, Statuses, SerializerStates, Partitions
<1> QED
    BY <1>1, <1>2, <1>3, <1>4, <1>5, <1>6, <1>7, <1>8, <1>9, <1>10, <1>11 DEF SerializerStep

(* Every step of the collector thread keeps the types: the partition it     *)
(* drops from and the bucket it scans exist.                               *)
LEMMA TypeCollector ==
    TypeOK /\ CollectorStep => TypeOK'
<1> SUFFICES ASSUME TypeOK, CollectorStep PROVE TypeOK'
    OBVIOUS
<1> USE NumPartitionsAssumption DEF disk, refs, table, requests, bounds
<1>c. gc.pc \in {"drop", "erase", "uncount"} =>
        /\ gc.container \in Objects /\ gc.container.name \in Names
        /\ gc.partition \in Partitions
        /\ gc \in [pc : {"drop", "erase", "uncount"}, container : Objects, partition : Partitions,
                   bucket : Buckets, held : SUBSET Objects, todo : SUBSET Objects]
    BY DEF TypeOK, CollectorStates, Objects
<1>d. gc.pc \in {"drop", "erase", "uncount"} =>
        /\ \A p \in Partitions : [gc EXCEPT !.partition = p] \in CollectorStates
        /\ [gc EXCEPT !.pc = "erase", !.partition = 0] \in CollectorStates
        /\ [gc EXCEPT !.pc = "uncount"] \in CollectorStates
        /\ [gc EXCEPT !.pc = "scan", !.container = NoContainer] \in CollectorStates
        /\ [gc EXCEPT !.pc = "scan", !.container = NoContainer, !.partition = 0]
              \in CollectorStates
  <2> SUFFICES ASSUME gc.pc \in {"drop", "erase", "uncount"} PROVE <1>d!2
    OBVIOUS
  <2>0. 0 \in Partitions
    BY DEF Partitions
  <2>1. \A p \in Partitions : [gc EXCEPT !.partition = p] \in CollectorStates
    BY <1>c DEF CollectorStates
  <2>2. [gc EXCEPT !.pc = "erase", !.partition = 0] \in CollectorStates
    BY <1>c, <2>0 DEF CollectorStates
  <2>3. [gc EXCEPT !.pc = "uncount"] \in CollectorStates
    BY <1>c DEF CollectorStates
  <2>4. [gc EXCEPT !.pc = "scan", !.container = NoContainer] \in CollectorStates
    BY <1>c DEF CollectorStates
  <2>5. [gc EXCEPT !.pc = "scan", !.container = NoContainer, !.partition = 0] \in CollectorStates
    BY <1>c, <2>0 DEF CollectorStates
  <2> QED
    BY <2>1, <2>2, <2>3, <2>4, <2>5
<1>1. CASE GCSnapshotBucket
  <2>1. {index[n] : n \in {m \in Names : BucketOf[m] = gc.bucket /\ index[m] # NoContainer}}
            \in SUBSET Objects
    BY DEF TypeOK
  <2>2. gc' \in CollectorStates
    BY <1>1, <2>1 DEF TypeOK, GCSnapshotBucket, CollectorStates
  <2> QED
    BY <1>1, <2>2 DEF TypeOK, GCSnapshotBucket
<1>2. ASSUME NEW o \in Objects, GCInspect(o) PROVE TypeOK'
  <2>1. gc' \in CollectorStates
    BY <1>2 DEF TypeOK, GCInspect, CollectorStates
  <2> QED
    BY <1>2, <2>1 DEF TypeOK, GCInspect
<1>3. CASE GCDropInstance
  <2>1. gc' \in CollectorStates
    BY <1>3, <1>c, <1>d DEF GCDropInstance
  <2> QED
    BY <1>3, <1>c, <1>d, <2>1 DEF TypeOK, GCDropInstance
<1>4. CASE GCFailDrop
  <2>1. gc' \in CollectorStates
    BY <1>4, <1>c, <1>d DEF GCFailDrop
  <2>2. failures' \in 0 .. MaxFailures /\ crashes' = crashes
    BY <1>4, BoundsAssumption DEF TypeOK, GCFailDrop, EngineFails
  <2> QED
    BY <1>4, <2>1, <2>2 DEF TypeOK, GCFailDrop
<1>5. CASE GCNullReference
    BY <1>5, NumBucketsAssumption
       DEF TypeOK, SerializerStates, CollectorStates, GCNullReference, ProcessDies, Partitions,
           Buckets, NoHandles, NoObjects, EmptyIndex, NothingHeld, IdleSerializer,
           IdleCollector, Statuses
<1>6. CASE GCEraseFromIndex
  <2>1. gc' \in CollectorStates
    BY <1>6, <1>c, <1>d DEF GCEraseFromIndex
  <2> QED
    BY <1>6, <1>c, <1>d, <2>1 DEF TypeOK, GCEraseFromIndex
<1>7. CASE GCUncount
  <2>1. gc' \in CollectorStates
    BY <1>7, <1>c, <1>d DEF GCUncount
  <2> QED
    BY <1>7, <2>1 DEF TypeOK, GCUncount
<1>8. CASE GCFinishBucket
  <2>1. (gc.bucket + 1) % NumBuckets \in Buckets
    <3>1. gc.bucket + 1 \in Int /\ NumBuckets \in Nat \ {0}
        BY NumBucketsAssumption DEF TypeOK, CollectorStates, Buckets
    <3>2. \A i \in Int, k \in Nat \ {0} : i % k \in 0 .. k - 1
        OBVIOUS
    <3> QED
        BY <3>1, <3>2 DEF Buckets
  <2>2. gc' \in CollectorStates
    BY <1>8, <2>1 DEF GCFinishBucket, IdleCollector, CollectorStates, Partitions
  <2> QED
    BY <1>8, <2>2 DEF TypeOK, GCFinishBucket
<1> QED
    BY <1>1, <1>2, <1>3, <1>4, <1>5, <1>6, <1>7, <1>8 DEF CollectorStep

(* A start-up gives every variable a value of its type, for as many         *)
(* containers as the disk may hold.                                        *)
LEMMA TypeStart ==
    TypeOK /\ Start => TypeOK'
<1> SUFFICES ASSUME TypeOK, Start PROVE TypeOK'
    OBVIOUS
<1> USE DEF disk, refs, table, requests, bounds
<1>1. CASE phase' = "halted"
    BY <1>1 DEF TypeOK, Start
<1>2. CASE phase' = "up"
  <2>1. Cardinality(metadata \cup Orphans) \in Nat
    <3>1. metadata \cup Orphans \subseteq Names
        BY DEF TypeOK, OnDisk, Orphans
    <3> QED
        BY <3>1, NamesAssumption, FS_Subset, FS_CardinalityType
  <2>2. PICK a \in Addresses :
            /\ index' = [n \in Names |-> IF n \in DOMAIN Loaded(a) THEN Loaded(a)[n] ELSE NoContainer]
            /\ objects' = [o \in Objects |->
                    IF o.name \notin DOMAIN Loaded(a) \/ o.address # a THEN "unallocated"
                    ELSE IF o.name \in metadata THEN "active" ELSE "deleted"]
            /\ handles' = [o \in Objects |-> [p \in Partitions |->
                    IF <<o, p>> \in Opened(a) THEN "open" ELSE "none"]]
            /\ approved' = Opened(a)
            /\ numberContainers' = Cardinality(DOMAIN Loaded(a))
    BY <1>2 DEF Start
  <2>3. index' \in [Names -> Objects \cup {NoContainer}]
    BY <2>2 DEF TypeOK, Loaded, OnDisk, Orphans, Objects
  <2>4. objects' \in [Objects -> {"unallocated", "active", "deleted"}]
    BY <2>2
  <2>5. handles' \in [Objects -> [Partitions -> {"none", "open", "dropped"}]]
    BY <2>2
  <2>6. approved' \in SUBSET (Objects \X Partitions)
    BY <2>2 DEF Opened
  <2>7. numberContainers' \in Int
    BY <2>1, <2>2 DEF Loaded
  <2> QED
    BY <1>2, <2>3, <2>4, <2>5, <2>6, <2>7 DEF TypeOK, Start
<1> QED
    BY <1>1, <1>2 DEF Start

(* Every variable keeps its type, and the locals of the two threads are     *)
(* what their program counters need: a request in service, a container.    *)
THEOREM TypeCorrect == Spec => []TypeOK
<1>1. TypeOK /\ [Next]_vars => TypeOK'
  <2> SUFFICES ASSUME TypeOK, [Next]_vars PROVE TypeOK'
    OBVIOUS
  <2>1. CASE UNCHANGED vars
    BY <2>1 DEF TypeOK, vars, disk, refs, table, requests, bounds
  <2> QED
    BY <2>1, TypeRequests, TypeSerializer, TypeCollector, TypeStart DEF Next
<1> QED
    BY TypeInit, <1>1, PTL DEF Spec

-------------------------------------------------------------------------------
(* The inductive invariant behind WellDefinedTransaction and               *)
(* CollectorErasesWhatItDropped.                                           *)

(* A creation finds its name free in the index until it inserts it, and    *)
(* has a column family on each partition it has passed.                    *)
CreationKeepsItsName ==
    serializer.pc \in {"create", "metadata", "approve", "index"} =>
        /\ serializer.container.name = Task.name
        /\ index[Task.name] = NoContainer
        /\ \A p \in Partitions :
              (serializer.pc = "create" => p < serializer.partition)
                => Task.name \in columnFamilies[p]

(* What is marked as deleted, or about to be, has left the metadata. *)
DeletedHasLeftMetadata ==
    /\ serializer.pc = "mark" => Task.name \notin metadata
    /\ \A n \in Names : index[n] # NoContainer /\ objects[index[n]] = "deleted"
                            => n \notin metadata

(* The collector works on objects that are still the indexed ones. *)
CollectorKeepsItsObjects ==
    /\ \A n \in Names : index[n] # NoContainer => index[n].name = n
    /\ \A o \in gc.todo : index[o.name] = o
    /\ gc.pc \in {"drop", "erase"} => gc.container \notin gc.todo
    /\ CollectorErasesWhatItDropped

(* Both threads start over when the process does. *)
ThreadsAreIdleWhenDown ==
    phase # "up" => /\ serializer.pc = "idle"
                    /\ gc.pc = "bucket" /\ gc.todo = {}

(* The inductive invariant. *)
DurableInv ==
    /\ TypeOK
    /\ WellDefinedTransaction
    /\ CreationKeepsItsName
    /\ DeletedHasLeftMetadata
    /\ CollectorKeepsItsObjects
    /\ ThreadsAreIdleWhenDown

(* An empty data store satisfies the inductive invariant. *)
LEMMA DurableInit == Init => DurableInv
BY TypeInit
   DEF Init, DurableInv, WellDefinedTransaction, CreationKeepsItsName, DeletedHasLeftMetadata,
       CollectorKeepsItsObjects, CollectorErasesWhatItDropped, ThreadsAreIdleWhenDown,
       EmptyIndex, IdleSerializer, IdleCollector

(* A request that joins a queue which is not empty leaves its head alone. *)
LEMMA TaskKept ==
    ASSUME TypeOK, NEW t \in Tasks, tasks' = Append(tasks, t), tasks # <<>>
    PROVE  Task' = Task
<1>1. tasks \in Seq(Tasks)
    BY DEF TypeOK
<1>2. Len(tasks) > 0
    BY <1>1, EmptySeq
<1>3. Append(tasks, t)[1] = tasks[1]
    BY <1>1, <1>2, AppendProperties
<1> QED
    BY <1>1, <1>3 DEF Task

(* When the process dies nothing but the disk is left of the invariant. *)
LEMMA DurableDeath ==
    ASSUME DurableInv, ProcessDies, TypeOK'
    PROVE  DurableInv'
BY DEF ProcessDies, disk, DurableInv, WellDefinedTransaction, CreationKeepsItsName,
       DeletedHasLeftMetadata, CollectorKeepsItsObjects, CollectorErasesWhatItDropped,
       ThreadsAreIdleWhenDown, EmptyIndex, IdleSerializer, IdleCollector

(* Requests, destructors and crashes keep the inductive invariant. *)
LEMMA DurableRequests ==
    DurableInv /\ RequestStep => DurableInv'
<1> SUFFICES ASSUME DurableInv, RequestStep PROVE DurableInv'
    OBVIOUS
<1>t. TypeOK'
    BY TypeRequests DEF DurableInv
<1> USE DEF DurableInv, WellDefinedTransaction, CreationKeepsItsName, DeletedHasLeftMetadata,
            CollectorKeepsItsObjects, CollectorErasesWhatItDropped, ThreadsAreIdleWhenDown,
            disk, refs, table, requests, bounds
<1>1. ASSUME NEW t \in Tasks, ValidateRequest(t) PROVE DurableInv'
    BY <1>t, <1>1 DEF ValidateRequest, Task
<1>2. ASSUME NEW t \in admitted, EnqueueRequest(t) PROVE DurableInv'
  <2>1. serializer.pc # "idle" => Task' = Task
    BY <1>2, TaskKept DEF TypeOK, EnqueueRequest
  <2> QED
    BY <1>t, <1>2, <2>1 DEF EnqueueRequest
<1>3. ASSUME NEW u \in Users, NEW n \in Names, AcquireContainer(u, n) PROVE DurableInv'
    BY <1>t, <1>3 DEF AcquireContainer, Task
<1>4. ASSUME NEW u \in Users, ReleaseContainer(u) PROVE DurableInv'
    BY <1>t, <1>4 DEF ReleaseContainer, Task
<1>5. ASSUME NEW o \in Objects, DestroyContainer(o) PROVE DurableInv'
  <2>1. \A n \in Names : index[n] # NoContainer => index[n] # o
    BY <1>5 DEF DestroyContainer, Referenced
  <2>2. gc.pc \in {"drop", "erase"} => gc.container # o
    BY <1>5 DEF DestroyContainer, Referenced
  <2>3. \A c \in Objects \ {o} : objects'[c] = objects[c]
    BY <1>5 DEF DestroyContainer, TypeOK
  <2> QED
    BY <1>t, <1>5, <2>1, <2>2, <2>3 DEF DestroyContainer, Task, TypeOK, CollectorStates
<1>6. CASE Crash
    BY <1>t, <1>6, DurableDeath DEF Crash
<1> QED
    BY <1>1, <1>2, <1>3, <1>4, <1>5, <1>6 DEF RequestStep

(* Every step of a creation or a removal keeps the inductive invariant,      *)
(* whatever the collector is doing at that moment.                         *)
LEMMA DurableSerializer ==
    DurableInv /\ SerializerStep => DurableInv'
<1> SUFFICES ASSUME DurableInv, SerializerStep PROVE DurableInv'
    OBVIOUS
<1>t. TypeOK'
    BY TypeSerializer DEF DurableInv
<1>u. phase = "up"
    BY DEF SerializerStep
<1> USE DEF DurableInv, WellDefinedTransaction, CreationKeepsItsName, DeletedHasLeftMetadata,
            CollectorKeepsItsObjects, CollectorErasesWhatItDropped, ThreadsAreIdleWhenDown,
            disk, refs, table, requests, bounds
<1>1. CASE BeginCreation
  <2>1. CASE Respond(ExistenceStatus(Task.name))
    BY <1>t, <1>u, <1>1, <2>1 DEF BeginCreation, Respond, Task
  <2>2. ASSUME NEW c \in Addresses,
               ExistenceStatus(Task.name) = "container_not_exists",
               serializer' = [serializer EXCEPT !.pc = "create",
                                   !.container = [name |-> Task.name, address |-> c]]
        PROVE  DurableInv'
    <3>1. /\ serializer'.pc = "create"
          /\ serializer'.container = [name |-> Task.name, address |-> c]
      BY <2>2 DEF TypeOK, SerializerStates
    <3>3. serializer'.partition = 0
      BY <1>1, <2>2 DEF BeginCreation, TypeOK, SerializerStates, CreationCounters
    <3>2. index[Task.name] = NoContainer
      BY <2>2 DEF ExistenceStatus
    <3>4. Task' = Task /\ index' = index /\ columnFamilies' = columnFamilies
      BY <1>1 DEF BeginCreation, Task
    <3>5. serializer'.container.name = Task.name
      BY <3>1
    <3>6. \A p \in Partitions : ~ p < 0
      BY DEF Partitions
    <3>7. CreationKeepsItsName'
      BY <3>2, <3>3, <3>4, <3>5, <3>6, <3>1
    <3> QED
      BY <1>t, <1>u, <1>1, <3>1, <3>7 DEF BeginCreation
  <2> QED
    BY <1>1, <2>1, <2>2 DEF BeginCreation
<1>2. CASE CreateInstance
  <2>1. /\ serializer.container \in Objects /\ serializer.partition \in Partitions
        /\ serializer.container.name = Task.name /\ Task' = Task
    BY <1>2 DEF CreateInstance, Task, TypeOK, SerializerStates, CreationCounters
  <2>2. /\ \A q \in Partitions : columnFamilies[q] \subseteq columnFamilies'[q]
        /\ Task.name \in columnFamilies'[serializer.partition]
    BY <1>2, <2>1 DEF CreateInstance, TypeOK
  <2>3. /\ serializer'.container = serializer.container
        /\ \/ serializer'.pc = "create" /\ serializer'.partition = serializer.partition + 1
           \/ serializer'.pc = "metadata" /\ serializer.partition + 1 \notin Partitions
    BY <1>2 DEF CreateInstance, TypeOK, SerializerStates, CreationCounters
  <2>4. CreationKeepsItsName'
    BY <1>2, <2>1, <2>2, <2>3, NumPartitionsAssumption DEF CreateInstance, Partitions
  <2>5. WellDefinedTransaction'
    BY <1>2, <1>u, <2>2 DEF CreateInstance
  <2> QED
    BY <1>t, <1>u, <1>2, <2>3, <2>4, <2>5 DEF CreateInstance
<1>3. CASE FailCreateInstance
    BY <1>t, <1>u, <1>3 DEF FailCreateInstance, Respond, Task
<1>4. CASE PutMetadata
  <2>1. CASE Respond("object_insertion_failed") /\ UNCHANGED metadata
    BY <1>t, <1>u, <1>4, <2>1 DEF PutMetadata, Respond, Task
  <2>2. CASE /\ metadata' = metadata \cup {Task.name}
             /\ serializer' = [serializer EXCEPT !.pc = "approve"]
    <3>1. serializer'.pc = "approve" /\ serializer'.container = serializer.container
      BY <1>4, <2>2 DEF PutMetadata, TypeOK, SerializerStates, CreationCounters
    <3>2. \A p \in Partitions : Task.name \in columnFamilies[p]
      BY <1>4 DEF PutMetadata
    <3>3. WellDefinedTransaction'
      BY <1>4, <1>u, <2>2, <3>2 DEF PutMetadata
    <3>4. CollectorKeepsItsObjects' /\ DeletedHasLeftMetadata'
      BY <1>4, <2>2, <3>1, NoContainerAssumption
         DEF PutMetadata, TypeOK, CollectorStates
    <3> QED
      BY <1>t, <1>u, <1>4, <3>1, <3>2, <3>3, <3>4 DEF PutMetadata, Task
  <2> QED
    BY <1>4, <2>1, <2>2 DEF PutMetadata
<1>5. CASE ApproveReferences
    BY <1>t, <1>u, <1>5 DEF ApproveReferences, Task, TypeOK, SerializerStates, CreationCounters
<1>6. CASE InsertIntoIndex
  <2>1. /\ serializer.container \in Objects /\ serializer.container.name \in Names
        /\ index[serializer.container.name] = NoContainer
        /\ \A n \in Names : index[n] # serializer.container
    BY <1>6, NoContainerAssumption
       DEF InsertIntoIndex, TypeOK, SerializerStates, CreationCounters, Objects
  <2>2. /\ serializer'.pc = "count"
        /\ index' = [index EXCEPT ![serializer.container.name] = serializer.container]
        /\ objects' = [objects EXCEPT ![serializer.container] = "active"]
    BY <1>6, <2>1 DEF InsertIntoIndex, TypeOK, SerializerStates, CreationCounters
  <2>3. /\ index'[serializer.container.name] = serializer.container
        /\ objects'[serializer.container] = "active"
        /\ \A n \in Names \ {serializer.container.name} : index'[n] = index[n]
        /\ \A o \in Objects \ {serializer.container} : objects'[o] = objects[o]
    BY <2>1, <2>2 DEF TypeOK
  <2>4. DeletedHasLeftMetadata'
    BY <1>6, <2>1, <2>2, <2>3 DEF InsertIntoIndex, TypeOK
  <2>5. CollectorKeepsItsObjects'
    <3>1. \A o \in gc.todo : o \in Objects /\ o.name \in Names /\ o # serializer.container
                                /\ o.name # serializer.container.name
      BY <2>1, NoContainerAssumption DEF TypeOK, CollectorStates, Objects
    <3>2. gc.pc \in {"drop", "erase"} =>
            /\ gc.container \in Objects /\ gc.container.name \in Names
            /\ gc.container # serializer.container
            /\ gc.container.name # serializer.container.name
      BY <2>1, NoContainerAssumption DEF TypeOK, CollectorStates, Objects
    <3> QED
      BY <1>6, <2>1, <2>2, <2>3, <3>1, <3>2 DEF InsertIntoIndex
  <2> QED
    BY <1>t, <1>u, <1>6, <2>2, <2>4, <2>5 DEF InsertIntoIndex
<1>7. CASE CountContainer
    BY <1>t, <1>u, <1>7 DEF CountContainer, Respond, Task
<1>8. CASE BeginRemoval
    BY <1>t, <1>u, <1>8 DEF BeginRemoval, Respond, Task, TypeOK, SerializerStates
<1>9. CASE DeleteMetadata
    BY <1>t, <1>u, <1>9 DEF DeleteMetadata, Respond, Task, TypeOK, SerializerStates
<1>10. CASE MarkAsDeleted
  <2>1. Task.name \in Names /\ Task.name \notin metadata
    BY <1>10, TaskType DEF MarkAsDeleted, TypeOK
  <2>2. serializer'.pc = "respond" /\ Task' = Task
    BY <1>10 DEF MarkAsDeleted, Respond, Task
  <2>3. \A o \in Objects : /\ objects[o] = "deleted" => objects'[o] = "deleted"
                          /\ objects'[o] = "deleted" =>
                                objects[o] = "deleted" \/ o = index[Task.name]
    BY <1>10 DEF MarkAsDeleted, TypeOK
  <2>4. DeletedHasLeftMetadata'
    BY <1>10, <2>1, <2>2, <2>3 DEF MarkAsDeleted, TypeOK
  <2>5. CollectorKeepsItsObjects'
    BY <1>10, <2>3 DEF MarkAsDeleted, TypeOK, CollectorStates
  <2> QED
    BY <1>t, <1>u, <1>10, <2>2, <2>4, <2>5 DEF MarkAsDeleted
<1>11. CASE SendResponse
    BY <1>t, <1>u, <1>11 DEF SendResponse, IdleSerializer
<1> QED
    BY <1>1, <1>2, <1>3, <1>4, <1>5, <1>6, <1>7, <1>8, <1>9, <1>10, <1>11 DEF SerializerStep

(* Every step of the collector keeps the inductive invariant. *)
LEMMA DurableCollector ==
    DurableInv /\ CollectorStep => DurableInv'
<1> SUFFICES ASSUME DurableInv, CollectorStep PROVE DurableInv'
    OBVIOUS
<1>t. TypeOK'
    BY TypeCollector DEF DurableInv
<1>u. phase = "up"
    BY DEF CollectorStep
<1> USE DEF DurableInv, WellDefinedTransaction, CreationKeepsItsName, DeletedHasLeftMetadata,
            CollectorKeepsItsObjects, CollectorErasesWhatItDropped, ThreadsAreIdleWhenDown,
            disk, refs, table, requests, bounds
<1>1. CASE GCSnapshotBucket
  <2>1. gc'.pc = "scan" /\ \A o \in gc'.todo : \E n \in Names : index[n] # NoContainer /\ o = index[n]
    BY <1>1 DEF GCSnapshotBucket, TypeOK, CollectorStates
  <2>2. CollectorKeepsItsObjects'
    BY <1>1, <2>1 DEF GCSnapshotBucket
  <2> QED
    BY <1>t, <1>u, <1>1, <2>2 DEF GCSnapshotBucket, Task
<1>2. ASSUME NEW o \in Objects, GCInspect(o) PROVE DurableInv'
    BY <1>t, <1>u, <1>2, NoContainerAssumption
       DEF GCInspect, Task, TypeOK, CollectorStates, Objects
<1>3. CASE GCDropInstance
  <2>1. /\ gc.container \in Objects /\ gc.container.name \in Names /\ gc.partition \in Partitions
        /\ gc'.pc \in {"drop", "erase"} /\ gc'.container = gc.container /\ gc'.todo = gc.todo
        /\ Task' = Task
    BY <1>3 DEF GCDropInstance, TypeOK, CollectorStates, Objects, Task
  <2>2. \A p \in Partitions, n \in Names :
            n \in columnFamilies[p] /\ n # gc.container.name => n \in columnFamilies'[p]
    BY <1>3, <2>1 DEF GCDropInstance, TypeOK
  <2>3. WellDefinedTransaction'
    BY <1>3, <1>u, <2>2 DEF GCDropInstance, TypeOK
  <2>4. CreationKeepsItsName'
    <3>1. serializer.pc \in {"create", "metadata", "approve", "index"} =>
            Task.name \in Names /\ Task.name # gc.container.name
      BY <1>3, <2>1, TaskType, NoContainerAssumption DEF GCDropInstance, TypeOK
    <3> QED
      BY <1>3, <2>1, <2>2, <3>1 DEF GCDropInstance
  <2>5. CollectorKeepsItsObjects'
    BY <1>3, <2>1 DEF GCDropInstance
  <2> QED
    BY <1>t, <1>u, <1>3, <2>1, <2>3, <2>4, <2>5 DEF GCDropInstance
<1>4. CASE GCFailDrop
    BY <1>t, <1>u, <1>4 DEF GCFailDrop, Task, TypeOK, CollectorStates
<1>5. CASE GCNullReference
    BY <1>t, <1>5, DurableDeath DEF GCNullReference
<1>6. CASE GCEraseFromIndex
  <2>1. /\ gc.container \in Objects /\ gc.container.name \in Names
        /\ index[gc.container.name] = gc.container /\ gc.container \notin gc.todo
        /\ Task' = Task
    BY <1>6 DEF GCEraseFromIndex, TypeOK, CollectorStates, Objects, Task
  <2>2. /\ gc'.pc = "uncount" /\ gc'.todo = gc.todo
        /\ index' = [index EXCEPT ![gc.container.name] = NoContainer]
    BY <1>6, <2>1, NoContainerAssumption DEF GCEraseFromIndex, TypeOK, CollectorStates
  <2>3. /\ \A n \in Names : index'[n] # NoContainer => index'[n] = index[n]
        /\ \A n \in Names : index'[n] # index[n] => n = gc.container.name
    BY <2>1, <2>2 DEF TypeOK
  <2>4. CollectorKeepsItsObjects'
    <3>1. \A o \in gc.todo : o \in Objects /\ o.name \in Names /\ o.name # gc.container.name
      BY <2>1 DEF TypeOK, CollectorStates, Objects
    <3> QED
      BY <2>2, <2>3, <3>1
  <2>5. CreationKeepsItsName'
    BY <1>6, <2>1, <2>2, <2>3, TaskType DEF GCEraseFromIndex, TypeOK
  <2>6. DeletedHasLeftMetadata'
    <3>1. objects' = objects /\ metadata' = metadata /\ serializer' = serializer
      BY <1>6 DEF GCEraseFromIndex
    <3> QED
      BY <2>1, <2>3, <3>1
  <2> QED
    BY <1>t, <1>u, <1>6, <2>4, <2>5, <2>6 DEF GCEraseFromIndex
<1>7. CASE GCUncount
    BY <1>t, <1>u, <1>7 DEF GCUncount, Task, TypeOK, CollectorStates
<1>8. CASE GCFinishBucket
    BY <1>t, <1>u, <1>8 DEF GCFinishBucket, Task, IdleCollector
<1> QED
    BY <1>1, <1>2, <1>3, <1>4, <1>5, <1>6, <1>7, <1>8 DEF CollectorStep

(* A start-up finds every column family the metadata needs, and indexes     *)
(* what the metadata does not know as deleted.                             *)
LEMMA DurableStart ==
    DurableInv /\ Start => DurableInv'
<1> SUFFICES ASSUME DurableInv, Start PROVE DurableInv'
    OBVIOUS
<1>t. TypeOK'
    BY TypeStart DEF DurableInv
<1> USE DEF DurableInv, WellDefinedTransaction, CreationKeepsItsName, DeletedHasLeftMetadata,
            CollectorKeepsItsObjects, CollectorErasesWhatItDropped, ThreadsAreIdleWhenDown,
            disk, refs, table, requests, bounds
<1>1. phase' = "up" /\ serializer' = serializer /\ gc' = gc /\ tasks' = tasks
    BY DEF Start, Complete
<1>2. serializer.pc = "idle" /\ gc.pc = "bucket" /\ gc.todo = {}
    BY DEF Start
<1>3. PICK a \in Addresses :
        /\ index' = [n \in Names |-> IF n \in DOMAIN Loaded(a) THEN Loaded(a)[n] ELSE NoContainer]
        /\ objects' = [o \in Objects |->
                IF o.name \notin DOMAIN Loaded(a) \/ o.address # a THEN "unallocated"
                ELSE IF o.name \in metadata THEN "active" ELSE "deleted"]
    BY DEF Start, Complete
<1>4. \A n \in Names : index'[n] # NoContainer =>
            /\ index'[n] \in Objects /\ index'[n].name = n /\ index'[n].address = a
            /\ n \in DOMAIN Loaded(a)
    BY <1>3 DEF Loaded, Objects
<1>5. \A n \in Names : index'[n] # NoContainer /\ objects'[index'[n]] = "deleted"
                            => n \notin metadata
  <2> SUFFICES ASSUME NEW n \in Names, index'[n] # NoContainer, n \in metadata
               PROVE  objects'[index'[n]] # "deleted"
    OBVIOUS
  <2> QED
    BY <1>3, <1>4
<1>6. UNCHANGED <<columnFamilies, metadata>>
    BY DEF Start
<1>7. CollectorKeepsItsObjects'
    BY <1>1, <1>2, <1>4
<1> QED
    BY <1>t, <1>1, <1>2, <1>5, <1>6, <1>7

(* The strengthening holds in every reachable state: what the collector     *)
(* works on is indexed, dead and out of the metadata, and what the         *)
(* serializer creates has a free name.                                     *)
THEOREM DurableInvariant == Spec => []DurableInv
<1>1. DurableInv /\ [Next]_vars => DurableInv'
  <2> SUFFICES ASSUME DurableInv, [Next]_vars PROVE DurableInv'
    OBVIOUS
  <2>1. CASE UNCHANGED vars
    BY <2>1, TypeCorrect
       DEF vars, disk, refs, table, requests, bounds, DurableInv, TypeOK, WellDefinedTransaction,
           CreationKeepsItsName, DeletedHasLeftMetadata, CollectorKeepsItsObjects,
           CollectorErasesWhatItDropped, ThreadsAreIdleWhenDown, Task
  <2> QED
    BY <2>1, DurableRequests, DurableSerializer, DurableCollector, DurableStart DEF Next
<1> QED
    BY DurableInit, <1>1, PTL DEF Spec

(* The metadata never names a container without its column families, and   *)
(* no start-up is stopped, whatever step a crash interrupts.               *)
THEOREM WellDefinedTransactionCorrect == Spec => []WellDefinedTransaction
<1>1. DurableInv => WellDefinedTransaction
    BY DEF DurableInv
<1> QED
    BY DurableInvariant, <1>1, PTL

(* The collector drops and erases one and the same dead container. *)
THEOREM CollectorCorrect == Spec => []CollectorErasesWhatItDropped
<1>1. DurableInv => CollectorErasesWhatItDropped
    BY DEF DurableInv, CollectorKeepsItsObjects
<1> QED
    BY DurableInvariant, <1>1, PTL
===============================================================================
