------------------------ MODULE ContainerMemoryProofs -------------------------
(***************************************************************************)
(* Proofs about the memory of ContainerLifecycle: the index, the references *)
(* of objects in use, the handles, what a freed name leaves behind, the     *)
(* counter and the limit of containers, and the refinement of              *)
(* ContainerStore.                                                         *)
(***************************************************************************)
EXTENDS ContainerLifecycleProofs

-------------------------------------------------------------------------------
(* The inductive invariant behind IndexAgreesWithMetadata and              *)
(* HeldReferencesAreFenced.                                                *)

(* A creation that has put its key has not lost it, and a removal still     *)
(* finds the container it was accepted for.                                *)
ChangeIsUnderway ==
    /\ serializer.pc \in {"approve", "index"} => Task.name \in metadata
    /\ serializer.pc \in {"unlink", "mark"} => Active(Task.name)

(* The object of a creation is its own, with an open handle on each         *)
(* partition it has passed, until it is indexed.                           *)
CreationHasItsHandles ==
    /\ serializer.pc \in {"create", "metadata", "approve", "index"} =>
        /\ objects[serializer.container] = "unallocated"
        /\ \A p \in Partitions :
              (serializer.pc = "create" => p < serializer.partition)
                => handles[serializer.container][p] = "open"
        /\ serializer.pc = "index" => \A p \in Partitions : <<serializer.container, p>> \in approved
    /\ serializer.pc = "count" =>
        /\ index[serializer.container.name] = serializer.container
        /\ objects[serializer.container] = "active"

(* What is indexed or held by a request is not destroyed, and nothing       *)
(* outlives the process.                                                   *)
ReferencedObjectsExist ==
    /\ \A n \in Names : index[n] # NoContainer => objects[index[n]] # "unallocated"
    /\ \A u \in Users : held[u] # NoContainer => objects[held[u]] # "unallocated"
    /\ phase # "up" => held = NothingHeld

(* The inductive invariant. *)
MemoryInv ==
    /\ DurableInv
    /\ ChangeIsUnderway
    /\ CreationHasItsHandles
    /\ ReferencedObjectsExist
    /\ IndexAgreesWithMetadata
    /\ HeldReferencesAreFenced

(* The durable invariant is inductive, as a lemma of its own. *)
LEMMA DurableStep == DurableInv /\ [Next]_vars => DurableInv'
<1> SUFFICES ASSUME DurableInv, [Next]_vars PROVE DurableInv'
    OBVIOUS
<1>1. CASE UNCHANGED vars
    BY <1>1
       DEF vars, disk, refs, table, requests, bounds, DurableInv, TypeOK, WellDefinedTransaction,
           CreationKeepsItsName, DeletedHasLeftMetadata, CollectorKeepsItsObjects,
           CollectorErasesWhatItDropped, ThreadsAreIdleWhenDown, Task
<1> QED
    BY <1>1, DurableRequests, DurableSerializer, DurableCollector, DurableStart DEF Next

(* What the serializer thread works on: an object of the name in service,   *)
(* which the index does not know before it is inserted.                    *)
LEMMA SerializerLocals ==
    ASSUME DurableInv
    PROVE  /\ serializer.pc # "idle" => Task \in Tasks /\ Task.name \in Names
           /\ serializer.pc \in CreationCounters =>
                 /\ serializer.container \in Objects /\ serializer.partition \in Partitions
                 /\ serializer.container # NoContainer
           /\ serializer.pc \in {"create", "metadata", "approve", "index"} =>
                 /\ serializer.container.name = Task.name
                 /\ index[Task.name] = NoContainer
                 /\ \A n \in Names : index[n] # serializer.container
           /\ serializer.pc \notin CreationCounters => serializer.container = NoContainer
<1>1. serializer.pc # "idle" => Task \in Tasks /\ Task.name \in Names
    BY TaskType DEF DurableInv, TypeOK
<1>2. serializer.pc \in CreationCounters =>
        /\ serializer.container \in Objects /\ serializer.partition \in Partitions
        /\ serializer.container # NoContainer
    BY NoContainerAssumption DEF DurableInv, TypeOK, SerializerStates, CreationCounters
<1>3. serializer.pc \in {"create", "metadata", "approve", "index"} =>
        /\ serializer.container.name = Task.name
        /\ index[Task.name] = NoContainer
    BY DEF DurableInv, CreationKeepsItsName
<1>4. serializer.pc \notin CreationCounters => serializer.container = NoContainer
    BY DEF DurableInv, TypeOK, SerializerStates
<1>5. serializer.pc \in {"create", "metadata", "approve", "index"} =>
        \A n \in Names : index[n] # serializer.container
    BY <1>2, <1>3 DEF DurableInv, CollectorKeepsItsObjects, CreationCounters
<1> QED
    BY <1>1, <1>2, <1>3, <1>4, <1>5

(* What the collector drops is indexed, dead, and not being created. *)
LEMMA CollectorLocals ==
    ASSUME DurableInv, gc.pc \in {"drop", "erase"}
    PROVE  /\ gc.container \in Objects /\ gc.container.name \in Names
           /\ gc.partition \in Partitions
           /\ gc.container # NoContainer
           /\ index[gc.container.name] = gc.container
           /\ objects[gc.container] = "deleted"
           /\ serializer.pc \in {"create", "metadata", "approve", "index"} =>
                 /\ serializer.container # gc.container
                 /\ Task.name # gc.container.name
<1>1. /\ gc.container \in Objects /\ gc.container.name \in Names
      /\ gc.partition \in Partitions /\ gc.container # NoContainer
    BY NoContainerAssumption DEF DurableInv, TypeOK, CollectorStates, Objects
<1>2. index[gc.container.name] = gc.container /\ objects[gc.container] = "deleted"
    BY DEF DurableInv, CollectorKeepsItsObjects, CollectorErasesWhatItDropped
<1> QED
    BY <1>1, <1>2, SerializerLocals

(* An indexed object carries its name, and names do not share one. *)
LEMMA IndexIsInjective ==
    ASSUME DurableInv, NEW m \in Names, NEW n \in Names, index[m] # NoContainer, index[m] = index[n]
    PROVE  m = n
BY DEF DurableInv, CollectorKeepsItsObjects

(* A store without containers satisfies the invariant. *)
LEMMA MemoryInit == Init => MemoryInv
<1> SUFFICES ASSUME Init PROVE MemoryInv
    OBVIOUS
<1> USE DEF Init, EmptyIndex, NothingHeld, NoObjects, IdleSerializer
<1>1. ChangeIsUnderway /\ CreationHasItsHandles
    BY DEF ChangeIsUnderway, CreationHasItsHandles
<1>2. ReferencedObjectsExist
    BY DEF ReferencedObjectsExist
<1>3. IndexAgreesWithMetadata
    BY DEF IndexAgreesWithMetadata, Active, At
<1>4. HeldReferencesAreFenced
    BY DEF HeldReferencesAreFenced, Active
<1> QED
    BY <1>1, <1>2, <1>3, <1>4, DurableInit DEF MemoryInv

(* Nothing in memory outlives the process. *)
LEMMA MemoryDeath ==
    ASSUME ProcessDies, DurableInv' PROVE MemoryInv'
<1> USE DEF ProcessDies, EmptyIndex, NothingHeld, NoObjects, IdleSerializer
<1>1. ChangeIsUnderway' /\ CreationHasItsHandles'
    BY DEF ChangeIsUnderway, CreationHasItsHandles
<1>2. ReferencedObjectsExist'
    BY DEF ReferencedObjectsExist
<1>3. IndexAgreesWithMetadata'
    BY DEF IndexAgreesWithMetadata
<1>4. HeldReferencesAreFenced'
    BY DEF HeldReferencesAreFenced, Active
<1> QED
    BY <1>1, <1>2, <1>3, <1>4 DEF MemoryInv

(* Steps that leave containers, references, metadata and the serializer's   *)
(* locals alone.                                                           *)
LEMMA MemoryUntouched ==
    ASSUME MemoryInv, DurableInv',
           UNCHANGED <<phase, metadata, handles, approved, objects, index, serializer, held>>,
           serializer.pc # "idle" => Task' = Task
    PROVE  MemoryInv'
<1>1. serializer.pc # "idle" => Task'.name = Task.name
    OBVIOUS
<1>2. \A n \in Names : Active(n)' <=> Active(n)
    BY DEF Active
<1>3. ChangeIsUnderway'
    BY <1>1 DEF MemoryInv, ChangeIsUnderway, Active
<1>4. CreationHasItsHandles'
    BY DEF MemoryInv, CreationHasItsHandles
<1>5. ReferencedObjectsExist'
    BY DEF MemoryInv, ReferencedObjectsExist, NothingHeld
<1>6. IndexAgreesWithMetadata'
    BY <1>1, <1>2 DEF MemoryInv, IndexAgreesWithMetadata, At
<1>7. HeldReferencesAreFenced'
    BY <1>2 DEF MemoryInv, HeldReferencesAreFenced
<1> QED
    BY <1>3, <1>4, <1>5, <1>6, <1>7 DEF MemoryInv

(* Requests, destructors and crashes keep the invariant: a destructor runs  *)
(* on an object nobody has indexed, holds or is creating.                  *)
LEMMA MemoryRequests == MemoryInv /\ DurableInv' /\ RequestStep => MemoryInv'
<1> SUFFICES ASSUME MemoryInv, DurableInv', RequestStep PROVE MemoryInv'
    OBVIOUS
<1> USE DEF disk, refs, table, requests, bounds
<1>t. TypeOK
    BY DEF MemoryInv, DurableInv
<1>1. ASSUME NEW t \in Tasks, ValidateRequest(t) PROVE MemoryInv'
    BY <1>1, MemoryUntouched DEF ValidateRequest, Task
<1>2. ASSUME NEW t \in admitted, EnqueueRequest(t) PROVE MemoryInv'
  <2>1. t \in Tasks
    BY <1>t DEF TypeOK
  <2>2. serializer.pc # "idle" => Task' = Task
    BY <1>2, <1>t, <2>1, TaskKept DEF TypeOK, EnqueueRequest
  <2> QED
    BY <1>2, <2>2, MemoryUntouched DEF EnqueueRequest
<1>3. ASSUME NEW u \in Users, NEW n \in Names, AcquireContainer(u, n) PROVE MemoryInv'
  <2>1. index[n] # NoContainer /\ objects[index[n]] = "active" /\ Active(n)
    <3>1. index[n] # NoContainer /\ objects[index[n]] # "deleted"
        BY <1>3 DEF AcquireContainer, ExistenceStatus
    <3>2. objects[index[n]] # "unallocated" /\ index[n] \in Objects
        BY <1>t, <3>1 DEF MemoryInv, ReferencedObjectsExist, TypeOK
    <3> QED
        BY <1>t, <3>1, <3>2 DEF TypeOK, Active
  <2>2. \A v \in Users : held'[v] = held[v] \/ held'[v] = index[n]
    BY <1>3, <1>t DEF AcquireContainer, TypeOK
  <2>3. ReferencedObjectsExist'
    BY <1>3, <2>1, <2>2 DEF AcquireContainer, RequestStep, MemoryInv, ReferencedObjectsExist
  <2>4. HeldReferencesAreFenced'
    BY <1>3, <2>1, <2>2 DEF AcquireContainer, MemoryInv, HeldReferencesAreFenced, Active
  <2> QED
    BY <1>3, <2>3, <2>4
       DEF AcquireContainer, MemoryInv, ChangeIsUnderway, CreationHasItsHandles,
           IndexAgreesWithMetadata, At, Active, Task
<1>4. ASSUME NEW u \in Users, ReleaseContainer(u) PROVE MemoryInv'
  <2>1. \A v \in Users : held'[v] = held[v] \/ held'[v] = NoContainer
    BY <1>4, <1>t DEF ReleaseContainer, TypeOK
  <2>2. ReferencedObjectsExist'
    BY <1>4, <2>1 DEF ReleaseContainer, RequestStep, MemoryInv, ReferencedObjectsExist
  <2>3. HeldReferencesAreFenced'
    BY <1>4, <2>1 DEF ReleaseContainer, MemoryInv, HeldReferencesAreFenced, Active
  <2> QED
    BY <1>4, <2>2, <2>3
       DEF ReleaseContainer, MemoryInv, ChangeIsUnderway, CreationHasItsHandles,
           IndexAgreesWithMetadata, At, Active, Task
<1>5. ASSUME NEW o \in Objects, DestroyContainer(o) PROVE MemoryInv'
  <2>1. /\ \A n \in Names : index[n] # NoContainer => index[n] # o
        /\ \A u \in Users : held[u] # o
    BY <1>5 DEF DestroyContainer, Referenced, MemoryInv, DurableInv, CollectorKeepsItsObjects
  <2>2. /\ serializer.pc \in {"create", "metadata", "approve", "index", "count"} =>
                serializer.container # o /\ serializer.container \in Objects
    BY <1>5, <2>1, SerializerLocals, NoContainerAssumption
       DEF DestroyContainer, Referenced, MemoryInv, CreationHasItsHandles, CreationCounters
  <2>3. \A c \in Objects \ {o} : objects'[c] = objects[c] /\ handles'[c] = handles[c]
    BY <1>5, <1>t DEF DestroyContainer, TypeOK
  <2>4. \A c \in Objects \ {o}, p \in Partitions : <<c, p>> \in approved' <=> <<c, p>> \in approved
    BY <1>5 DEF DestroyContainer
  <2>5. \A n \in Names : /\ index'[n] = index[n]
                         /\ index[n] # NoContainer => index[n] \in Objects \ {o}
    BY <1>5, <1>t, <2>1 DEF DestroyContainer, TypeOK
  <2>6. \A n \in Names : Active(n)' <=> Active(n)
    BY <2>3, <2>5 DEF Active
  <2>7. ChangeIsUnderway'
    BY <1>5, <2>6, SerializerLocals DEF DestroyContainer, MemoryInv, ChangeIsUnderway, Task
  <2>8. CreationHasItsHandles'
    BY <1>5, <2>2, <2>3, <2>4 DEF DestroyContainer, MemoryInv, CreationHasItsHandles
  <2>9. \A u \in Users : held[u] # NoContainer => held[u] \in Objects \ {o}
    BY <1>t, <2>1 DEF TypeOK
  <2>10. ReferencedObjectsExist'
    BY <1>5, <2>3, <2>5, <2>9 DEF DestroyContainer, MemoryInv, ReferencedObjectsExist, NothingHeld
  <2>11. IndexAgreesWithMetadata'
    BY <1>5, <2>6 DEF DestroyContainer, MemoryInv, IndexAgreesWithMetadata, At, Task
  <2>12. HeldReferencesAreFenced'
    BY <1>5, <2>3, <2>4, <2>5, <2>6, <2>9
       DEF DestroyContainer, MemoryInv, HeldReferencesAreFenced, Active
  <2> QED
    BY <2>7, <2>8, <2>10, <2>11, <2>12 DEF MemoryInv
<1>6. CASE Crash
    BY <1>6, MemoryDeath DEF Crash
<1> QED
    BY <1>1, <1>2, <1>3, <1>4, <1>5, <1>6 DEF RequestStep

(* Every step of a creation or a removal keeps the invariant: index and     *)
(* metadata change in two steps, and the program counter tells which of    *)
(* the two has been taken.                                                 *)
LEMMA MemorySerializer == MemoryInv /\ DurableInv' /\ SerializerStep => MemoryInv'
<1> SUFFICES ASSUME MemoryInv, DurableInv', SerializerStep PROVE MemoryInv'
    OBVIOUS
<1> USE DEF disk, refs, table, requests, bounds
<1>t. TypeOK /\ DurableInv
    BY DEF MemoryInv, DurableInv
<1>u. phase = "up"
    BY DEF SerializerStep
(* A step that only moves the serializer to a program counter without      *)
(* obligations.                                                            *)
<1>w. ASSUME UNCHANGED <<phase, metadata, handles, approved, objects, index, held>>,
             serializer'.pc \in {"idle", "respond"},
             serializer.pc \notin {"approve", "index", "mark"}
      PROVE  MemoryInv'
  <2>1. ChangeIsUnderway' /\ CreationHasItsHandles'
    BY <1>w DEF ChangeIsUnderway, CreationHasItsHandles
  <2>2. ReferencedObjectsExist' /\ HeldReferencesAreFenced'
    BY <1>w DEF MemoryInv, ReferencedObjectsExist, HeldReferencesAreFenced, Active, NothingHeld
  <2>3. IndexAgreesWithMetadata'
    BY <1>w DEF MemoryInv, IndexAgreesWithMetadata, At, Active
  <2> QED
    BY <2>1, <2>2, <2>3 DEF MemoryInv
<1>1. CASE BeginCreation
  <2>1. CASE Respond(ExistenceStatus(Task.name))
    BY <1>1, <2>1, <1>w DEF BeginCreation, Respond
  <2>2. ASSUME NEW a \in Addresses, objects[[name |-> Task.name, address |-> a]] = "unallocated",
               serializer' = [serializer EXCEPT !.pc = "create",
                                   !.container = [name |-> Task.name, address |-> a]]
        PROVE  MemoryInv'
    <3>1. /\ serializer'.pc = "create" /\ serializer'.partition = 0
          /\ serializer'.container = [name |-> Task.name, address |-> a]
      BY <1>1, <1>t, <2>2 DEF BeginCreation, TypeOK, SerializerStates, CreationCounters
    <3>2. \A p \in Partitions : ~ p < 0
      BY DEF Partitions
    <3>3. ChangeIsUnderway'
      BY <3>1 DEF ChangeIsUnderway
    <3>4. CreationHasItsHandles'
      BY <1>1, <2>2, <3>1, <3>2 DEF BeginCreation, CreationHasItsHandles
    <3>5. ReferencedObjectsExist' /\ HeldReferencesAreFenced'
      BY <1>1 DEF BeginCreation, MemoryInv, ReferencedObjectsExist, HeldReferencesAreFenced, Active, NothingHeld
    <3>6. IndexAgreesWithMetadata'
      BY <1>1, <3>1 DEF BeginCreation, MemoryInv, IndexAgreesWithMetadata, At, Active
    <3> QED
      BY <3>3, <3>4, <3>5, <3>6 DEF MemoryInv
  <2> QED
    BY <1>1, <2>1, <2>2 DEF BeginCreation
<1>2. CASE CreateInstance
  <2>1. /\ serializer.container \in Objects /\ serializer.partition \in Partitions
        /\ objects[serializer.container] = "unallocated"
        /\ \A n \in Names : index[n] # serializer.container
        /\ \A u \in Users : held[u] # NoContainer => held[u] # serializer.container
    BY <1>2, <1>t, SerializerLocals
       DEF CreateInstance, MemoryInv, CreationHasItsHandles, ReferencedObjectsExist, CreationCounters
  <2>2. /\ serializer'.container = serializer.container
        /\ \/ serializer'.pc = "create" /\ serializer'.partition = serializer.partition + 1
           \/ serializer'.pc = "metadata" /\ serializer.partition + 1 \notin Partitions
    BY <1>2, <1>t DEF CreateInstance, TypeOK, SerializerStates, CreationCounters
  <2>3. /\ handles'[serializer.container][serializer.partition] = "open"
        /\ \A p \in Partitions \ {serializer.partition} :
              handles'[serializer.container][p] = handles[serializer.container][p]
        /\ \A o \in Objects \ {serializer.container} : handles'[o] = handles[o]
    BY <1>2, <1>t, <2>1 DEF CreateInstance, TypeOK
  <2>4. ChangeIsUnderway'
    BY <2>2 DEF ChangeIsUnderway
  <2>5. CreationHasItsHandles'
    <3>1. \A p \in Partitions : p < serializer.partition =>
                handles[serializer.container][p] = "open"
      BY <1>2 DEF CreateInstance, MemoryInv, CreationHasItsHandles
    <3>2. \A p \in Partitions : p <= serializer.partition =>
                handles'[serializer.container][p] = "open"
      BY <2>1, <2>3, <3>1 DEF Partitions
    <3>3. serializer.partition + 1 \notin Partitions =>
                \A p \in Partitions : p <= serializer.partition
      BY <2>1, NumPartitionsAssumption DEF Partitions
    <3>4. \A p \in Partitions : p < serializer.partition + 1 => p <= serializer.partition
      BY <2>1 DEF Partitions
    <3> QED
      BY <1>2, <2>1, <2>2, <3>2, <3>3, <3>4 DEF CreateInstance, CreationHasItsHandles
  <2>6. ReferencedObjectsExist'
    BY <1>2 DEF CreateInstance, MemoryInv, ReferencedObjectsExist, NothingHeld
  <2>7. IndexAgreesWithMetadata'
    BY <1>2, <2>2 DEF CreateInstance, MemoryInv, IndexAgreesWithMetadata, At, Active
  <2>8. HeldReferencesAreFenced'
    <3>1. \A n \in Names : index[n] # NoContainer => index[n] \in Objects \ {serializer.container}
      BY <1>t, <2>1 DEF TypeOK
    <3>2. \A u \in Users : held[u] # NoContainer => held[u] \in Objects \ {serializer.container}
      BY <1>t, <2>1 DEF TypeOK
    <3> QED
      BY <1>2, <2>3, <3>1, <3>2 DEF CreateInstance, MemoryInv, HeldReferencesAreFenced, Active
  <2> QED
    BY <2>4, <2>5, <2>6, <2>7, <2>8 DEF MemoryInv
<1>3. CASE FailCreateInstance
    BY <1>3, <1>w DEF FailCreateInstance, Respond
<1>4. CASE PutMetadata
  <2>1. CASE Respond("object_insertion_failed") /\ UNCHANGED metadata
    BY <1>4, <2>1, <1>w DEF PutMetadata, Respond
  <2>2. CASE /\ metadata' = metadata \cup {Task.name}
             /\ serializer' = [serializer EXCEPT !.pc = "approve"]
    <3>1. serializer'.pc = "approve" /\ serializer'.container = serializer.container /\ Task' = Task
      BY <1>4, <1>t, <2>2 DEF PutMetadata, TypeOK, SerializerStates, CreationCounters, Task
    <3>2. ~ Active(Task.name)
      BY <1>4, <1>t, SerializerLocals DEF PutMetadata, Active
    <3>3. ChangeIsUnderway'
      BY <2>2, <3>1 DEF ChangeIsUnderway
    <3>4. CreationHasItsHandles'
      BY <1>4, <3>1 DEF PutMetadata, MemoryInv, CreationHasItsHandles
    <3>5. ReferencedObjectsExist' /\ HeldReferencesAreFenced'
      BY <1>4 DEF PutMetadata, MemoryInv, ReferencedObjectsExist, HeldReferencesAreFenced, Active, NothingHeld
    <3>6. IndexAgreesWithMetadata'
      BY <1>4, <1>u, <2>2, <3>1, <3>2 DEF PutMetadata, MemoryInv, IndexAgreesWithMetadata, At, Active
    <3> QED
      BY <3>3, <3>4, <3>5, <3>6 DEF MemoryInv
  <2> QED
    BY <1>4, <2>1, <2>2 DEF PutMetadata
<1>5. CASE ApproveReferences
  <2>1. serializer'.pc = "index" /\ serializer'.container = serializer.container /\ Task' = Task
    BY <1>5, <1>t DEF ApproveReferences, TypeOK, SerializerStates, CreationCounters, Task
  <2>2. approved \subseteq approved' /\ \A p \in Partitions : <<serializer.container, p>> \in approved'
    BY <1>5 DEF ApproveReferences
  <2>3. ChangeIsUnderway'
    BY <1>5, <2>1 DEF ApproveReferences, MemoryInv, ChangeIsUnderway
  <2>4. CreationHasItsHandles'
    BY <1>5, <2>1, <2>2 DEF ApproveReferences, MemoryInv, CreationHasItsHandles
  <2>5. ReferencedObjectsExist' /\ HeldReferencesAreFenced'
    BY <1>5, <2>2 DEF ApproveReferences, MemoryInv, ReferencedObjectsExist, HeldReferencesAreFenced, Active, NothingHeld
  <2>6. IndexAgreesWithMetadata'
    BY <1>5, <2>1 DEF ApproveReferences, MemoryInv, IndexAgreesWithMetadata, At, Active
  <2> QED
    BY <2>3, <2>4, <2>5, <2>6 DEF MemoryInv
<1>6. CASE InsertIntoIndex
  <2>1. /\ serializer.container \in Objects /\ serializer.container # NoContainer
        /\ serializer.container.name = Task.name /\ Task.name \in Names
        /\ index[Task.name] = NoContainer
        /\ \A n \in Names : index[n] # serializer.container
        /\ objects[serializer.container] = "unallocated"
        /\ Task.name \in metadata
        /\ \A p \in Partitions : /\ handles[serializer.container][p] = "open"
                                 /\ <<serializer.container, p>> \in approved
    BY <1>6, <1>t, SerializerLocals
       DEF InsertIntoIndex, CreationCounters, MemoryInv, CreationHasItsHandles, ChangeIsUnderway
  <2>2. /\ serializer'.pc = "count" /\ serializer'.container = serializer.container
        /\ index' = [index EXCEPT ![Task.name] = serializer.container]
        /\ objects' = [objects EXCEPT ![serializer.container] = "active"]
        /\ Task' = Task
    BY <1>6, <1>t, <2>1 DEF InsertIntoIndex, TypeOK, SerializerStates, CreationCounters, Task
  <2>3. /\ index'[Task.name] = serializer.container
        /\ objects'[serializer.container] = "active"
        /\ \A n \in Names \ {Task.name} : index'[n] = index[n]
        /\ \A o \in Objects \ {serializer.container} : objects'[o] = objects[o]
    BY <1>t, <2>1, <2>2 DEF TypeOK
  <2>4. /\ Active(Task.name)'
        /\ \A n \in Names \ {Task.name} : Active(n)' <=> Active(n)
    <3>1. Active(Task.name)'
      BY <2>1, <2>2, <2>3 DEF Active
    <3>2. \A n \in Names : index[n] # NoContainer => index[n] \in Objects \ {serializer.container}
      BY <1>t, <2>1 DEF TypeOK
    <3>3. ASSUME NEW n \in Names \ {Task.name} PROVE Active(n)' <=> Active(n)
      BY <2>3, <3>2 DEF Active
    <3> QED
      BY <3>1, <3>3
  <2>5. ChangeIsUnderway'
    BY <2>2 DEF ChangeIsUnderway
  <2>6. CreationHasItsHandles'
    BY <2>1, <2>2, <2>3 DEF CreationHasItsHandles
  <2>7. ReferencedObjectsExist'
    <3>1. \A o \in Objects : objects[o] # "unallocated" => objects'[o] # "unallocated"
      BY <2>3
    <3>2. \A n \in Names : index'[n] # NoContainer => objects'[index'[n]] # "unallocated"
      BY <1>t, <2>3, <3>1 DEF MemoryInv, ReferencedObjectsExist, TypeOK
    <3>3. held' = held /\ phase' = phase /\ \A u \in Users : held[u] # NoContainer => held[u] \in Objects
      BY <1>6, <1>t DEF InsertIntoIndex, TypeOK
    <3> QED
      BY <1>u, <3>1, <3>2, <3>3 DEF MemoryInv, ReferencedObjectsExist
  <2>8. IndexAgreesWithMetadata'
    BY <1>6, <1>u, <2>1, <2>2, <2>4 DEF InsertIntoIndex, MemoryInv, IndexAgreesWithMetadata, At
  <2>9. HeldReferencesAreFenced'
    <3>1. \A n \in Names, p \in Partitions : Active(n)' =>
                handles[index'[n]][p] = "open" /\ <<index'[n], p>> \in approved
      BY <2>1, <2>3, <2>4 DEF MemoryInv, HeldReferencesAreFenced
    <3> QED
      BY <1>6, <3>1 DEF InsertIntoIndex, MemoryInv, HeldReferencesAreFenced
  <2> QED
    BY <2>5, <2>6, <2>7, <2>8, <2>9 DEF MemoryInv
<1>7. CASE CountContainer
    BY <1>7, <1>w DEF CountContainer, Respond
<1>8. CASE BeginRemoval
  <2>1. CASE Respond("container_not_exists")
    BY <1>8, <2>1, <1>w DEF BeginRemoval, Respond
  <2>2. CASE /\ ExistenceStatus(Task.name) = "container_already_exists"
             /\ serializer' = [serializer EXCEPT !.pc = "unlink"]
    <3>1. serializer'.pc = "unlink" /\ Task' = Task
      BY <1>8, <1>t, <2>2 DEF BeginRemoval, TypeOK, SerializerStates, CreationCounters, Task
    <3>2. Task.name \in Names
      BY <1>8, <1>t, TaskType DEF BeginRemoval, Serving
    <3>3. Active(Task.name)
      <4>1. index[Task.name] # NoContainer /\ objects[index[Task.name]] # "deleted"
        BY <2>2 DEF ExistenceStatus
      <4>2. objects[index[Task.name]] # "unallocated" /\ index[Task.name] \in Objects
        BY <1>t, <3>2, <4>1 DEF MemoryInv, ReferencedObjectsExist, TypeOK
      <4> QED
        BY <1>t, <4>1, <4>2 DEF TypeOK, Active
    <3>4. ChangeIsUnderway'
      BY <1>8, <3>1, <3>3 DEF BeginRemoval, ChangeIsUnderway, Active
    <3>5. CreationHasItsHandles'
      BY <3>1 DEF CreationHasItsHandles
    <3>6. ReferencedObjectsExist' /\ HeldReferencesAreFenced'
      BY <1>8 DEF BeginRemoval, MemoryInv, ReferencedObjectsExist, HeldReferencesAreFenced, Active, NothingHeld
    <3>7. IndexAgreesWithMetadata'
      BY <1>8, <3>1 DEF BeginRemoval, MemoryInv, IndexAgreesWithMetadata, At, Active
    <3> QED
      BY <3>4, <3>5, <3>6, <3>7 DEF MemoryInv
  <2> QED
    BY <1>8, <2>1, <2>2 DEF BeginRemoval
<1>9. CASE DeleteMetadata
  <2>1. CASE Respond("object_deletion_failed") /\ UNCHANGED metadata
    BY <1>9, <2>1, <1>w DEF DeleteMetadata, Respond
  <2>2. CASE /\ metadata' = metadata \ {Task.name}
             /\ serializer' = [serializer EXCEPT !.pc = "mark"]
    <3>1. serializer'.pc = "mark" /\ Task' = Task
      BY <1>9, <1>t, <2>2 DEF DeleteMetadata, TypeOK, SerializerStates, CreationCounters, Task
    <3>2. Active(Task.name)
      BY <1>9 DEF DeleteMetadata, MemoryInv, ChangeIsUnderway
    <3>3. ChangeIsUnderway'
      BY <1>9, <3>1, <3>2 DEF DeleteMetadata, ChangeIsUnderway, Active
    <3>4. CreationHasItsHandles'
      BY <3>1 DEF CreationHasItsHandles
    <3>5. ReferencedObjectsExist' /\ HeldReferencesAreFenced'
      BY <1>9 DEF DeleteMetadata, MemoryInv, ReferencedObjectsExist, HeldReferencesAreFenced, Active, NothingHeld
    <3>6. IndexAgreesWithMetadata'
      BY <1>9, <1>u, <2>2, <3>1, <3>2 DEF DeleteMetadata, MemoryInv, IndexAgreesWithMetadata, At, Active
    <3> QED
      BY <3>3, <3>4, <3>5, <3>6 DEF MemoryInv
  <2> QED
    BY <1>9, <2>1, <2>2 DEF DeleteMetadata
<1>10. CASE MarkAsDeleted
  <2>1. /\ Task.name \in Names /\ Task.name \notin metadata
        /\ Active(Task.name) /\ index[Task.name] \in Objects
    BY <1>10, <1>t, TaskType
       DEF MarkAsDeleted, MemoryInv, ChangeIsUnderway, DurableInv, DeletedHasLeftMetadata, TypeOK, Active
  <2>2. /\ objects' = [objects EXCEPT ![index[Task.name]] = "deleted"]
        /\ serializer'.pc = "respond" /\ Task' = Task
    BY <1>10, <2>1 DEF MarkAsDeleted, Respond, Active, Task
  <2>3. /\ objects'[index[Task.name]] = "deleted"
        /\ \A o \in Objects \ {index[Task.name]} : objects'[o] = objects[o]
    BY <1>t, <2>1, <2>2 DEF TypeOK
  <2>4. \A n \in Names \ {Task.name} : index[n] # NoContainer => index[n] \in Objects \ {index[Task.name]}
    BY <1>t, <2>1, IndexIsInjective DEF TypeOK
  <2>5. /\ ~ Active(Task.name)'
        /\ \A n \in Names \ {Task.name} : Active(n)' <=> Active(n)
    <3>1. index' = index
      BY <1>10 DEF MarkAsDeleted
    <3>2. ~ Active(Task.name)'
      BY <2>2, <2>3, <3>1 DEF Active
    <3>3. ASSUME NEW n \in Names \ {Task.name} PROVE Active(n)' <=> Active(n)
      BY <2>3, <2>4, <3>1 DEF Active
    <3> QED
      BY <3>2, <3>3
  <2>6. ChangeIsUnderway' /\ CreationHasItsHandles'
    BY <2>2 DEF ChangeIsUnderway, CreationHasItsHandles
  <2>7. ReferencedObjectsExist'
    BY <1>10, <1>t, <1>u, <2>3 DEF MarkAsDeleted, MemoryInv, ReferencedObjectsExist, TypeOK
  <2>8. IndexAgreesWithMetadata'
    BY <1>10, <2>1, <2>2, <2>5 DEF MarkAsDeleted, MemoryInv, IndexAgreesWithMetadata, At
  <2>9. HeldReferencesAreFenced'
    <3>1. UNCHANGED <<index, handles, approved, held>>
      BY <1>10 DEF MarkAsDeleted
    <3>2. \A n \in Names : Active(n)' => Active(n)
      BY <2>2, <2>5
    <3> QED
      BY <3>1, <3>2 DEF MemoryInv, HeldReferencesAreFenced
  <2> QED
    BY <2>6, <2>7, <2>8, <2>9 DEF MemoryInv
<1>11. CASE SendResponse
    BY <1>11, <1>w DEF SendResponse, IdleSerializer
<1> QED
    BY <1>1, <1>2, <1>3, <1>4, <1>5, <1>6, <1>7, <1>8, <1>9, <1>10, <1>11 DEF SerializerStep

(* Every step of the collector keeps the invariant: what it drops and       *)
(* erases is in nobody's service.                                          *)
LEMMA MemoryCollector == MemoryInv /\ DurableInv' /\ CollectorStep => MemoryInv'
<1> SUFFICES ASSUME MemoryInv, DurableInv', CollectorStep PROVE MemoryInv'
    OBVIOUS
<1> USE DEF disk, refs, table, requests, bounds
<1>t. TypeOK /\ DurableInv
    BY DEF MemoryInv, DurableInv
<1>1. CASE GCSnapshotBucket
    BY <1>1, MemoryUntouched DEF GCSnapshotBucket, Task
<1>2. ASSUME NEW o \in Objects, GCInspect(o) PROVE MemoryInv'
    BY <1>2, MemoryUntouched DEF GCInspect, Task
<1>3. CASE GCDropInstance
  <2>1. /\ gc.container \in Objects /\ objects[gc.container] = "deleted"
        /\ serializer.pc \in {"create", "metadata", "approve", "index"} =>
              serializer.container # gc.container /\ serializer.container \in Objects
    BY <1>3, <1>t, CollectorLocals, SerializerLocals DEF GCDropInstance, CreationCounters
  <2>2. /\ \A o \in Objects \ {gc.container} : handles'[o] = handles[o]
        /\ \A o \in Objects, p \in Partitions : handles[o][p] # "none" => handles'[o][p] # "none"
    BY <1>3, <1>t, <2>1 DEF GCDropInstance, TypeOK
  <2>3. UNCHANGED <<phase, metadata, approved, objects, index, serializer, held, tasks>> /\ Task' = Task
    BY <1>3 DEF GCDropInstance, Task
  <2>4. \A n \in Names : Active(n)' <=> Active(n)
    BY <2>3 DEF Active
  <2>5. ChangeIsUnderway' /\ ReferencedObjectsExist'
    BY <2>3 DEF MemoryInv, ChangeIsUnderway, ReferencedObjectsExist, Active, NothingHeld
  <2>6. CreationHasItsHandles'
    BY <2>1, <2>2, <2>3 DEF MemoryInv, CreationHasItsHandles
  <2>7. IndexAgreesWithMetadata'
    BY <2>3, <2>4 DEF MemoryInv, IndexAgreesWithMetadata, At
  <2>8. HeldReferencesAreFenced'
    <3>1. \A n \in Names : Active(n) => index[n] \in Objects \ {gc.container}
      BY <1>t, <2>1 DEF Active, TypeOK
    <3>2. \A u \in Users : held[u] # NoContainer => held[u] \in Objects
      BY <1>t DEF TypeOK
    <3> QED
      BY <2>2, <2>3, <2>4, <3>1, <3>2 DEF MemoryInv, HeldReferencesAreFenced
  <2> QED
    BY <2>5, <2>6, <2>7, <2>8 DEF MemoryInv
<1>4. CASE GCFailDrop
    BY <1>4, MemoryUntouched DEF GCFailDrop, Task
<1>5. CASE GCNullReference
    BY <1>5, MemoryDeath DEF GCNullReference
<1>6. CASE GCEraseFromIndex
  <2>1. /\ gc.container.name \in Names /\ index[gc.container.name] = gc.container
        /\ gc.container # NoContainer /\ objects[gc.container] = "deleted"
    BY <1>6, <1>t, CollectorLocals DEF GCEraseFromIndex
  <2>2. /\ index'[gc.container.name] = NoContainer
        /\ \A n \in Names \ {gc.container.name} : index'[n] = index[n]
    BY <1>6, <1>t, <2>1 DEF GCEraseFromIndex, TypeOK
  <2>3. UNCHANGED <<phase, metadata, handles, approved, objects, serializer, held, tasks>> /\ Task' = Task
    BY <1>6 DEF GCEraseFromIndex, Task
  <2>4. \A n \in Names : Active(n)' <=> Active(n)
    <3>1. ASSUME NEW n \in Names, n = gc.container.name PROVE ~ Active(n) /\ ~ Active(n)'
      BY <2>1, <2>2, <3>1 DEF Active
    <3>2. ASSUME NEW n \in Names, n # gc.container.name PROVE Active(n)' <=> Active(n)
      <4>1. index'[n] = index[n] /\ objects' = objects
        BY <2>2, <2>3, <3>2
      <4> QED
        BY <4>1 DEF Active
    <3> QED
      BY <3>1, <3>2
  <2>5. ChangeIsUnderway'
    <3>1. serializer.pc \in {"unlink", "mark"} => Task.name \in Names
      BY <1>t, SerializerLocals
    <3> QED
      BY <2>3, <2>4, <3>1 DEF MemoryInv, ChangeIsUnderway
  <2>6. CreationHasItsHandles'
    <3>1. serializer.pc = "count" =>
            /\ serializer.container.name \in Names
            /\ serializer.container.name # gc.container.name
      BY <1>t, <2>1, SerializerLocals DEF CreationCounters, MemoryInv, CreationHasItsHandles, Objects
    <3> QED
      BY <2>2, <2>3, <3>1 DEF MemoryInv, CreationHasItsHandles
  <2>7. ReferencedObjectsExist'
    BY <2>2, <2>3 DEF MemoryInv, ReferencedObjectsExist, NothingHeld
  <2>8. IndexAgreesWithMetadata'
    BY <2>3, <2>4 DEF MemoryInv, IndexAgreesWithMetadata, At
  <2>9. HeldReferencesAreFenced'
    <3>1. \A n \in Names : Active(n)' => Active(n) /\ index'[n] = index[n]
      BY <2>2, <2>4 DEF Active
    <3> QED
      BY <2>3, <3>1 DEF MemoryInv, HeldReferencesAreFenced
  <2> QED
    BY <2>5, <2>6, <2>7, <2>8, <2>9 DEF MemoryInv
<1>7. CASE GCUncount
    BY <1>7, MemoryUntouched DEF GCUncount, Task
<1>8. CASE GCFinishBucket
    BY <1>8, MemoryUntouched DEF GCFinishBucket, Task
<1> QED
    BY <1>1, <1>2, <1>3, <1>4, <1>5, <1>6, <1>7, <1>8 DEF CollectorStep

(* What a start-up gives the memory when it succeeds: an object for each     *)
(* name on the disk, with an approved handle for each of its families.     *)
LEMMA StartLoadsDisk ==
    ASSUME DurableInv, Start
    PROVE  /\ phase' = "up"
           /\ UNCHANGED <<columnFamilies, metadata, tasks, serializer, gc, held, failures>>
           /\ serializer.pc = "idle" /\ gc.pc = "bucket"
           /\ \E a \in Addresses :
                /\ \A n \in Names :
                      index'[n] = IF n \in OnDisk THEN [name |-> n, address |-> a] ELSE NoContainer
                /\ \A n \in Names : n \in OnDisk =>
                      objects'[[name |-> n, address |-> a]] =
                            IF n \in metadata THEN "active" ELSE "deleted"
                /\ \A o \in Objects, p \in Partitions :
                      handles'[o][p] = IF o.address = a /\ o.name \in columnFamilies[p]
                                       THEN "open" ELSE "none"
                /\ \A o \in Objects, p \in Partitions :
                      <<o, p>> \in approved' <=> o.address = a /\ o.name \in columnFamilies[p]
                /\ numberContainers' = Cardinality(OnDisk)
<1> USE DEF disk, refs, table, requests, bounds
<1>t. TypeOK
    BY DEF DurableInv
<1>1. \A n \in metadata : Complete(n)
    BY DEF DurableInv, WellDefinedTransaction, Complete
<1>2. phase' = "up" /\ UNCHANGED <<columnFamilies, metadata, tasks, serializer, gc, held, failures>>
    BY <1>1 DEF Start
<1>3. serializer.pc = "idle" /\ gc.pc = "bucket"
    BY DEF Start, DurableInv, ThreadsAreIdleWhenDown
<1>4. PICK a \in Addresses :
        /\ index' = [n \in Names |-> IF n \in DOMAIN Loaded(a) THEN Loaded(a)[n] ELSE NoContainer]
        /\ objects' = [o \in Objects |->
                IF o.name \notin DOMAIN Loaded(a) \/ o.address # a THEN "unallocated"
                ELSE IF o.name \in metadata THEN "active" ELSE "deleted"]
        /\ handles' = [o \in Objects |-> [p \in Partitions |->
                IF <<o, p>> \in Opened(a) THEN "open" ELSE "none"]]
        /\ approved' = Opened(a)
        /\ numberContainers' = Cardinality(DOMAIN Loaded(a))
    BY <1>1 DEF Start
<1>5. metadata \subseteq OnDisk
  <2>1. 0 \in Partitions
    BY NumPartitionsAssumption DEF Partitions
  <2> QED
    BY <1>1, <2>1 DEF Complete, OnDisk
<1>6. metadata \cup Orphans = OnDisk /\ DOMAIN Loaded(a) = OnDisk
    BY <1>5 DEF Orphans, Loaded
<1>7. \A n \in Names : index'[n] = IF n \in OnDisk THEN [name |-> n, address |-> a] ELSE NoContainer
    BY <1>4, <1>6 DEF Loaded
<1>8. \A n \in Names : n \in OnDisk =>
        objects'[[name |-> n, address |-> a]] = IF n \in metadata THEN "active" ELSE "deleted"
    BY <1>4, <1>6 DEF Objects
<1>9. \A o \in Objects, p \in Partitions :
        <<o, p>> \in approved' <=> o.address = a /\ o.name \in columnFamilies[p]
    BY <1>4 DEF Opened
<1>10. \A o \in Objects, p \in Partitions :
        handles'[o][p] = IF o.address = a /\ o.name \in columnFamilies[p] THEN "open" ELSE "none"
    BY <1>4 DEF Opened
<1> QED
    BY <1>2, <1>3, <1>4, <1>6, <1>7, <1>8, <1>9, <1>10

(* A start-up serves the containers of the metadata, with their references. *)
LEMMA MemoryStart == MemoryInv /\ DurableInv' /\ Start => MemoryInv'
<1> SUFFICES ASSUME MemoryInv, DurableInv', Start PROVE MemoryInv'
    OBVIOUS
<1>t. DurableInv
    BY DEF MemoryInv
<1>1. /\ phase' = "up" /\ serializer'.pc = "idle" /\ held' = held /\ held = NothingHeld
      /\ metadata' = metadata
    <2>1. phase = "down"
      BY DEF Start
    <2> QED
      BY <1>t, <2>1, StartLoadsDisk DEF MemoryInv, ReferencedObjectsExist
<1>2. PICK a \in Addresses :
        /\ \A n \in Names :
              index'[n] = IF n \in OnDisk THEN [name |-> n, address |-> a] ELSE NoContainer
        /\ \A n \in Names : n \in OnDisk =>
              objects'[[name |-> n, address |-> a]] =
                    IF n \in metadata THEN "active" ELSE "deleted"
        /\ \A o \in Objects, p \in Partitions :
              handles'[o][p] = IF o.address = a /\ o.name \in columnFamilies[p]
                               THEN "open" ELSE "none"
        /\ \A o \in Objects, p \in Partitions :
              <<o, p>> \in approved' <=> o.address = a /\ o.name \in columnFamilies[p]
    BY <1>t, StartLoadsDisk
<1>3. \A n \in metadata, p \in Partitions : n \in OnDisk /\ n \in columnFamilies[p]
  <2>1. \A n \in metadata, p \in Partitions : n \in columnFamilies[p]
    BY <1>t DEF DurableInv, WellDefinedTransaction
  <2>2. 0 \in Partitions
    BY NumPartitionsAssumption DEF Partitions
  <2> QED
    BY <2>1, <2>2 DEF OnDisk
<1>4. ChangeIsUnderway' /\ CreationHasItsHandles'
    BY <1>1 DEF ChangeIsUnderway, CreationHasItsHandles
<1>5. ReferencedObjectsExist'
    BY <1>1, <1>2 DEF ReferencedObjectsExist, NothingHeld
<1>6. \A n \in Names : Active(n)' <=> n \in metadata
  <2> SUFFICES ASSUME NEW n \in Names PROVE Active(n)' <=> n \in metadata
    OBVIOUS
  <2>1. [name |-> n, address |-> a] # NoContainer
    BY NoContainerAssumption DEF Objects
  <2> QED
    <3>1. CASE n \in OnDisk
      BY <1>2, <2>1, <3>1 DEF Active
    <3>2. CASE n \notin OnDisk
      <4>1. n \notin metadata
        <5>1. 0 \in Partitions
          BY NumPartitionsAssumption DEF Partitions
        <5> QED
          BY <1>3, <3>2, <5>1
      <4> QED
        BY <1>2, <3>2, <4>1 DEF Active
    <3> QED
      BY <3>1, <3>2
<1>7. IndexAgreesWithMetadata'
    BY <1>1, <1>6 DEF IndexAgreesWithMetadata, At
<1>8. HeldReferencesAreFenced'
  <2>1. ASSUME NEW n \in Names, NEW p \in Partitions, Active(n)'
        PROVE  handles'[index'[n]][p] = "open" /\ <<index'[n], p>> \in approved'
    <3>1. index'[n] = [name |-> n, address |-> a] /\ n \in columnFamilies[p]
      BY <1>2, <1>3, <1>6, <2>1
    <3>2. [name |-> n, address |-> a] \in Objects
      BY DEF Objects
    <3> QED
      BY <1>2, <3>1, <3>2
  <2> QED
    BY <1>1, <2>1 DEF HeldReferencesAreFenced, NothingHeld
<1> QED
    BY <1>4, <1>5, <1>7, <1>8 DEF MemoryInv

(* The invariants of the memory are inductive. *)
LEMMA MemoryStep == MemoryInv /\ [Next]_vars => MemoryInv'
<1> SUFFICES ASSUME MemoryInv, [Next]_vars PROVE MemoryInv'
    OBVIOUS
<1>1. DurableInv'
    BY DurableStep DEF MemoryInv
<1>2. CASE UNCHANGED vars
    BY <1>1, <1>2, MemoryUntouched DEF vars, disk, refs, table, requests, bounds, Task
<1> QED
    BY <1>1, <1>2, MemoryRequests, MemorySerializer, MemoryCollector, MemoryStart DEF Next

(* The strengthening holds in every reachable state: index, references and   *)
(* metadata agree up to the step a thread is taking.                       *)
THEOREM MemoryInvariant == Spec => []MemoryInv
    BY MemoryInit, MemoryStep, PTL DEF Spec

(* The index serves exactly the containers of the metadata, but for the     *)
(* step between the two changes of the serializer thread.                  *)
THEOREM IndexCorrect == Spec => []IndexAgreesWithMetadata
<1>1. MemoryInv => IndexAgreesWithMetadata
    BY DEF MemoryInv
<1> QED
    BY MemoryInvariant, <1>1, PTL

(* No request meets a closed handle or a fence that refuses it. *)
THEOREM FenceCorrect == Spec => []HeldReferencesAreFenced
<1>1. MemoryInv => HeldReferencesAreFenced
    BY DEF MemoryInv
<1> QED
    BY MemoryInvariant, <1>1, PTL

-------------------------------------------------------------------------------
(* The inductive invariant behind FreedNameHasNoResidue and HandlesAreOwned. *)

(* Without engine failures a creation meets no column family of its name.   *)
NothingIsAheadOfCreation ==
    serializer.pc = "create" => \A p \in Partitions :
        p >= serializer.partition /\ Task.name \in columnFamilies[p] => failures > 0

(* The collector has dropped what it has passed. *)
NothingIsBehindCollector ==
    /\ gc.pc # "drop" => gc.partition = 0
    /\ gc.pc = "drop" => \A p \in Partitions :
          p < gc.partition => gc.container.name \notin columnFamilies[p]
    /\ gc.pc = "erase" => \A p \in Partitions : gc.container.name \notin columnFamilies[p]

(* A handle that the fence would not let a destructor close is one of the   *)
(* creation in progress, or of one the storage engine failed.              *)
HandlesAreApproved ==
    \A o \in Objects, p \in Partitions : handles[o][p] # "none" =>
        \/ <<o, p>> \in approved
        \/ failures > 0
        \/ serializer.pc \in {"create", "metadata", "approve"} /\ serializer.container = o

(* The inductive invariant. *)
ResidueInv ==
    /\ MemoryInv
    /\ NothingIsAheadOfCreation
    /\ NothingIsBehindCollector
    /\ HandlesAreApproved
    /\ FreedNameHasNoResidue
    /\ HandlesAreOwned

(* An engine that failed stays known to have failed. *)
LEMMA FailuresAreRemembered ==
    ASSUME TypeOK, EngineFails PROVE failures' > 0
BY BoundsAssumption DEF TypeOK, EngineFails

(* A store without containers satisfies the invariant. *)
LEMMA ResidueInit == Init => ResidueInv
<1> SUFFICES ASSUME Init PROVE ResidueInv
    OBVIOUS
<1> QED
    BY MemoryInit
       DEF Init, EmptyIndex, NothingHeld, NoObjects, NoHandles, IdleSerializer, IdleCollector,
           ResidueInv, NothingIsAheadOfCreation, NothingIsBehindCollector, HandlesAreApproved,
           FreedNameHasNoResidue, HandlesAreOwned

(* A dead process has no handles, and frees no name. *)
LEMMA ResidueDeath ==
    ASSUME ProcessDies, MemoryInv' PROVE ResidueInv'
BY DEF ProcessDies, NoHandles, IdleSerializer, IdleCollector,
       ResidueInv, NothingIsAheadOfCreation, NothingIsBehindCollector, HandlesAreApproved,
       FreedNameHasNoResidue, HandlesAreOwned

(* Steps that leave families, references, the index and the locals of both  *)
(* threads alone.                                                          *)
LEMMA ResidueUntouched ==
    ASSUME ResidueInv, MemoryInv',
           UNCHANGED <<phase, columnFamilies, handles, approved, index, objects, serializer, gc, failures>>,
           serializer.pc # "idle" => Task' = Task
    PROVE  ResidueInv'
BY DEF ResidueInv, NothingIsAheadOfCreation, NothingIsBehindCollector, HandlesAreApproved,
       FreedNameHasNoResidue, HandlesAreOwned, Indexed, At

(* Requests, destructors and crashes keep the invariant: a destructor        *)
(* closes whatever was approved.                                           *)
LEMMA ResidueRequests == ResidueInv /\ MemoryInv' /\ RequestStep => ResidueInv'
<1> SUFFICES ASSUME ResidueInv, MemoryInv', RequestStep PROVE ResidueInv'
    OBVIOUS
<1> USE DEF disk, refs, table, requests, bounds
<1>t. TypeOK
    BY DEF ResidueInv, MemoryInv, DurableInv
<1>1. ASSUME NEW t \in Tasks, ValidateRequest(t) PROVE ResidueInv'
    BY <1>1, ResidueUntouched DEF ValidateRequest, Task
<1>2. ASSUME NEW t \in admitted, EnqueueRequest(t) PROVE ResidueInv'
  <2>1. t \in Tasks
    BY <1>t DEF TypeOK
  <2>2. serializer.pc # "idle" => Task' = Task
    BY <1>2, <1>t, <2>1, TaskKept DEF TypeOK, EnqueueRequest
  <2> QED
    BY <1>2, <2>2, ResidueUntouched DEF EnqueueRequest
<1>3. ASSUME NEW u \in Users, NEW n \in Names, AcquireContainer(u, n) PROVE ResidueInv'
    BY <1>3, ResidueUntouched DEF AcquireContainer, Task
<1>4. ASSUME NEW u \in Users, ReleaseContainer(u) PROVE ResidueInv'
    BY <1>4, ResidueUntouched DEF ReleaseContainer, Task
<1>5. ASSUME NEW o \in Objects, DestroyContainer(o) PROVE ResidueInv'
  <2>1. UNCHANGED <<phase, columnFamilies, index, serializer, gc, failures, tasks>> /\ Task' = Task
    BY <1>5 DEF DestroyContainer, Task
  <2>2. NothingIsAheadOfCreation' /\ NothingIsBehindCollector' /\ FreedNameHasNoResidue'
    BY <2>1 DEF ResidueInv, NothingIsAheadOfCreation, NothingIsBehindCollector,
                FreedNameHasNoResidue, Indexed, At
  <2>3. /\ \A c \in Objects \ {o} : handles'[c] = handles[c] /\ objects'[c] = objects[c]
        /\ \A c \in Objects \ {o}, p \in Partitions : <<c, p>> \in approved' <=> <<c, p>> \in approved
        /\ \A p \in Partitions : handles'[o][p] # "none" =>
              handles[o][p] # "none" /\ <<o, p>> \notin approved
    <3>1. <<handles, approved, objects>>' = <<[handles EXCEPT ![o] = Closed(o)], approved \ ({o} \X Partitions),
                                              [objects EXCEPT ![o] = "unallocated"]>>
      BY <1>5 DEF DestroyContainer
    <3>2. \A p \in Partitions : handles'[o][p] = Closed(o)[p] /\ <<o, p>> \notin approved'
      BY <1>t, <3>1 DEF TypeOK
    <3>3. \A p \in Partitions : handles'[o][p] # "none" =>
            handles[o][p] # "none" /\ <<o, p>> \notin approved
      BY <3>2 DEF Closed
    <3>4. \A c \in Objects \ {o} : handles'[c] = handles[c] /\ objects'[c] = objects[c]
      BY <1>t, <3>1 DEF TypeOK
    <3>5. \A c \in Objects \ {o}, p \in Partitions : <<c, p>> \in approved' <=> <<c, p>> \in approved
      BY <3>1
    <3> QED
      BY <3>3, <3>4, <3>5
  <2>4. ASSUME NEW c \in Objects, NEW p \in Partitions PROVE HandlesAreApproved!(c, p)' /\ HandlesAreOwned!(c, p)'
    <3>1. HandlesAreApproved!(c, p) /\ HandlesAreOwned!(c, p)
      BY DEF ResidueInv, HandlesAreApproved, HandlesAreOwned
    <3>2. CASE c # o
      BY <2>1, <2>3, <3>1, <3>2
    <3>3. CASE c = o
      BY <2>1, <2>3, <3>1, <3>3
    <3> QED
      BY <3>2, <3>3
  <2>5. HandlesAreApproved' /\ HandlesAreOwned'
    BY <2>4 DEF HandlesAreApproved, HandlesAreOwned
  <2> QED
    BY <2>2, <2>5 DEF ResidueInv
<1>6. CASE Crash
    BY <1>6, ResidueDeath DEF Crash
<1> QED
    BY <1>1, <1>2, <1>3, <1>4, <1>5, <1>6 DEF RequestStep

(* Every step of a creation or a removal keeps the invariant: what a         *)
(* creation that gives up leaves behind is there because the engine failed. *)
LEMMA ResidueSerializer == ResidueInv /\ MemoryInv' /\ SerializerStep => ResidueInv'
<1> SUFFICES ASSUME ResidueInv, MemoryInv', SerializerStep PROVE ResidueInv'
    OBVIOUS
<1> USE DEF disk, refs, table, requests, bounds
<1>t. TypeOK /\ DurableInv /\ MemoryInv /\ phase = "up"
    BY DEF ResidueInv, MemoryInv, DurableInv, SerializerStep
(* A step that only moves the serializer between program counters that      *)
(* excuse neither a family nor a handle.                                   *)
<1>w. ASSUME UNCHANGED <<phase, columnFamilies, handles, approved, index, gc>>,
             serializer'.pc \notin {"create", "metadata", "approve", "index", "count"},
             serializer.pc \in {"create", "metadata", "approve", "index"} => failures' > 0,
             failures > 0 => failures' > 0,
             \A o \in Objects : objects[o] # "unallocated" => objects'[o] # "unallocated"
      PROVE  ResidueInv'
  <2>1. NothingIsAheadOfCreation' /\ NothingIsBehindCollector'
    BY <1>w DEF ResidueInv, NothingIsAheadOfCreation, NothingIsBehindCollector
  <2>2. HandlesAreApproved'
    BY <1>w DEF ResidueInv, HandlesAreApproved
  <2>3. FreedNameHasNoResidue'
    BY <1>w DEF ResidueInv, FreedNameHasNoResidue, Indexed, At
  <2>4. HandlesAreOwned'
    <3>1. \A o \in Objects : serializer.container = o =>
              failures' > 0 \/ objects[o] # "unallocated"
      BY <1>w, <1>t, SerializerLocals, NoContainerAssumption DEF CreationCounters, MemoryInv, CreationHasItsHandles
    <3> QED
      BY <1>w, <3>1 DEF ResidueInv, HandlesAreOwned
  <2> QED
    BY <2>1, <2>2, <2>3, <2>4 DEF ResidueInv
<1>1. CASE BeginCreation
  <2>1. CASE Respond(ExistenceStatus(Task.name))
    BY <1>1, <2>1, <1>w DEF BeginCreation, Respond
  <2>2. ASSUME NEW a \in Addresses, ExistenceStatus(Task.name) = "container_not_exists",
               serializer' = [serializer EXCEPT !.pc = "create",
                                   !.container = [name |-> Task.name, address |-> a]]
        PROVE  ResidueInv'
    <3>1. /\ serializer'.pc = "create" /\ serializer'.partition = 0 /\ Task' = Task
          /\ serializer.pc = "idle" /\ serializer.container = NoContainer
      BY <1>1, <1>t, <2>2 DEF BeginCreation, TypeOK, SerializerStates, CreationCounters, Task
    <3>2. Task.name \in Names /\ Task.name \notin Indexed
      BY <1>1, <1>t, <2>2, TaskType DEF BeginCreation, Serving, ExistenceStatus, Indexed
    <3>3. NothingIsAheadOfCreation'
      BY <1>1, <1>t, <3>1, <3>2
         DEF BeginCreation, ResidueInv, FreedNameHasNoResidue, At, NothingIsAheadOfCreation
    <3>4. NothingIsBehindCollector'
      BY <1>1 DEF BeginCreation, ResidueInv, NothingIsBehindCollector
    <3>5. HandlesAreApproved'
      BY <1>1, <3>1 DEF BeginCreation, ResidueInv, HandlesAreApproved
    <3>6. FreedNameHasNoResidue'
      BY <1>1, <3>1 DEF BeginCreation, ResidueInv, FreedNameHasNoResidue, At, Indexed
    <3>7. HandlesAreOwned'
      BY <1>1, <3>1, NoContainerAssumption DEF BeginCreation, ResidueInv, HandlesAreOwned
    <3> QED
      BY <3>3, <3>4, <3>5, <3>6, <3>7 DEF ResidueInv
  <2> QED
    BY <1>1, <2>1, <2>2 DEF BeginCreation
<1>2. CASE CreateInstance
  <2>1. /\ serializer.container \in Objects /\ serializer.partition \in Partitions
        /\ serializer.container.name = Task.name
        /\ gc.pc \in {"drop", "erase"} => gc.container.name # Task.name
        /\ UNCHANGED <<phase, approved, index, objects, gc, failures, tasks>> /\ Task' = Task
    BY <1>2, <1>t, SerializerLocals, CollectorLocals DEF CreateInstance, CreationCounters, Task
  <2>2. /\ serializer'.container = serializer.container
        /\ \/ serializer'.pc = "create" /\ serializer'.partition = serializer.partition + 1
           \/ serializer'.pc = "metadata" /\ serializer.partition + 1 \notin Partitions
    BY <1>2, <1>t DEF CreateInstance, TypeOK, SerializerStates, CreationCounters
  <2>3. /\ \A p \in Partitions \ {serializer.partition} : columnFamilies'[p] = columnFamilies[p]
        /\ columnFamilies'[serializer.partition] = columnFamilies[serializer.partition] \cup {Task.name}
        /\ \A o \in Objects \ {serializer.container} : handles'[o] = handles[o]
    BY <1>2, <1>t, <2>1 DEF CreateInstance, TypeOK
  <2>4. NothingIsAheadOfCreation'
    <3>1. \A p \in Partitions : p >= serializer.partition + 1 =>
              p >= serializer.partition /\ p # serializer.partition
      BY <2>1 DEF Partitions
    <3> QED
      BY <1>2, <2>1, <2>2, <2>3, <3>1 DEF CreateInstance, ResidueInv, NothingIsAheadOfCreation
  <2>5. NothingIsBehindCollector'
    BY <2>1, <2>3 DEF ResidueInv, NothingIsBehindCollector
  <2>6. HandlesAreApproved' /\ HandlesAreOwned'
    BY <1>2, <2>1, <2>2, <2>3 DEF CreateInstance, ResidueInv, HandlesAreApproved, HandlesAreOwned
  <2>7. FreedNameHasNoResidue'
    BY <1>2, <2>1, <2>2, <2>3 DEF CreateInstance, ResidueInv, FreedNameHasNoResidue, At, Indexed
  <2> QED
    BY <2>4, <2>5, <2>6, <2>7 DEF ResidueInv
<1>3. CASE FailCreateInstance
  <2>1. failures' > 0
    <3>1. CASE EngineFails
      BY <1>t, <3>1, FailuresAreRemembered
    <3>2. CASE serializer.container.name \in columnFamilies[serializer.partition] /\ UNCHANGED bounds
      <4>1. serializer.container.name = Task.name /\ serializer.partition \in Partitions
        BY <1>3, <1>t, SerializerLocals DEF FailCreateInstance, CreationCounters
      <4>2. serializer.partition >= serializer.partition
        BY <4>1 DEF Partitions
      <4> QED
        BY <1>3, <3>2, <4>1, <4>2 DEF FailCreateInstance, ResidueInv, NothingIsAheadOfCreation
    <3> QED
      BY <1>3, <3>1, <3>2 DEF FailCreateInstance
  <2> QED
    BY <1>3, <2>1, <1>w DEF FailCreateInstance, Respond
<1>4. CASE PutMetadata
  <2>1. CASE Respond("object_insertion_failed") /\ EngineFails
    BY <1>4, <1>t, <2>1, <1>w, FailuresAreRemembered DEF PutMetadata, Respond
  <2>2. CASE serializer' = [serializer EXCEPT !.pc = "approve"] /\ UNCHANGED bounds
    <3>1. serializer'.pc = "approve" /\ serializer'.container = serializer.container /\ Task' = Task
      BY <1>4, <1>t, <2>2 DEF PutMetadata, TypeOK, SerializerStates, CreationCounters, Task
    <3> QED
      BY <1>4, <2>2, <3>1
         DEF PutMetadata, ResidueInv, NothingIsAheadOfCreation, NothingIsBehindCollector,
             HandlesAreApproved, FreedNameHasNoResidue, HandlesAreOwned, Indexed, At
  <2> QED
    BY <1>4, <2>1, <2>2 DEF PutMetadata
<1>5. CASE ApproveReferences
  <2>1. serializer'.pc = "index" /\ serializer'.container = serializer.container /\ Task' = Task
    BY <1>5, <1>t DEF ApproveReferences, TypeOK, SerializerStates, CreationCounters, Task
  <2> QED
    BY <1>5, <2>1
       DEF ApproveReferences, ResidueInv, NothingIsAheadOfCreation, NothingIsBehindCollector,
           HandlesAreApproved, FreedNameHasNoResidue, HandlesAreOwned, Indexed, At
<1>6. CASE InsertIntoIndex
  <2>1. /\ serializer.container \in Objects /\ serializer.container # NoContainer
        /\ serializer.container.name = Task.name /\ Task.name \in Names
        /\ index[Task.name] = NoContainer
    BY <1>6, <1>t, SerializerLocals DEF InsertIntoIndex, CreationCounters
  <2>2. /\ serializer'.pc = "count" /\ serializer'.container = serializer.container
        /\ index' = [index EXCEPT ![Task.name] = serializer.container]
        /\ objects' = [objects EXCEPT ![serializer.container] = "active"]
        /\ UNCHANGED <<phase, columnFamilies, handles, approved, gc, failures>>
    BY <1>6, <1>t, <2>1 DEF InsertIntoIndex, TypeOK, SerializerStates, CreationCounters
  <2>3. NothingIsAheadOfCreation' /\ NothingIsBehindCollector'
    BY <2>2 DEF ResidueInv, NothingIsAheadOfCreation, NothingIsBehindCollector
  <2>4. HandlesAreApproved'
    BY <1>6, <2>2 DEF InsertIntoIndex, ResidueInv, HandlesAreApproved
  <2>5. FreedNameHasNoResidue'
    <3>1. \A n \in Names : n \notin Indexed' => n # Task.name /\ n \notin Indexed
      BY <1>t, <2>1, <2>2 DEF Indexed, TypeOK
    <3> QED
      BY <1>6, <2>2, <3>1 DEF InsertIntoIndex, ResidueInv, FreedNameHasNoResidue, At
  <2>6. HandlesAreOwned'
    BY <1>t, <2>1, <2>2 DEF ResidueInv, HandlesAreOwned, TypeOK
  <2> QED
    BY <2>3, <2>4, <2>5, <2>6 DEF ResidueInv
<1>7. CASE CountContainer
    BY <1>7, <1>w DEF CountContainer, Respond
<1>8. CASE BeginRemoval
  <2>1. serializer'.pc \notin {"create", "metadata", "approve", "index", "count"}
    BY <1>8, <1>t DEF BeginRemoval, Respond, TypeOK, SerializerStates, CreationCounters
  <2> QED
    BY <1>8, <2>1, <1>w DEF BeginRemoval
<1>9. CASE DeleteMetadata
  <2>1. serializer'.pc \notin {"create", "metadata", "approve", "index", "count"}
    BY <1>9, <1>t DEF DeleteMetadata, Respond, TypeOK, SerializerStates, CreationCounters
  <2>2. failures > 0 => failures' > 0
    BY <1>9, <1>t, FailuresAreRemembered DEF DeleteMetadata
  <2> QED
    BY <1>9, <2>1, <2>2, <1>w DEF DeleteMetadata
<1>10. CASE MarkAsDeleted
  <2>1. \A o \in Objects : objects[o] # "unallocated" => objects'[o] # "unallocated"
    BY <1>10, <1>t DEF MarkAsDeleted, TypeOK
  <2>2. serializer'.pc = "respond"
    BY <1>10 DEF MarkAsDeleted, Respond
  <2> QED
    BY <1>10, <2>1, <2>2, <1>w DEF MarkAsDeleted
<1>11. CASE SendResponse
    BY <1>11, <1>w DEF SendResponse, IdleSerializer
<1> QED
    BY <1>1, <1>2, <1>3, <1>4, <1>5, <1>6, <1>7, <1>8, <1>9, <1>10, <1>11 DEF SerializerStep

(* Every step of the collector keeps the invariant: it frees a name only     *)
(* when it has passed all partitions.                                      *)
LEMMA ResidueCollector == ResidueInv /\ MemoryInv' /\ CollectorStep => ResidueInv'
<1> SUFFICES ASSUME ResidueInv, MemoryInv', CollectorStep PROVE ResidueInv'
    OBVIOUS
<1> USE DEF disk, refs, table, requests, bounds
<1>t. TypeOK /\ DurableInv /\ MemoryInv
    BY DEF ResidueInv, MemoryInv, DurableInv
(* A step that only moves the collector. *)
<1>w. ASSUME UNCHANGED <<phase, columnFamilies, handles, approved, index, objects, serializer, tasks>>,
             failures > 0 => failures' > 0,
             NothingIsBehindCollector'
      PROVE  ResidueInv'
  <2>1. Task' = Task
    BY <1>w DEF Task
  <2> QED
    BY <1>w, <2>1
       DEF ResidueInv, NothingIsAheadOfCreation, HandlesAreApproved, FreedNameHasNoResidue,
           HandlesAreOwned, Indexed, At
<1>p. \A p \in Partitions : ~ p < 0
    BY DEF Partitions
<1>1. CASE GCSnapshotBucket
  <2>1. gc'.pc = "scan" /\ gc'.partition = gc.partition
    BY <1>1, <1>t DEF GCSnapshotBucket, TypeOK, CollectorStates
  <2>2. NothingIsBehindCollector'
    BY <1>1, <2>1 DEF GCSnapshotBucket, ResidueInv, NothingIsBehindCollector
  <2> QED
    BY <1>1, <2>2, <1>w DEF GCSnapshotBucket
<1>2. ASSUME NEW o \in Objects, GCInspect(o) PROVE ResidueInv'
  <2>1. gc'.pc \in {"scan", "drop"} /\ gc'.partition = gc.partition
    BY <1>2, <1>t DEF GCInspect, TypeOK, CollectorStates
  <2>2. NothingIsBehindCollector'
    BY <1>2, <1>p, <2>1 DEF GCInspect, ResidueInv, NothingIsBehindCollector
  <2> QED
    BY <1>2, <2>2, <1>w DEF GCInspect
<1>3. CASE GCDropInstance
  <2>1. /\ gc.container \in Objects /\ gc.container.name \in Names /\ gc.partition \in Partitions
        /\ UNCHANGED <<phase, approved, index, objects, serializer, failures, tasks>> /\ Task' = Task
        /\ <<gc.container, gc.partition>> \in approved /\ handles[gc.container][gc.partition] # "none"
    BY <1>3, <1>t, CollectorLocals DEF GCDropInstance, Task
  <2>2. /\ \A p \in Partitions : columnFamilies'[p] \subseteq columnFamilies[p]
        /\ gc.container.name \notin columnFamilies'[gc.partition]
        /\ \A o \in Objects, p \in Partitions : handles'[o][p] # "none" => handles[o][p] # "none"
    BY <1>3, <1>t, <2>1 DEF GCDropInstance, TypeOK
  <2>3. /\ gc'.container = gc.container
        /\ \/ gc'.pc = "drop" /\ gc'.partition = gc.partition + 1
           \/ gc'.pc = "erase" /\ gc'.partition = 0 /\ gc.partition + 1 \notin Partitions
    BY <1>3, <1>t DEF GCDropInstance, TypeOK, CollectorStates
  <2>4. NothingIsBehindCollector'
    <3>1. \A p \in Partitions : p <= gc.partition => gc.container.name \notin columnFamilies'[p]
      <4>1. \A p \in Partitions : p <= gc.partition => p < gc.partition \/ p = gc.partition
        BY <2>1 DEF Partitions
      <4> QED
        BY <1>3, <2>2, <4>1 DEF GCDropInstance, ResidueInv, NothingIsBehindCollector
    <3>2. gc.partition + 1 \notin Partitions => \A p \in Partitions : p <= gc.partition
      BY <2>1, NumPartitionsAssumption DEF Partitions
    <3>3. \A p \in Partitions : p < gc.partition + 1 => p <= gc.partition
      BY <2>1 DEF Partitions
    <3> QED
      BY <2>3, <3>1, <3>2, <3>3 DEF NothingIsBehindCollector
  <2>5. NothingIsAheadOfCreation' /\ HandlesAreApproved' /\ HandlesAreOwned'
    BY <2>1, <2>2 DEF ResidueInv, NothingIsAheadOfCreation, HandlesAreApproved, HandlesAreOwned
  <2>6. FreedNameHasNoResidue'
    BY <2>1, <2>2 DEF ResidueInv, FreedNameHasNoResidue, Indexed, At
  <2> QED
    BY <2>4, <2>5, <2>6 DEF ResidueInv
<1>4. CASE GCFailDrop
  <2>1. gc'.pc = "scan" /\ gc'.partition = 0
    BY <1>4, <1>t DEF GCFailDrop, TypeOK, CollectorStates
  <2>2. failures > 0 => failures' > 0
    BY <1>4, <1>t, FailuresAreRemembered DEF GCFailDrop
  <2>3. NothingIsBehindCollector'
    BY <2>1 DEF NothingIsBehindCollector
  <2> QED
    BY <1>4, <2>2, <2>3, <1>w DEF GCFailDrop
<1>5. CASE GCNullReference
    BY <1>5, ResidueDeath DEF GCNullReference
<1>6. CASE GCEraseFromIndex
  <2>1. /\ gc.container.name \in Names /\ index[gc.container.name] = gc.container
        /\ gc.container # NoContainer
    BY <1>6, <1>t, CollectorLocals DEF GCEraseFromIndex
  <2>2. /\ gc'.pc = "uncount" /\ gc'.partition = 0
        /\ \A n \in Names \ {gc.container.name} : index'[n] = index[n]
    BY <1>6, <1>t, <2>1
       DEF GCEraseFromIndex, TypeOK, CollectorStates, ResidueInv, NothingIsBehindCollector
  <2>3. UNCHANGED <<phase, columnFamilies, handles, approved, objects, serializer, failures, tasks>>
        /\ Task' = Task
    BY <1>6 DEF GCEraseFromIndex, Task
  <2>4. NothingIsBehindCollector'
    BY <2>2 DEF NothingIsBehindCollector
  <2>5. NothingIsAheadOfCreation' /\ HandlesAreApproved' /\ HandlesAreOwned'
    BY <2>3 DEF ResidueInv, NothingIsAheadOfCreation, HandlesAreApproved, HandlesAreOwned
  <2>6. FreedNameHasNoResidue'
    <3>1. \A p \in Partitions : gc.container.name \notin columnFamilies[p]
      BY <1>6 DEF GCEraseFromIndex, ResidueInv, NothingIsBehindCollector
    <3>2. \A n \in Names : n \notin Indexed' => n = gc.container.name \/ n \notin Indexed
      BY <2>2 DEF Indexed
    <3> QED
      BY <2>3, <3>1, <3>2 DEF ResidueInv, FreedNameHasNoResidue, At
  <2> QED
    BY <2>4, <2>5, <2>6 DEF ResidueInv
<1>7. CASE GCUncount
  <2>1. gc'.pc = "scan" /\ gc'.partition = gc.partition
    BY <1>7, <1>t DEF GCUncount, TypeOK, CollectorStates
  <2>2. NothingIsBehindCollector'
    BY <1>7, <2>1 DEF GCUncount, ResidueInv, NothingIsBehindCollector
  <2> QED
    BY <1>7, <2>2, <1>w DEF GCUncount
<1>8. CASE GCFinishBucket
  <2>1. gc'.pc = "bucket" /\ gc'.partition = 0
    BY <1>8 DEF GCFinishBucket, IdleCollector
  <2>2. NothingIsBehindCollector'
    BY <2>1 DEF NothingIsBehindCollector
  <2> QED
    BY <1>8, <2>2, <1>w DEF GCFinishBucket
<1> QED
    BY <1>1, <1>2, <1>3, <1>4, <1>5, <1>6, <1>7, <1>8 DEF CollectorStep

(* A start-up indexes whatever is on the disk, and owns what it opens. *)
LEMMA ResidueStart == ResidueInv /\ MemoryInv' /\ Start => ResidueInv'
<1> SUFFICES ASSUME ResidueInv, MemoryInv', Start PROVE ResidueInv'
    OBVIOUS
<1>t. DurableInv
    BY DEF ResidueInv, MemoryInv
<1>1. /\ UNCHANGED <<columnFamilies, serializer, gc, failures>>
      /\ serializer.pc = "idle" /\ gc.pc = "bucket"
    BY <1>t, StartLoadsDisk
<1>2. PICK a \in Addresses :
        /\ \A n \in Names :
              index'[n] = IF n \in OnDisk THEN [name |-> n, address |-> a] ELSE NoContainer
        /\ \A n \in Names : n \in OnDisk =>
              objects'[[name |-> n, address |-> a]] =
                    IF n \in metadata THEN "active" ELSE "deleted"
        /\ \A o \in Objects, p \in Partitions :
              handles'[o][p] = IF o.address = a /\ o.name \in columnFamilies[p]
                               THEN "open" ELSE "none"
        /\ \A o \in Objects, p \in Partitions :
              <<o, p>> \in approved' <=> o.address = a /\ o.name \in columnFamilies[p]
    BY <1>t, StartLoadsDisk
<1>3. NothingIsAheadOfCreation' /\ NothingIsBehindCollector'
    BY <1>1 DEF ResidueInv, NothingIsAheadOfCreation, NothingIsBehindCollector
<1>4. HandlesAreApproved'
    BY <1>2 DEF HandlesAreApproved
<1>5. FreedNameHasNoResidue'
  <2>1. \A n \in Names, p \in Partitions : n \in columnFamilies[p] => n \in Indexed'
    <3> SUFFICES ASSUME NEW n \in Names, NEW p \in Partitions, n \in columnFamilies[p]
                 PROVE  n \in Indexed'
      OBVIOUS
    <3>1. n \in OnDisk
      BY DEF OnDisk
    <3>2. [name |-> n, address |-> a] # NoContainer
      BY NoContainerAssumption DEF Objects
    <3> QED
      BY <1>2, <3>1, <3>2 DEF Indexed
  <2> QED
    BY <1>1, <2>1 DEF FreedNameHasNoResidue
<1>6. HandlesAreOwned'
  <2> SUFFICES ASSUME NEW o \in Objects, NEW p \in Partitions, handles'[o][p] # "none"
               PROVE  objects'[o] # "unallocated"
    BY DEF HandlesAreOwned
  <2>1. o.address = a /\ o.name \in columnFamilies[p]
    BY <1>2
  <2>2. o.name \in OnDisk /\ o.name \in Names /\ o = [name |-> o.name, address |-> a]
    BY <2>1 DEF OnDisk, Objects
  <2> QED
    BY <1>2, <2>2
<1> QED
    BY <1>3, <1>4, <1>5, <1>6 DEF ResidueInv

(* The invariant is inductive. *)
LEMMA ResidueStep == ResidueInv /\ [Next]_vars => ResidueInv'
<1> SUFFICES ASSUME ResidueInv, [Next]_vars PROVE ResidueInv'
    OBVIOUS
<1>1. MemoryInv'
    BY MemoryStep DEF ResidueInv
<1>2. CASE UNCHANGED vars
    BY <1>1, <1>2, ResidueUntouched DEF vars, disk, refs, table, requests, bounds, Task
<1> QED
    BY <1>1, <1>2, ResidueRequests, ResidueSerializer, ResidueCollector, ResidueStart DEF Next

(* The strengthening holds in every reachable state: families and handles   *)
(* have an owner, or an engine failure to excuse them.                     *)
THEOREM ResidueInvariant == Spec => []ResidueInv
    BY ResidueInit, ResidueStep, PTL DEF Spec

(* A name the index does not know can be created, unless the engine failed   *)
(* before or the creation is under way.                                    *)
THEOREM ResidueCorrect == Spec => []FreedNameHasNoResidue
<1>1. ResidueInv => FreedNameHasNoResidue
    BY DEF ResidueInv
<1> QED
    BY ResidueInvariant, <1>1, PTL

(* Only a creation the storage engine failed leaks column family handles. *)
THEOREM OwnershipCorrect == Spec => []HandlesAreOwned
<1>1. ResidueInv => HandlesAreOwned
    BY DEF ResidueInv
<1> QED
    BY ResidueInvariant, <1>1, PTL

-------------------------------------------------------------------------------
(* The inductive invariant behind DropsAreAccepted.                        *)

(* What waits for the collector is approved wherever it has a handle, and   *)
(* has one everywhere unless a start-up loaded it after a crash.           *)
DeletedIsApproved ==
    \A o \in Objects, p \in Partitions : objects[o] = "deleted" =>
        /\ handles[o][p] # "none" => <<o, p>> \in approved
        /\ handles[o][p] = "none" => crashes > 0

(* A process dies of a crash, or of a null reference that a crash left.     *)
DeathsAreCrashes == phase # "up" => crashes > 0

(* A dropped family of an indexed container is one the collector has passed *)
(* in this very iteration, unless an engine failure stopped it before.      *)
DroppedIsBehind ==
    \A n \in Names, p \in Partitions :
        index[n] # NoContainer /\ handles[index[n]][p] = "dropped" =>
            \/ failures > 0
            \/ gc.pc = "drop" /\ gc.container = index[n] /\ p < gc.partition
            \/ gc.pc = "erase" /\ gc.container = index[n]

(* The inductive invariant. *)
DropInv ==
    /\ MemoryInv
    /\ DeletedIsApproved
    /\ DeathsAreCrashes
    /\ DroppedIsBehind

(* The invariant says what the collector's next drop meets. *)
LEMMA NextDrop == DropInv => DropsAreAccepted
<1> SUFFICES ASSUME DropInv, gc.pc = "drop" PROVE DropsAreAccepted
    BY DEF DropsAreAccepted
<1> DEFINE o == gc.container
           p == gc.partition
<1>1. /\ o \in Objects /\ p \in Partitions /\ o.name \in Names /\ o # NoContainer
      /\ index[o.name] = o /\ objects[o] = "deleted"
    BY CollectorLocals DEF DropInv, MemoryInv
<1>2. handles[o][p] \in {"none", "open", "dropped"}
    BY <1>1 DEF DropInv, MemoryInv, DurableInv, TypeOK
<1>3. handles[o][p] # "none" => <<o, p>> \in approved
    BY <1>1 DEF DropInv, DeletedIsApproved
<1>4. handles[o][p] = "none" => crashes > 0
    BY <1>1 DEF DropInv, DeletedIsApproved
<1>5. handles[o][p] = "dropped" => failures > 0
  <2>1. ~ p < p
    BY <1>1 DEF Partitions
  <2> QED
    BY <1>1, <2>1 DEF DropInv, DroppedIsBehind
<1> QED
    BY <1>2, <1>3, <1>4, <1>5 DEF DropsAreAccepted

(* A step that touches neither references nor what is dead or indexed. *)
LEMMA DropUntouched ==
    ASSUME DropInv, MemoryInv',
           UNCHANGED <<phase, handles, approved, index, crashes>>,
           \A o \in Objects : objects'[o] = "deleted" => objects[o] = "deleted",
           failures > 0 => failures' > 0,
           gc.pc \in {"drop", "erase"} =>
               \/ failures' > 0
               \/ gc'.pc = gc.pc /\ gc'.container = gc.container /\ gc'.partition = gc.partition
               \/ \A p \in Partitions : handles[gc.container][p] # "dropped"
    PROVE  DropInv'
<1>1. DeletedIsApproved' /\ DeathsAreCrashes'
    BY DEF DropInv, DeletedIsApproved, DeathsAreCrashes
<1>2. DroppedIsBehind'
    BY DEF DropInv, DroppedIsBehind
<1> QED
    BY <1>1, <1>2 DEF DropInv

(* A process that dies of a crash. *)
LEMMA DropDeath ==
    ASSUME ProcessDies, MemoryInv', crashes' > 0 PROVE DropInv'
BY DEF ProcessDies, NoObjects, EmptyIndex, DropInv, DeletedIsApproved, DeathsAreCrashes, DroppedIsBehind

(* Requests and destructors keep the invariant. *)
LEMMA DropRequests == DropInv /\ MemoryInv' /\ RequestStep => DropInv'
<1> SUFFICES ASSUME DropInv, MemoryInv', RequestStep PROVE DropInv'
    OBVIOUS
<1> USE DEF disk, refs, table, requests, bounds
<1>t. TypeOK
    BY DEF DropInv, MemoryInv, DurableInv
<1>1. ASSUME NEW t \in Tasks, ValidateRequest(t) PROVE DropInv'
    BY <1>1, DropUntouched DEF ValidateRequest
<1>2. ASSUME NEW t \in admitted, EnqueueRequest(t) PROVE DropInv'
    BY <1>2, DropUntouched DEF EnqueueRequest
<1>3. ASSUME NEW u \in Users, NEW n \in Names, AcquireContainer(u, n) PROVE DropInv'
    BY <1>3, DropUntouched DEF AcquireContainer
<1>4. ASSUME NEW u \in Users, ReleaseContainer(u) PROVE DropInv'
    BY <1>4, DropUntouched DEF ReleaseContainer
<1>5. ASSUME NEW o \in Objects, DestroyContainer(o) PROVE DropInv'
  <2>1. UNCHANGED <<phase, index, gc, failures, crashes>> /\ objects'[o] = "unallocated"
    BY <1>5, <1>t DEF DestroyContainer, TypeOK
  <2>2. \A c \in Objects \ {o} :
            /\ handles'[c] = handles[c] /\ objects'[c] = objects[c]
            /\ \A p \in Partitions : <<c, p>> \in approved' <=> <<c, p>> \in approved
    BY <1>5, <1>t DEF DestroyContainer, TypeOK
  <2>3. DeletedIsApproved' /\ DeathsAreCrashes'
    BY <2>1, <2>2 DEF DropInv, DeletedIsApproved, DeathsAreCrashes
  <2>4. DroppedIsBehind'
    <3>1. \A n \in Names : index[n] # NoContainer => index[n] \in Objects /\ index[n] # o
      BY <1>5, <1>t DEF DestroyContainer, Referenced, TypeOK, DropInv, MemoryInv, DurableInv,
                        CollectorKeepsItsObjects
    <3> QED
      BY <2>1, <2>2, <3>1 DEF DropInv, DroppedIsBehind
  <2> QED
    BY <2>3, <2>4 DEF DropInv
<1>6. CASE Crash
  <2>1. crashes' > 0
    BY <1>6, <1>t DEF Crash, TypeOK
  <2> QED
    BY <1>6, <2>1, DropDeath DEF Crash
<1> QED
    BY <1>1, <1>2, <1>3, <1>4, <1>5, <1>6 DEF RequestStep

(* So does the serializer thread: a container is removed while it is active *)
(* and has an approved, open reference on every partition.                 *)
LEMMA DropSerializer == DropInv /\ MemoryInv' /\ SerializerStep => DropInv'
<1> SUFFICES ASSUME DropInv, MemoryInv', SerializerStep PROVE DropInv'
    OBVIOUS
<1> USE DEF disk, refs, table, requests, bounds
<1>t. TypeOK /\ DurableInv /\ MemoryInv
    BY DEF DropInv, MemoryInv, DurableInv
<1>w. ASSUME UNCHANGED <<phase, handles, approved, index, objects, gc, crashes>>,
             failures > 0 => failures' > 0
      PROVE  DropInv'
    BY <1>w, DropUntouched
<1>f. EngineFails => crashes' = crashes /\ failures' > 0
    BY <1>t, FailuresAreRemembered DEF EngineFails
<1>1. CASE BeginCreation \/ CountContainer \/ BeginRemoval \/ SendResponse
    BY <1>1, <1>w DEF BeginCreation, CountContainer, BeginRemoval, SendResponse
<1>2. CASE FailCreateInstance \/ PutMetadata \/ DeleteMetadata
    BY <1>2, <1>w, <1>f DEF FailCreateInstance, PutMetadata, DeleteMetadata
<1>3. CASE CreateInstance
  <2>1. /\ serializer.container \in Objects /\ serializer.partition \in Partitions
        /\ objects[serializer.container] = "unallocated"
        /\ UNCHANGED <<phase, approved, index, objects, gc, failures, crashes>>
    BY <1>3, <1>t, SerializerLocals DEF CreateInstance, CreationCounters, MemoryInv, CreationHasItsHandles
  <2>2. /\ \A o \in Objects \ {serializer.container} : handles'[o] = handles[o]
        /\ \A o \in Objects, p \in Partitions : handles'[o][p] = handles[o][p] \/ handles'[o][p] = "open"
    BY <1>3, <1>t, <2>1 DEF CreateInstance, TypeOK
  <2>3. DeletedIsApproved' /\ DeathsAreCrashes'
    BY <2>1, <2>2 DEF DropInv, DeletedIsApproved, DeathsAreCrashes
  <2>4. DroppedIsBehind'
    BY <1>t, <2>1, <2>2 DEF DropInv, DroppedIsBehind, TypeOK
  <2> QED
    BY <2>3, <2>4 DEF DropInv
<1>4. CASE ApproveReferences
  <2>1. approved \subseteq approved' /\ UNCHANGED <<phase, handles, index, objects, gc, failures, crashes>>
    BY <1>4 DEF ApproveReferences
  <2> QED
    BY <2>1 DEF DropInv, DeletedIsApproved, DeathsAreCrashes, DroppedIsBehind
<1>5. CASE InsertIntoIndex
  <2> DEFINE o == serializer.container
  <2>1. /\ o \in Objects /\ o # NoContainer /\ o.name = Task.name /\ Task.name \in Names
        /\ index[o.name] = NoContainer
        /\ \A p \in Partitions : handles[o][p] = "open"
    BY <1>5, <1>t, SerializerLocals
       DEF InsertIntoIndex, CreationCounters, MemoryInv, CreationHasItsHandles
  <2>2. /\ UNCHANGED <<phase, handles, approved, gc, failures, crashes>>
        /\ index' = [index EXCEPT ![o.name] = o]
        /\ objects' = [objects EXCEPT ![o] = "active"]
    BY <1>5, <2>1 DEF InsertIntoIndex
  <2>3. DeletedIsApproved' /\ DeathsAreCrashes'
    BY <1>t, <2>1, <2>2 DEF DropInv, DeletedIsApproved, DeathsAreCrashes, TypeOK
  <2>4. DroppedIsBehind'
    BY <1>t, <2>1, <2>2 DEF DropInv, DroppedIsBehind, TypeOK
  <2> QED
    BY <2>3, <2>4 DEF DropInv
<1>6. CASE MarkAsDeleted
  <2> DEFINE o == index[Task.name]
  <2>1. /\ Task.name \in Names /\ Active(Task.name) /\ o \in Objects
        /\ \A p \in Partitions : handles[o][p] = "open" /\ <<o, p>> \in approved
    BY <1>6, <1>t, SerializerLocals
       DEF MarkAsDeleted, MemoryInv, ChangeIsUnderway, HeldReferencesAreFenced, Active, TypeOK
  <2>2. /\ UNCHANGED <<phase, handles, approved, index, gc, failures, crashes>>
        /\ objects' = [objects EXCEPT ![o] = "deleted"]
    BY <1>6, <2>1 DEF MarkAsDeleted, Active
  <2>3. DeletedIsApproved' /\ DeathsAreCrashes'
    BY <1>t, <2>1, <2>2 DEF DropInv, DeletedIsApproved, DeathsAreCrashes, TypeOK
  <2>4. DroppedIsBehind'
    BY <2>2 DEF DropInv, DroppedIsBehind
  <2> QED
    BY <2>3, <2>4 DEF DropInv
<1> QED
    BY <1>1, <1>2, <1>3, <1>4, <1>5, <1>6 DEF SerializerStep

(* So does the collector: what it drops it goes on to erase, and a drop that *)
(* fails has an engine failure to blame.                                   *)
LEMMA DropCollector == DropInv /\ MemoryInv' /\ CollectorStep => DropInv'
<1> SUFFICES ASSUME DropInv, MemoryInv', CollectorStep PROVE DropInv'
    OBVIOUS
<1> USE DEF disk, refs, table, requests, bounds
<1>t. TypeOK /\ DurableInv /\ MemoryInv
    BY DEF DropInv, MemoryInv, DurableInv
<1>f. EngineFails => crashes' = crashes /\ failures' > 0
    BY <1>t, FailuresAreRemembered DEF EngineFails
<1>1. CASE GCSnapshotBucket \/ GCUncount \/ GCFinishBucket \/ \E o \in Objects : GCInspect(o)
    BY <1>1, DropUntouched DEF GCSnapshotBucket, GCUncount, GCFinishBucket, GCInspect
<1>2. CASE GCDropInstance
  <2> DEFINE o == gc.container
             p == gc.partition
  <2>1. /\ o \in Objects /\ p \in Partitions /\ o.name \in Names /\ index[o.name] = o
        /\ <<o, p>> \in approved /\ handles[o][p] = "open"
        /\ UNCHANGED <<phase, approved, index, objects, failures, crashes>>
    BY <1>2, <1>t, CollectorLocals DEF GCDropInstance
  <2>2. /\ \A c \in Objects \ {o} : handles'[c] = handles[c]
        /\ \A q \in Partitions \ {p} : handles'[o][q] = handles[o][q]
        /\ handles'[o][p] = "dropped"
    BY <1>2, <1>t, <2>1 DEF GCDropInstance, TypeOK
  <2>3. /\ gc'.container = o
        /\ \/ gc'.pc = "drop" /\ gc'.partition = p + 1
           \/ gc'.pc = "erase"
    BY <1>2, <1>t DEF GCDropInstance, TypeOK, CollectorStates
  <2>4. DeletedIsApproved' /\ DeathsAreCrashes'
    BY <2>1, <2>2 DEF DropInv, DeletedIsApproved, DeathsAreCrashes
  <2>5. DroppedIsBehind'
    <3> SUFFICES ASSUME NEW n \in Names, NEW q \in Partitions,
                        index[n] # NoContainer, handles'[index[n]][q] = "dropped"
                 PROVE  \/ failures > 0
                        \/ gc'.pc = "drop" /\ gc'.container = index[n] /\ q < gc'.partition
                        \/ gc'.pc = "erase" /\ gc'.container = index[n]
      BY <2>1 DEF DroppedIsBehind
    <3>1. index[n] \in Objects
      BY <1>t DEF TypeOK
    <3>2. CASE index[n] = o /\ q = p
      <4>1. p < p + 1
        BY <2>1 DEF Partitions
      <4> QED
        BY <2>3, <3>2, <4>1
    <3>3. CASE index[n] # o \/ q # p
      <4>1. handles[index[n]][q] = "dropped"
        BY <2>2, <3>1, <3>3
      <4>2. failures > 0 \/ (index[n] = o /\ q < p)
        BY <1>2, <4>1 DEF GCDropInstance, DropInv, DroppedIsBehind
      <4>3. q < p => q < p + 1
        BY <2>1 DEF Partitions
      <4> QED
        BY <2>3, <4>2, <4>3
    <3> QED
      BY <3>2, <3>3
  <2> QED
    BY <2>4, <2>5 DEF DropInv
<1>3. CASE GCFailDrop
  <2>1. failures' > 0
    <3>1. CASE EngineFails
      BY <1>f, <3>1
    <3>2. CASE UNCHANGED bounds
      BY <1>3, <1>f, <3>2, NextDrop DEF GCFailDrop, DropsAreAccepted
    <3> QED
      BY <1>3, <3>1, <3>2 DEF GCFailDrop
  <2>2. UNCHANGED <<phase, handles, approved, index, objects, crashes>>
    BY <1>3, <1>f DEF GCFailDrop
  <2> QED
    BY <2>1, <2>2, DropUntouched
<1>4. CASE GCNullReference
  <2>1. crashes' > 0
    BY <1>4, NextDrop DEF GCNullReference, DropsAreAccepted
  <2> QED
    BY <1>4, <2>1, DropDeath DEF GCNullReference
<1>5. CASE GCEraseFromIndex
  <2>1. /\ gc.container.name \in Names /\ index[gc.container.name] = gc.container
        /\ gc.container # NoContainer /\ gc.pc = "erase"
    BY <1>5, <1>t, CollectorLocals DEF GCEraseFromIndex
  <2>2. /\ index' = [index EXCEPT ![gc.container.name] = NoContainer]
        /\ UNCHANGED <<phase, handles, approved, objects, failures, crashes>>
    BY <1>5, <2>1 DEF GCEraseFromIndex
  <2>3. DeletedIsApproved' /\ DeathsAreCrashes'
    BY <2>2 DEF DropInv, DeletedIsApproved, DeathsAreCrashes
  <2>4. DroppedIsBehind'
    <3> SUFFICES ASSUME NEW n \in Names, NEW p \in Partitions,
                        index'[n] # NoContainer, handles[index'[n]][p] = "dropped"
                 PROVE  failures > 0
      BY <2>2 DEF DroppedIsBehind
    <3>1. n # gc.container.name /\ index'[n] = index[n]
      BY <1>t, <2>1, <2>2 DEF TypeOK
    <3>2. index[n] # gc.container
      BY <1>t, <2>1, <3>1, IndexIsInjective
    <3> QED
      BY <2>1, <3>1, <3>2 DEF DropInv, DroppedIsBehind
  <2> QED
    BY <2>3, <2>4 DEF DropInv
<1> QED
    BY <1>1, <1>2, <1>3, <1>4, <1>5 DEF CollectorStep

(* A start-up opens what it finds, after a crash. *)
LEMMA DropStart == DropInv /\ MemoryInv' /\ Start => DropInv'
<1> SUFFICES ASSUME DropInv, MemoryInv', Start PROVE DropInv'
    OBVIOUS
<1>1. crashes' > 0 /\ phase' = "up"
    BY StartLoadsDisk DEF Start, bounds, DropInv, DeathsAreCrashes, MemoryInv
<1>2. PICK a \in Addresses :
        /\ \A o \in Objects, p \in Partitions :
              handles'[o][p] = IF o.address = a /\ o.name \in columnFamilies[p]
                               THEN "open" ELSE "none"
        /\ \A o \in Objects, p \in Partitions :
              <<o, p>> \in approved' <=> o.address = a /\ o.name \in columnFamilies[p]
    BY StartLoadsDisk DEF DropInv, MemoryInv
<1>3. DeletedIsApproved' /\ DeathsAreCrashes'
    BY <1>1, <1>2 DEF DeletedIsApproved, DeathsAreCrashes
<1>4. DroppedIsBehind'
  <2>1. \A n \in Names : index'[n] # NoContainer => index'[n] \in Objects
    BY DEF MemoryInv, DurableInv, TypeOK
  <2> QED
    BY <1>2, <2>1 DEF DroppedIsBehind
<1> QED
    BY <1>3, <1>4 DEF DropInv

(* The engines accept every drop of the garbage collector, unless a crash    *)
(* left a null reference or an engine failure a family dropped already: the *)
(* fence of storage_engine::remove_container refuses no reference that the  *)
(* collector brings.                                                       *)
THEOREM DropsCorrect == Spec => []DropsAreAccepted
<1>1. Init => DropInv
    BY MemoryInit
       DEF Init, NoObjects, EmptyIndex, DropInv, DeletedIsApproved, DeathsAreCrashes, DroppedIsBehind
<1>2. DropInv /\ [Next]_vars => DropInv'
  <2> SUFFICES ASSUME DropInv, [Next]_vars PROVE DropInv'
    OBVIOUS
  <2>1. MemoryInv'
    BY MemoryStep DEF DropInv
  <2>2. CASE UNCHANGED vars
    BY <2>1, <2>2, DropUntouched DEF vars, disk, refs, table, requests, bounds
  <2> QED
    BY <2>1, <2>2, DropRequests, DropSerializer, DropCollector, DropStart DEF Next
<1> QED
    BY <1>1, <1>2, NextDrop, PTL DEF Spec

-------------------------------------------------------------------------------
(* The counter. *)

(* A step that leaves the index and the counter alone, and neither thread    *)
(* before its update of the counter.                                       *)
LEMMA CounterUntouched ==
    ASSUME CounterMatchesIndex, UNCHANGED <<index, numberContainers>>,
           serializer'.pc = "count" <=> serializer.pc = "count",
           gc'.pc = "uncount" <=> gc.pc = "uncount"
    PROVE  CounterMatchesIndex'
BY DEF CounterMatchesIndex, Indexed

(* Every step moves the counter and the index together, or one of them and   *)
(* the thread whose step it is.                                            *)
LEMMA CounterStep == DurableInv /\ CounterMatchesIndex /\ [Next]_vars => CounterMatchesIndex'
<1> SUFFICES ASSUME DurableInv, CounterMatchesIndex, [Next]_vars PROVE CounterMatchesIndex'
    OBVIOUS
<1> USE DEF disk, refs, table, requests, bounds
<1>t. TypeOK /\ numberContainers \in Int
    BY DEF DurableInv, TypeOK
<1>f. IsFiniteSet(Indexed) /\ Cardinality(Indexed) \in Nat
    BY NamesAssumption, FS_Subset, FS_CardinalityType DEF Indexed
<1>d. ASSUME ProcessDies PROVE CounterMatchesIndex'
  <2>1. Indexed' = {}
    BY <1>d DEF ProcessDies, EmptyIndex, Indexed
  <2> QED
    BY <1>d, <2>1, FS_EmptySet DEF ProcessDies, IdleSerializer, IdleCollector, CounterMatchesIndex
<1>1. CASE SerializerStep
  <2>1. CASE InsertIntoIndex
    <3>1. /\ Task.name \in Names /\ index[Task.name] = NoContainer
          /\ serializer.container.name = Task.name
          /\ serializer.container \in Objects /\ serializer.container # NoContainer
      BY <2>1, SerializerLocals DEF InsertIntoIndex, CreationCounters
    <3>2. /\ index' = [index EXCEPT ![Task.name] = serializer.container]
          /\ serializer'.pc = "count" /\ numberContainers' = numberContainers /\ gc' = gc
      BY <1>t, <2>1, <3>1 DEF InsertIntoIndex, TypeOK, SerializerStates, CreationCounters
    <3>3. Indexed' = Indexed \cup {Task.name} /\ Task.name \notin Indexed
      BY <1>t, <3>1, <3>2 DEF Indexed, TypeOK
    <3>4. Cardinality(Indexed') = Cardinality(Indexed) + 1
      BY <1>f, <3>3, FS_AddElement
    <3> QED
      BY <1>f, <1>t, <2>1, <3>2, <3>4 DEF CounterMatchesIndex, InsertIntoIndex
  <2>2. CASE CountContainer
    <3>1. Indexed' = Indexed
      BY <2>2 DEF CountContainer, Indexed
    <3> QED
      BY <1>f, <1>t, <2>2, <3>1 DEF CounterMatchesIndex, CountContainer, Respond
  <2>3. CASE ~ InsertIntoIndex /\ ~ CountContainer
    <3>1. UNCHANGED <<index, numberContainers, gc>> /\ serializer.pc # "count"
      BY <1>1, <2>3
         DEF SerializerStep, BeginCreation, CreateInstance, FailCreateInstance, PutMetadata,
             ApproveReferences, BeginRemoval, DeleteMetadata, MarkAsDeleted, SendResponse
    <3>2. serializer'.pc # "count"
      <4>1. \A s : Respond(s) => serializer'.pc # "count"
        BY DEF Respond
      <4>2. DOMAIN serializer = {"pc", "container", "partition", "status"}
        BY <1>t DEF TypeOK, SerializerStates
      <4>3. CASE BeginCreation \/ CreateInstance \/ FailCreateInstance
        BY <4>1, <4>2, <4>3 DEF BeginCreation, CreateInstance, FailCreateInstance
      <4>4. CASE PutMetadata \/ ApproveReferences \/ BeginRemoval \/ DeleteMetadata
        BY <4>1, <4>2, <4>4 DEF PutMetadata, ApproveReferences, BeginRemoval, DeleteMetadata
      <4>5. CASE MarkAsDeleted \/ SendResponse
        BY <4>1, <4>5 DEF MarkAsDeleted, SendResponse, IdleSerializer
      <4> QED
        BY <1>1, <2>3, <4>3, <4>4, <4>5 DEF SerializerStep
    <3> QED
      BY <3>1, <3>2, CounterUntouched
  <2> QED
    BY <2>1, <2>2, <2>3
<1>2. CASE CollectorStep
  <2>1. CASE GCEraseFromIndex
    <3>1. /\ gc.container.name \in Names /\ index[gc.container.name] = gc.container
          /\ gc.container # NoContainer
      BY <2>1, CollectorLocals DEF GCEraseFromIndex
    <3>2. /\ index' = [index EXCEPT ![gc.container.name] = NoContainer]
          /\ gc'.pc = "uncount" /\ numberContainers' = numberContainers /\ serializer' = serializer
      BY <1>t, <2>1, <3>1 DEF GCEraseFromIndex, TypeOK, CollectorStates
    <3>3. Indexed' = Indexed \ {gc.container.name} /\ gc.container.name \in Indexed
      BY <1>t, <3>1, <3>2 DEF Indexed, TypeOK
    <3>4. Cardinality(Indexed') = Cardinality(Indexed) - 1
      BY <1>f, <3>3, FS_RemoveElement
    <3> QED
      BY <1>f, <1>t, <2>1, <3>2, <3>4 DEF CounterMatchesIndex, GCEraseFromIndex
  <2>2. CASE GCUncount
    <3>1. gc'.pc = "scan" /\ Indexed' = Indexed
      BY <1>t, <2>2 DEF GCUncount, Indexed, TypeOK, CollectorStates
    <3> QED
      BY <1>f, <1>t, <2>2, <3>1 DEF CounterMatchesIndex, GCUncount
  <2>3. CASE GCNullReference
    BY <1>d, <2>3 DEF GCNullReference
  <2>4. CASE ~ GCEraseFromIndex /\ ~ GCUncount /\ ~ GCNullReference
    <3>1. UNCHANGED <<index, numberContainers, serializer>> /\ gc.pc # "uncount"
      BY <1>2, <2>4
         DEF CollectorStep, GCSnapshotBucket, GCInspect, GCDropInstance, GCFailDrop, GCFinishBucket
    <3>2. gc'.pc # "uncount"
      BY <1>2, <1>t, <2>4
         DEF CollectorStep, GCSnapshotBucket, GCInspect, GCDropInstance, GCFailDrop, GCFinishBucket,
             IdleCollector, TypeOK, CollectorStates
    <3> QED
      BY <3>1, <3>2, CounterUntouched
  <2> QED
    BY <2>1, <2>2, <2>3, <2>4
<1>3. CASE RequestStep
  <2>1. CASE Crash
    BY <1>d, <2>1 DEF Crash
  <2>2. CASE ~ Crash
    <3>1. UNCHANGED <<index, numberContainers, serializer, gc>>
      BY <1>3, <2>2
         DEF RequestStep, ValidateRequest, EnqueueRequest, AcquireContainer, ReleaseContainer,
             DestroyContainer
    <3> QED
      BY <3>1, CounterUntouched
  <2> QED
    BY <2>1, <2>2
<1>4. CASE Start
  <2>1. /\ serializer'.pc = "idle" /\ gc'.pc = "bucket" /\ numberContainers' = Cardinality(OnDisk)
        /\ \E a \in Addresses : \A n \in Names :
              index'[n] = IF n \in OnDisk THEN [name |-> n, address |-> a] ELSE NoContainer
    BY <1>4, StartLoadsDisk
  <2>2. \A n \in Names, a \in Addresses : [name |-> n, address |-> a] # NoContainer
    BY NoContainerAssumption DEF Objects
  <2>3. OnDisk \subseteq Names
    BY <1>t DEF OnDisk, TypeOK
  <2>4. Indexed' = OnDisk
    BY <2>1, <2>2, <2>3 DEF Indexed
  <2>5. Cardinality(OnDisk) \in Nat
    BY <2>3, NamesAssumption, FS_Subset, FS_CardinalityType
  <2> QED
    BY <2>1, <2>4, <2>5 DEF CounterMatchesIndex
<1>5. CASE UNCHANGED vars
    BY <1>5, CounterUntouched DEF vars
<1> QED
    BY <1>1, <1>2, <1>3, <1>4, <1>5 DEF Next

(* number_containers_ lags the index by one step of each thread at most. *)
THEOREM CounterCorrect == Spec => []CounterMatchesIndex
<1>1. Init => CounterMatchesIndex
  <2>1. Init => Indexed = {}
    BY DEF Init, EmptyIndex, Indexed
  <2> QED
    BY <2>1, FS_EmptySet DEF Init, CounterMatchesIndex, IdleSerializer, IdleCollector
<1>2. CounterMatchesIndex /\ DurableInv /\ [Next]_vars => CounterMatchesIndex'
    BY CounterStep
<1> QED
    BY <1>1, <1>2, DurableInvariant, PTL DEF Spec

-------------------------------------------------------------------------------
(* ContainerLifecycle implements ContainerStore.                           *)

(* A client has one request in flight, in one place. *)
ClientsAreBusyOnce ==
    /\ \A t, u \in admitted : t.client = u.client => t = u
    /\ \A t \in admitted, i \in DOMAIN tasks : tasks[i].client # t.client
    /\ \A i, j \in DOMAIN tasks : tasks[i].client = tasks[j].client => i = j

(* The serializer runs the handler its request asks for. *)
HandlerFitsRequest ==
    /\ serializer.pc \in CreationCounters => Task.optype = "create"
    /\ serializer.pc \in {"unlink", "mark"} => Task.optype = "remove"

(* What the refinement needs of the reachable states. *)
StoreInv ==
    /\ MemoryInv
    /\ ClientsAreBusyOnce
    /\ HandlerFitsRequest

(* The head of the queue is its first element, and the rest its tail. *)
LEMMA QueueShape ==
    ASSUME TypeOK
    PROVE  /\ tasks \in Seq(Tasks) /\ Len(tasks) \in Nat /\ DOMAIN tasks = 1 .. Len(tasks)
           /\ tasks # <<>> => /\ 1 \in DOMAIN tasks /\ Task = tasks[1]
                              /\ Len(Tail(tasks)) = Len(tasks) - 1
                              /\ DOMAIN Tail(tasks) = 1 .. Len(tasks) - 1
                              /\ \A i \in 1 .. Len(tasks) - 1 : Tail(tasks)[i] = tasks[i + 1]
           /\ serializer.pc # "idle" => tasks # <<>>
           /\ \A t \in Tasks : /\ DOMAIN Append(tasks, t) = 1 .. Len(tasks) + 1
                               /\ Append(tasks, t)[Len(tasks) + 1] = t
                               /\ \A i \in DOMAIN tasks : Append(tasks, t)[i] = tasks[i]
<1>1. tasks \in Seq(Tasks) /\ (serializer.pc # "idle" => tasks # <<>>)
    BY DEF TypeOK
<1>2. Len(tasks) \in Nat /\ DOMAIN tasks = 1 .. Len(tasks)
    BY <1>1
<1>3. ASSUME tasks # <<>>
      PROVE  /\ 1 \in DOMAIN tasks /\ Task = tasks[1]
             /\ Len(Tail(tasks)) = Len(tasks) - 1
             /\ DOMAIN Tail(tasks) = 1 .. Len(tasks) - 1
             /\ \A i \in 1 .. Len(tasks) - 1 : Tail(tasks)[i] = tasks[i + 1]
    BY <1>1, <1>2, <1>3, EmptySeq, HeadTailProperties DEF Task
<1>4. \A t \in Tasks : /\ DOMAIN Append(tasks, t) = 1 .. Len(tasks) + 1
                       /\ Append(tasks, t)[Len(tasks) + 1] = t
                       /\ \A i \in DOMAIN tasks : Append(tasks, t)[i] = tasks[i]
    BY <1>1, <1>2, AppendProperties
<1> QED
    BY <1>1, <1>2, <1>3, <1>4

(* Nobody has asked for anything yet. *)
LEMMA StoreInvInit == Init => StoreInv
<1> SUFFICES ASSUME Init PROVE StoreInv
    OBVIOUS
<1>1. MemoryInv
    BY MemoryInit
<1>2. ClientsAreBusyOnce
    BY DEF Init, ClientsAreBusyOnce
<1>3. HandlerFitsRequest
    BY DEF Init, IdleSerializer, HandlerFitsRequest, CreationCounters
<1> QED
    BY <1>1, <1>2, <1>3 DEF StoreInv

(* A request is validated when its client has no other, moves from the       *)
(* validated ones to the queue and leaves it at its head.                  *)
LEMMA RequestsMoveOn == ClientsAreBusyOnce /\ TypeOK /\ [Next]_vars => ClientsAreBusyOnce'
<1> SUFFICES ASSUME ClientsAreBusyOnce, TypeOK, [Next]_vars PROVE ClientsAreBusyOnce'
    OBVIOUS
<1> USE DEF disk, refs, table, requests, bounds
<1>s. CASE UNCHANGED <<admitted, tasks>>
    BY <1>s DEF ClientsAreBusyOnce
<1>d. CASE ProcessDies
    BY <1>d DEF ProcessDies, ClientsAreBusyOnce
<1>1. ASSUME NEW t \in Tasks, ValidateRequest(t) PROVE ClientsAreBusyOnce'
    BY <1>1 DEF ValidateRequest, InFlight, ClientsAreBusyOnce
<1>2. ASSUME NEW t \in admitted, EnqueueRequest(t) PROVE ClientsAreBusyOnce'
  <2>1. t \in Tasks /\ admitted' = admitted \ {t} /\ tasks' = Append(tasks, t)
    BY <1>2 DEF EnqueueRequest, TypeOK
  <2>2. /\ DOMAIN tasks' = DOMAIN tasks \cup {Len(tasks) + 1}
        /\ Len(tasks) + 1 \notin DOMAIN tasks
        /\ tasks'[Len(tasks) + 1] = t
        /\ \A i \in DOMAIN tasks : tasks'[i] = tasks[i]
    BY <2>1, QueueShape
  <2>3. \A u \in admitted', i \in DOMAIN tasks' : tasks'[i].client # u.client
    BY <2>1, <2>2 DEF ClientsAreBusyOnce
  <2>4. \A i, j \in DOMAIN tasks' : tasks'[i].client = tasks'[j].client => i = j
    BY <2>2 DEF ClientsAreBusyOnce
  <2> QED
    BY <2>1, <2>3, <2>4 DEF ClientsAreBusyOnce
<1>3. CASE SendResponse
  <2>1. /\ admitted' = admitted /\ DOMAIN tasks' = 1 .. Len(tasks) - 1
        /\ \A i \in DOMAIN tasks' : i + 1 \in DOMAIN tasks /\ tasks'[i] = tasks[i + 1]
        /\ \A i, j \in DOMAIN tasks' : i + 1 = j + 1 => i = j
    BY <1>3, QueueShape DEF SendResponse
  <2>2. \A u \in admitted', i \in DOMAIN tasks' : tasks'[i].client # u.client
    BY <2>1 DEF ClientsAreBusyOnce
  <2>3. \A i, j \in DOMAIN tasks' : tasks'[i].client = tasks'[j].client => i = j
    BY <2>1 DEF ClientsAreBusyOnce
  <2> QED
    BY <2>1, <2>2, <2>3 DEF ClientsAreBusyOnce
<1>4. \/ UNCHANGED <<admitted, tasks>> \/ ProcessDies \/ SendResponse
      \/ \E t \in Tasks : ValidateRequest(t)
      \/ \E t \in admitted : EnqueueRequest(t)
  <2>1. CASE RequestStep
    BY <2>1 DEF RequestStep, AcquireContainer, ReleaseContainer, DestroyContainer, Crash
  <2>2. CASE SerializerStep
    BY <2>2 DEF SerializerStep, BeginCreation, CreateInstance, FailCreateInstance, PutMetadata,
                ApproveReferences, InsertIntoIndex, CountContainer, BeginRemoval, DeleteMetadata,
                MarkAsDeleted
  <2>3. CASE CollectorStep
    BY <2>3 DEF CollectorStep, GCSnapshotBucket, GCInspect, GCDropInstance, GCFailDrop,
                GCNullReference, GCEraseFromIndex, GCUncount, GCFinishBucket
  <2>4. CASE Start
    BY <2>4 DEF Start
  <2>5. CASE UNCHANGED vars
    BY <2>5 DEF vars
  <2> QED
    BY <2>1, <2>2, <2>3, <2>4, <2>5 DEF Next
<1> QED
    BY <1>s, <1>d, <1>1, <1>2, <1>3, <1>4

(* The serializer leaves the request at the head of the queue where it is    *)
(* until it has answered it, and keeps to the handler it has chosen.       *)
LEMMA HandlerIsKept == HandlerFitsRequest /\ TypeOK /\ [Next]_vars => HandlerFitsRequest'
<1> SUFFICES ASSUME HandlerFitsRequest, TypeOK, [Next]_vars PROVE HandlerFitsRequest'
    OBVIOUS
<1> USE DEF disk, refs, table, requests, bounds
<1>s. CASE serializer' = serializer /\ (serializer.pc # "idle" => Task' = Task)
    BY <1>s DEF HandlerFitsRequest, CreationCounters
<1>d. CASE ProcessDies
    BY <1>d DEF ProcessDies, IdleSerializer, HandlerFitsRequest, CreationCounters
<1>1. CASE SerializerStep
  <2>1. \A s : Respond(s) => HandlerFitsRequest'
    BY DEF Respond, HandlerFitsRequest, CreationCounters
  <2>2. DOMAIN serializer = {"pc", "container", "partition", "status"}
    BY DEF TypeOK, SerializerStates
  <2>3. CASE BeginCreation
    BY <2>1, <2>2, <2>3 DEF BeginCreation, Serving, HandlerFitsRequest, CreationCounters, Task
  <2>4. CASE CreateInstance \/ FailCreateInstance
    BY <2>1, <2>2, <2>4 DEF CreateInstance, FailCreateInstance, HandlerFitsRequest, CreationCounters, Task
  <2>5. CASE PutMetadata \/ ApproveReferences
    BY <2>1, <2>2, <2>5 DEF PutMetadata, ApproveReferences, HandlerFitsRequest, CreationCounters, Task
  <2>6. CASE InsertIntoIndex \/ CountContainer
    BY <2>1, <2>2, <2>6 DEF InsertIntoIndex, CountContainer, HandlerFitsRequest, CreationCounters, Task
  <2>7. CASE BeginRemoval
    BY <2>1, <2>2, <2>7 DEF BeginRemoval, Serving, HandlerFitsRequest, CreationCounters, Task
  <2>8. CASE DeleteMetadata
    BY <2>1, <2>2, <2>8 DEF DeleteMetadata, HandlerFitsRequest, CreationCounters, Task
  <2>9. CASE MarkAsDeleted \/ SendResponse
    BY <2>1, <2>2, <2>9 DEF MarkAsDeleted, SendResponse, IdleSerializer, HandlerFitsRequest, CreationCounters
  <2> QED
    BY <1>1, <2>3, <2>4, <2>5, <2>6, <2>7, <2>8, <2>9 DEF SerializerStep
<1>2. CASE RequestStep
  <2>1. ASSUME NEW t \in admitted, EnqueueRequest(t) PROVE HandlerFitsRequest'
    <3>1. t \in Tasks
      BY DEF TypeOK
    <3>2. serializer.pc # "idle" => Task' = Task
      BY <2>1, <3>1, TaskKept DEF TypeOK, EnqueueRequest
    <3> QED
      BY <1>s, <2>1, <3>2 DEF EnqueueRequest
  <2> QED
    BY <1>2, <1>s, <1>d, <2>1
       DEF RequestStep, ValidateRequest, AcquireContainer, ReleaseContainer, DestroyContainer, Crash, Task
<1>3. CASE CollectorStep
    BY <1>3, <1>s, <1>d
       DEF CollectorStep, GCSnapshotBucket, GCInspect, GCDropInstance, GCFailDrop,
           GCNullReference, GCEraseFromIndex, GCUncount, GCFinishBucket, Task
<1>4. CASE Start
    BY <1>4, <1>s DEF Start, Task
<1>5. CASE UNCHANGED vars
    BY <1>5, <1>s DEF vars, Task
<1> QED
    BY <1>1, <1>2, <1>3, <1>4, <1>5 DEF Next

(* A step that leaves the metadata, the requests and the outcome alone is a  *)
(* stutter of the store.                                                   *)
LEMMA StoreStutter ==
    ASSUME UNCHANGED <<metadata, admitted, tasks>>, Outcome' = Outcome
    PROVE  UNCHANGED Store!vars
BY DEF Store!vars, Unserved

(* The request in service gets its outcome. *)
LEMMA StoreDecide ==
    ASSUME StoreInv, serializer.pc # "idle" \/ tasks # <<>>, NEW s \in BOOLEAN,
           Outcome = {}, Outcome' = {[task |-> Task, success |-> s]}, UNCHANGED <<admitted, tasks>>
    PROVE  Task \in Tasks /\ Store!Decide(Task, s)
<1>t. TypeOK
    BY DEF StoreInv, MemoryInv, DurableInv
<1>1. tasks # <<>> /\ Task = tasks[1] /\ 1 \in DOMAIN tasks /\ Task \in Tasks
    BY <1>t, QueueShape, TaskType
<1>2. Unserved = {tasks[i] : i \in DOMAIN tasks}
    BY DEF Unserved
<1>3. Unserved' = {tasks[i] : i \in {j \in DOMAIN tasks : j > 1}}
    BY DEF Unserved
<1>4. \A i \in DOMAIN tasks : i > 1 <=> i # 1
    BY <1>t, QueueShape
<1>5. Task \notin admitted /\ \A i \in DOMAIN tasks : tasks[i] = Task => i = 1
    BY <1>1 DEF StoreInv, ClientsAreBusyOnce
<1>6. (admitted \cup Unserved)' = (admitted \cup Unserved) \ {Task}
    BY <1>1, <1>2, <1>3, <1>4, <1>5
<1> QED
    BY <1>1, <1>2, <1>6 DEF Store!Decide

(* Every step of the program is a step of the store, or none. *)
LEMMA StoreStep == StoreInv /\ StoreInv' /\ [Next]_vars => [Store!Next]_(Store!vars)
<1> SUFFICES ASSUME StoreInv, StoreInv', [Next]_vars PROVE Store!Next \/ UNCHANGED Store!vars
    BY DEF Store!vars
<1> USE DEF disk, refs, table, requests, bounds
<1>t. TypeOK /\ DurableInv /\ MemoryInv
    BY DEF StoreInv, MemoryInv, DurableInv
<1>n. Tasks = Store!Tasks /\ Store!Outcomes = [task : Tasks, success : BOOLEAN]
    BY DEF Tasks, Store!Tasks, Store!Outcomes
<1>s. CASE UNCHANGED <<metadata, admitted, tasks, serializer>>
  <2>1. Outcome' = Outcome
    BY <1>s DEF Outcome, Task
  <2> QED
    BY <1>s, <2>1, StoreStutter
<1>d. CASE ProcessDies
  <2>1. (admitted \cup Unserved)' = {} /\ Outcome' = {} /\ metadata' = metadata
    BY <1>d DEF ProcessDies, Unserved, Outcome, IdleSerializer
  <2> QED
    BY <2>1 DEF Store!Next, Store!LoseRequests
<1>r. ASSUME NEW s \in Statuses, Respond(s) PROVE Outcome' = {[task |-> Task', success |-> s = "success"]}
    BY <1>r DEF Respond, Outcome
<1>f. ASSUME NEW s \in Statuses \ {"success"}, Respond(s), tasks # <<>>,
             serializer.pc \in {"idle", "create", "metadata", "unlink"},
             UNCHANGED <<metadata, admitted, tasks>>
      PROVE  Store!Next
  <2>1. Outcome = {} /\ Outcome' = {[task |-> Task, success |-> FALSE]}
    BY <1>f, <1>r DEF Outcome, Task
  <2>2. Task \in Tasks /\ Store!Decide(Task, FALSE)
    BY <1>f, <2>1, StoreDecide
  <2> QED
    BY <1>f, <1>n, <2>2 DEF Store!Next, Store!Refuse
<1>h. serializer.pc # "idle" => tasks # <<>> /\ Task \in Tasks /\ Task.name \in Names
    BY <1>t, TaskType DEF TypeOK
<1>x. DOMAIN serializer = {"pc", "container", "partition", "status"}
    BY <1>t DEF TypeOK, SerializerStates
<1>z. {"container_creation_failed", "object_insertion_failed", "object_deletion_failed",
       "container_not_exists"} \subseteq Statuses \ {"success"}
    BY DEF Statuses
<1>1. CASE SerializerStep
  <2>1. CASE BeginCreation
    <3>1. CASE Respond(ExistenceStatus(Task.name))
      <4>1. ExistenceStatus(Task.name) \in Statuses \ {"success"}
        BY DEF ExistenceStatus, Statuses
      <4> QED
        BY <1>f, <2>1, <3>1, <4>1 DEF BeginCreation, Serving
    <3>2. CASE serializer'.pc = "create"
      <4>1. Outcome = {} /\ Outcome' = {}
        BY <2>1, <3>2 DEF BeginCreation, Outcome
      <4> QED
        BY <2>1, <4>1, StoreStutter DEF BeginCreation
    <3> QED
      BY <1>x, <2>1, <3>1, <3>2 DEF BeginCreation
  <2>2. CASE CreateInstance
    <3>1. serializer'.pc \in {"create", "metadata"}
      BY <1>x, <2>2 DEF CreateInstance
    <3>2. Outcome = {} /\ Outcome' = {}
      BY <2>2, <3>1 DEF CreateInstance, Outcome
    <3> QED
      BY <2>2, <3>2, StoreStutter DEF CreateInstance
  <2>3. CASE FailCreateInstance
    BY <1>f, <1>h, <1>z, <2>3 DEF FailCreateInstance
  <2>4. CASE PutMetadata
    <3>1. CASE Respond("object_insertion_failed") /\ UNCHANGED metadata
      BY <1>f, <1>h, <1>z, <2>4, <3>1 DEF PutMetadata
    <3>2. CASE /\ metadata' = metadata \cup {Task.name}
               /\ serializer' = [serializer EXCEPT !.pc = "approve"]
      <4>1. Outcome = {} /\ Outcome' = {[task |-> Task, success |-> TRUE]}
        BY <1>x, <2>4, <3>2 DEF PutMetadata, Outcome, Task
      <4>2. Task \in Tasks /\ Store!Decide(Task, TRUE)
        BY <1>h, <2>4, <4>1, StoreDecide DEF PutMetadata
      <4>3. Task.optype = "create"
        BY <2>4 DEF PutMetadata, StoreInv, HandlerFitsRequest, CreationCounters
      <4>4. Task.name \notin metadata
        <5>1. ~ Active(Task.name)
          BY <1>t, <2>4, SerializerLocals DEF PutMetadata, Active
        <5> QED
          BY <1>1, <1>h, <1>t, <2>4, <5>1 DEF PutMetadata, SerializerStep, MemoryInv, IndexAgreesWithMetadata, At
      <4> QED
        BY <1>n, <3>2, <4>2, <4>3, <4>4 DEF Store!Next, Store!CommitCreation
    <3> QED
      BY <2>4, <3>1, <3>2 DEF PutMetadata
  <2>5. CASE ApproveReferences
    <3>1. Outcome' = Outcome
      BY <1>x, <2>5 DEF ApproveReferences, Outcome, Task
    <3> QED
      BY <2>5, <3>1, StoreStutter DEF ApproveReferences
  <2>6. CASE InsertIntoIndex
    <3>1. index[serializer.container.name] = NoContainer
      BY <1>t, <2>6, SerializerLocals DEF InsertIntoIndex
    <3>2. Outcome' = Outcome
      BY <1>x, <2>6, <3>1 DEF InsertIntoIndex, Outcome, Task
    <3> QED
      BY <2>6, <3>2, StoreStutter DEF InsertIntoIndex
  <2>7. CASE CountContainer
    <3>1. Outcome' = Outcome
      BY <2>7 DEF CountContainer, Respond, Outcome, Task
    <3> QED
      BY <2>7, <3>1, StoreStutter DEF CountContainer
  <2>8. CASE BeginRemoval
    <3>1. CASE Respond("container_not_exists")
      BY <1>f, <1>z, <2>8, <3>1 DEF BeginRemoval, Serving
    <3>2. CASE serializer' = [serializer EXCEPT !.pc = "unlink"]
      <4>1. Outcome = {} /\ Outcome' = {}
        BY <1>x, <2>8, <3>2 DEF BeginRemoval, Outcome
      <4> QED
        BY <2>8, <4>1, StoreStutter DEF BeginRemoval
    <3> QED
      BY <2>8, <3>1, <3>2 DEF BeginRemoval
  <2>9. CASE DeleteMetadata
    <3>1. CASE Respond("object_deletion_failed") /\ UNCHANGED metadata
      BY <1>f, <1>h, <1>z, <2>9, <3>1 DEF DeleteMetadata
    <3>2. CASE /\ metadata' = metadata \ {Task.name}
               /\ serializer' = [serializer EXCEPT !.pc = "mark"]
      <4>1. Outcome = {} /\ Outcome' = {[task |-> Task, success |-> TRUE]}
        BY <1>x, <2>9, <3>2 DEF DeleteMetadata, Outcome, Task
      <4>2. Task \in Tasks /\ Store!Decide(Task, TRUE)
        BY <1>h, <2>9, <4>1, StoreDecide DEF DeleteMetadata
      <4>3. Task.optype = "remove" /\ Active(Task.name)
        BY <1>t, <2>9 DEF DeleteMetadata, StoreInv, HandlerFitsRequest, MemoryInv, ChangeIsUnderway
      <4>4. Task.name \in metadata
        BY <1>1, <1>h, <1>t, <2>9, <4>3 DEF DeleteMetadata, SerializerStep, MemoryInv, IndexAgreesWithMetadata, At
      <4> QED
        BY <1>n, <3>2, <4>2, <4>3, <4>4 DEF Store!Next, Store!CommitRemoval
    <3> QED
      BY <2>9, <3>1, <3>2 DEF DeleteMetadata
  <2>10. CASE MarkAsDeleted
    <3>1. index[Task.name] # NoContainer
      BY <1>t, <2>10 DEF MarkAsDeleted, MemoryInv, ChangeIsUnderway, Active
    <3>2. Outcome' = Outcome
      <4>1. Respond("success") /\ Task' = Task
        BY <2>10, <3>1 DEF MarkAsDeleted, Task
      <4>2. Outcome' = {[task |-> Task, success |-> TRUE]}
        BY <1>r, <4>1 DEF Statuses
      <4>3. Outcome = {[task |-> Task, success |-> TRUE]}
        BY <2>10 DEF MarkAsDeleted, Outcome
      <4> QED
        BY <4>2, <4>3
    <3> QED
      BY <2>10, <3>2, StoreStutter DEF MarkAsDeleted
  <2>11. CASE SendResponse
    <3> DEFINE d == [task |-> Task, success |-> serializer.status = "success"]
    <3>1. Outcome = {d} /\ Outcome' = {} /\ d \in Store!Outcomes
      BY <1>h, <1>n, <2>11 DEF SendResponse, Outcome, IdleSerializer
    <3>2. Unserved' = Unserved
      <4>1. Unserved = {tasks[i] : i \in {j \in DOMAIN tasks : j > 1}}
        BY <3>1 DEF Unserved
      <4>2. Unserved' = {Tail(tasks)[i] : i \in DOMAIN Tail(tasks)}
        BY <2>11, <3>1 DEF SendResponse, Unserved
      <4>3. /\ DOMAIN tasks = 1 .. Len(tasks) /\ DOMAIN Tail(tasks) = 1 .. Len(tasks) - 1
            /\ Len(tasks) \in Nat
            /\ \A i \in 1 .. Len(tasks) - 1 : Tail(tasks)[i] = tasks[i + 1]
        BY <1>h, <1>t, <2>11, QueueShape DEF SendResponse
      <4>4. \A i \in DOMAIN tasks : i > 1 => i - 1 \in DOMAIN Tail(tasks) /\ Tail(tasks)[i - 1] = tasks[i]
        BY <4>3
      <4>5. \A i \in DOMAIN Tail(tasks) : /\ i + 1 \in DOMAIN tasks /\ i + 1 > 1
                                          /\ Tail(tasks)[i] = tasks[i + 1]
        BY <4>3
      <4> QED
        BY <4>1, <4>2, <4>4, <4>5
    <3>3. UNCHANGED <<metadata, admitted>>
      BY <2>11 DEF SendResponse
    <3>4. Store!Respond(d)
      BY <3>1, <3>2, <3>3 DEF Store!Respond
    <3> QED
      BY <3>1, <3>4 DEF Store!Next
  <2> QED
    BY <1>1, <2>1, <2>2, <2>3, <2>4, <2>5, <2>6, <2>7, <2>8, <2>9, <2>10, <2>11 DEF SerializerStep
<1>2. CASE RequestStep
  <2>1. ASSUME NEW t \in Tasks, ValidateRequest(t) PROVE Store!Next
    <3>1. Outcome' = Outcome /\ Unserved' = Unserved /\ admitted' = admitted \cup {t} /\ metadata' = metadata
      BY <2>1 DEF ValidateRequest, Outcome, Unserved, Task
    <3>2. \A u \in admitted \cup Unserved : u.client # t.client
      BY <2>1 DEF ValidateRequest, InFlight, Unserved
    <3>3. \A d \in Outcome : d.task.client # t.client
      <4>1. \A d \in Outcome : d.task = Task /\ serializer.pc # "idle"
        BY DEF Outcome
      <4>2. serializer.pc # "idle" => Task = tasks[1] /\ 1 \in DOMAIN tasks
        BY <1>h, <1>t, QueueShape
      <4> QED
        BY <2>1, <4>1, <4>2 DEF ValidateRequest, InFlight
    <3> QED
      BY <1>n, <3>1, <3>2, <3>3 DEF Store!Next, Store!Receive
  <2>2. ASSUME NEW t \in admitted, EnqueueRequest(t) PROVE UNCHANGED Store!vars
    <3>1. t \in Tasks
      BY <1>t DEF TypeOK
    <3>2. Outcome' = Outcome
      <4>1. serializer.pc # "idle" => Task' = Task
        BY <1>t, <2>2, <3>1, TaskKept DEF TypeOK, EnqueueRequest
      <4> QED
        BY <2>2, <4>1 DEF EnqueueRequest, Outcome
    <3>3. /\ DOMAIN tasks' = DOMAIN tasks \cup {Len(tasks) + 1}
          /\ tasks'[Len(tasks) + 1] = t
          /\ \A i \in DOMAIN tasks : tasks'[i] = tasks[i]
      BY <1>t, <2>2, <3>1, QueueShape DEF EnqueueRequest
    <3>4. Len(tasks) + 1 > 1 \/ Outcome = {}
      <4>1. tasks = <<>> => serializer.pc = "idle"
        BY <1>h
      <4>2. tasks # <<>> => Len(tasks) + 1 > 1
        BY <1>t, QueueShape
      <4> QED
        BY <4>1, <4>2 DEF Outcome
    <3>5. Unserved' = Unserved \cup {t}
      BY <3>2, <3>3, <3>4 DEF Unserved
    <3>6. (admitted \cup Unserved)' = admitted \cup Unserved /\ metadata' = metadata
      BY <2>2, <3>5 DEF EnqueueRequest
    <3> QED
      BY <3>2, <3>6 DEF Store!vars
  <2> QED
    BY <1>2, <1>s, <1>d, <2>1, <2>2
       DEF RequestStep, AcquireContainer, ReleaseContainer, DestroyContainer, Crash
<1>3. CASE CollectorStep
    BY <1>3, <1>s, <1>d
       DEF CollectorStep, GCSnapshotBucket, GCInspect, GCDropInstance, GCFailDrop,
           GCNullReference, GCEraseFromIndex, GCUncount, GCFinishBucket
<1>4. CASE Start
    BY <1>4, <1>s DEF Start
<1>5. CASE UNCHANGED vars
    BY <1>5, <1>s DEF vars
<1> QED
    BY <1>1, <1>2, <1>3, <1>4, <1>5 DEF Next

(* Container requests are linearizable and durable: a request takes effect   *)
(* when the serializer changes the metadata, and only then is a success    *)
(* answered.                                                               *)
THEOREM StoreCorrect == Spec => ImplementsStore
<1>1. Init => Store!Init
    BY DEF Init, IdleSerializer, Store!Init, Unserved, Outcome
<1>2. StoreInv /\ [Next]_vars => StoreInv'
    BY MemoryStep, RequestsMoveOn, HandlerIsKept DEF StoreInv, MemoryInv, DurableInv
<1>3. Spec => []StoreInv
    BY StoreInvInit, <1>2, PTL DEF Spec
<1> QED
    BY <1>1, <1>3, StoreStep, PTL DEF Spec, ImplementsStore, Store!Spec

-------------------------------------------------------------------------------
(* What is served under a name, and what a crash makes of it.              *)

(* A removal that has taken its key from the metadata finds the column     *)
(* families untouched until its container is marked: what a crash leaves   *)
(* there is a whole container, and not nothing.                            *)
RemovalHasItsFamilies ==
    serializer.pc = "mark" => \A p \in Partitions : Task.name \in columnFamilies[p]

(* The invariant of the refinement. *)
NamesInv == MemoryInv /\ RemovalHasItsFamilies

(* Only the collector takes families away, and never those of a container   *)
(* that is still active.                                                   *)
LEMMA FamiliesStep == NamesInv /\ MemoryInv' /\ [Next]_vars => NamesInv'
<1> SUFFICES ASSUME NamesInv, MemoryInv', [Next]_vars, serializer'.pc = "mark", NEW p \in Partitions
             PROVE  (Task.name)' \in columnFamilies'[p]
    BY DEF NamesInv, RemovalHasItsFamilies
<1> USE DEF disk, refs, table, requests, bounds
<1>t. /\ TypeOK /\ TypeOK' /\ DurableInv /\ MemoryInv
      /\ columnFamilies \in [Partitions -> SUBSET Names]
    BY DEF NamesInv, MemoryInv, DurableInv, TypeOK
<1>1. CASE DeleteMetadata
  <2>1. serializer.pc = "unlink" /\ UNCHANGED <<columnFamilies, tasks, phase>>
    BY <1>1 DEF DeleteMetadata
  <2>2. Task.name \in Names /\ Active(Task.name)
    BY <1>t, <2>1, SerializerLocals DEF MemoryInv, ChangeIsUnderway
  <2>3. phase = "up"
    BY <1>t, <2>1 DEF DurableInv, ThreadsAreIdleWhenDown
  <2>4. Task.name \in metadata
    BY <1>t, <2>1, <2>2, <2>3 DEF MemoryInv, IndexAgreesWithMetadata, At
  <2> QED
    BY <1>t, <2>1, <2>4 DEF DurableInv, WellDefinedTransaction, Task
<1>2. CASE GCDropInstance
  <2>1. serializer' = serializer /\ tasks' = tasks /\ gc.pc = "drop"
    BY <1>2 DEF GCDropInstance
  <2>2. gc.container \in Objects /\ index[gc.container.name] = gc.container
        /\ objects[gc.container] = "deleted"
    BY <1>t, <2>1, CollectorLocals
  <2>3. Active(Task.name)
    BY <1>t, <2>1 DEF MemoryInv, ChangeIsUnderway
  <2>4. Task.name # gc.container.name
    BY <2>2, <2>3 DEF Active
  <2>5. Task.name \in columnFamilies[p]
    BY <2>1 DEF NamesInv, RemovalHasItsFamilies
  <2> QED
    BY <1>t, <1>2, <2>1, <2>4, <2>5 DEF GCDropInstance, Task
<1>3. CASE UNCHANGED <<serializer, columnFamilies>> /\ Head(tasks') = Head(tasks)
    BY <1>3 DEF NamesInv, RemovalHasItsFamilies, Task
<1>4. CASE SerializerStep /\ ~ DeleteMetadata
  <2>1. \A st : Respond(st) => serializer'.pc # "mark"
    BY DEF Respond
  <2>2. DOMAIN serializer = {"pc", "container", "partition", "status"}
    BY <1>t DEF TypeOK, SerializerStates
  <2>3. BeginCreation \/ CreateInstance \/ FailCreateInstance => serializer'.pc # "mark"
    BY <2>1, <2>2 DEF BeginCreation, CreateInstance, FailCreateInstance
  <2>4. PutMetadata \/ ApproveReferences \/ BeginRemoval => serializer'.pc # "mark"
    BY <2>1, <2>2 DEF PutMetadata, ApproveReferences, BeginRemoval
  <2>5. InsertIntoIndex \/ CountContainer \/ MarkAsDeleted \/ SendResponse
            => serializer'.pc # "mark"
    BY <2>1, <2>2
       DEF InsertIntoIndex, CountContainer, MarkAsDeleted, SendResponse, IdleSerializer
  <2> QED
    BY <1>4, <2>3, <2>4, <2>5 DEF SerializerStep
<1>5. CASE CollectorStep /\ ~ GCDropInstance
  <2>1. CASE GCNullReference
    BY <2>1 DEF GCNullReference, ProcessDies, IdleSerializer
  <2>2. CASE GCSnapshotBucket \/ GCFailDrop \/ GCEraseFromIndex \/ GCUncount \/ GCFinishBucket
    <3>1. UNCHANGED <<serializer, columnFamilies, tasks>>
      BY <2>2 DEF GCSnapshotBucket, GCFailDrop, GCEraseFromIndex, GCUncount, GCFinishBucket
    <3> QED
      BY <1>3, <3>1
  <2>3. ASSUME NEW o \in Objects, GCInspect(o)
        PROVE  (Task.name)' \in columnFamilies'[p]
    <3>1. UNCHANGED <<serializer, columnFamilies, tasks>>
      BY <2>3 DEF GCInspect
    <3> QED
      BY <1>3, <3>1
  <2> QED
    BY <1>5, <2>1, <2>2, <2>3 DEF CollectorStep
<1>6. CASE RequestStep
  <2>1. CASE \E t \in admitted : EnqueueRequest(t)
    <3>1. UNCHANGED <<serializer, columnFamilies>> /\ \E t \in Tasks : tasks' = Append(tasks, t)
      BY <1>t, <2>1 DEF EnqueueRequest, TypeOK
    <3>2. tasks \in Seq(Tasks) /\ tasks # <<>>
      BY <1>t, <3>1 DEF TypeOK
    <3>3. Head(tasks') = Head(tasks)
      BY <3>1, <3>2
    <3> QED
      BY <1>3, <3>1, <3>3
  <2>2. CASE ~ \E t \in admitted : EnqueueRequest(t)
    <3>1. serializer'.pc = "idle" \/ UNCHANGED <<serializer, columnFamilies, tasks>>
      BY <1>6, <2>2 DEF RequestStep, ValidateRequest, AcquireContainer, ReleaseContainer,
             DestroyContainer, Crash, ProcessDies, IdleSerializer
    <3> QED
      BY <1>3, <3>1
  <2> QED
    BY <2>1, <2>2
<1>7. CASE Start
    BY <1>3, <1>7 DEF Start
<1>8. CASE UNCHANGED vars
    BY <1>3, <1>8 DEF vars
<1> QED
    BY <1>1, <1>2, <1>4, <1>5, <1>6, <1>7, <1>8 DEF Next

(* A name always stands for one of the three states. *)
LEMMA StatesType == MemoryInv => NameStates \in [Names -> Name!States]
<1> SUFFICES ASSUME MemoryInv, NEW n \in Names PROVE StateOf(n) \in {"absent", "active", "deleted"}
    BY DEF NameStates, Name!States
<1>1. TypeOK /\ (index[n] # NoContainer => objects[index[n]] # "unallocated")
    BY DEF MemoryInv, DurableInv, ReferencedObjectsExist
<1>2. index[n] # NoContainer => objects[index[n]] \in {"active", "deleted"}
    BY <1>1 DEF TypeOK
<1> QED
    BY <1>2 DEF StateOf

(* The disk of a process that dies settles each name by a move of its own: *)
(* what is served stays, or goes the way its creation, removal or          *)
(* collection had begun.                                                   *)
LEMMA DeathSettles ==
    ASSUME NamesInv, phase = "up", ProcessDies, NEW n \in Names
    PROVE  StateOf(n)' = StateOf(n) \/ <<StateOf(n), StateOf(n)'>> \in Name!Moves
<1> USE DEF Name!Moves, Name!Create, Name!Remove, Name!Collect, Name!Abandon
<1>1. StateOf(n)' = IF n \in metadata THEN "active" ELSE IF n \in OnDisk THEN "deleted" ELSE "absent"
    BY DEF ProcessDies, disk, StateOf, OnDisk
<1>2. StateOf(n) = IF index[n] = NoContainer THEN "absent" ELSE objects[index[n]]
    BY DEF StateOf
<1>3. CASE index[n] = NoContainer
    BY <1>1, <1>2, <1>3
<1>4. CASE index[n] # NoContainer /\ objects[index[n]] = "deleted"
  <2>1. n \notin metadata
    BY <1>4 DEF NamesInv, MemoryInv, DurableInv, DeletedHasLeftMetadata
  <2> QED
    BY <1>1, <1>2, <1>4, <2>1
<1>5. CASE Active(n)
  <2>1. n \in metadata \/ At(n, {"mark"})
    BY <1>5 DEF NamesInv, MemoryInv, IndexAgreesWithMetadata
  <2>2. At(n, {"mark"}) => n \in OnDisk
    <3>1. 0 \in Partitions
      BY NumPartitionsAssumption DEF Partitions
    <3> QED
      BY <3>1 DEF NamesInv, RemovalHasItsFamilies, At, OnDisk
  <2> QED
    BY <1>1, <1>2, <1>5, <2>1, <2>2 DEF Active
<1>6. index[n] # NoContainer => objects[index[n]] \in {"active", "deleted"}
    BY DEF NamesInv, MemoryInv, ReferencedObjectsExist, DurableInv, TypeOK
<1> QED
    BY <1>3, <1>4, <1>5, <1>6 DEF Active

(* A start-up serves what was on the disk. *)
LEMMA StartKeepsStates ==
    ASSUME NamesInv, Start, NEW n \in Names PROVE StateOf(n)' = StateOf(n)
<1>1. DurableInv /\ phase = "down" /\ phase' = "up"
    BY StartLoadsDisk DEF NamesInv, MemoryInv, Start
<1>2. PICK a \in Addresses :
        /\ index'[n] = IF n \in OnDisk THEN [name |-> n, address |-> a] ELSE NoContainer
        /\ n \in OnDisk => objects'[[name |-> n, address |-> a]] =
                              IF n \in metadata THEN "active" ELSE "deleted"
    BY <1>1, StartLoadsDisk
<1>3. [name |-> n, address |-> a] # NoContainer
    BY NoContainerAssumption DEF Objects
<1>4. n \in metadata => n \in OnDisk
  <2>1. 0 \in Partitions
    BY NumPartitionsAssumption DEF Partitions
  <2> QED
    BY <1>1, <2>1 DEF DurableInv, WellDefinedTransaction, OnDisk
<1>5. StateOf(n) = IF n \in metadata THEN "active" ELSE IF n \in OnDisk THEN "deleted" ELSE "absent"
    BY <1>1 DEF StateOf
<1>6. StateOf(n)' = IF index'[n] = NoContainer THEN "absent" ELSE objects'[index'[n]]
    BY <1>1 DEF StateOf
<1> QED
    BY <1>2, <1>3, <1>4, <1>5, <1>6

(* Every step of the program moves each name along ContainerNames, or not   *)
(* at all.                                                                 *)
LEMMA NamesStep == NamesInv /\ NamesInv' /\ [Next]_vars => [Name!Next]_NameStates
<1> SUFFICES ASSUME NamesInv, NamesInv', [Next]_vars PROVE Name!Next
    OBVIOUS
<1>m. MemoryInv'
    BY DEF NamesInv
<1>i. (NameStates \in [Names -> Name!States])'
    BY <1>m, StatesType, PTL
<1> SUFFICES ASSUME NEW n \in Names
             PROVE  StateOf(n)' = StateOf(n) \/ <<StateOf(n), StateOf(n)'>> \in Name!Moves
    BY <1>i DEF Name!Next, NameStates
<1> USE DEF disk, refs, table, requests, bounds,
            Name!Moves, Name!Create, Name!Remove, Name!Collect, Name!Abandon
<1>t. /\ TypeOK /\ TypeOK' /\ DurableInv /\ MemoryInv
      /\ index[n] \in Objects \cup {NoContainer}
    BY DEF NamesInv, MemoryInv, DurableInv, TypeOK
<1>s. CASE UNCHANGED <<phase, disk, table>>
    BY <1>s DEF StateOf, OnDisk
<1>d. CASE ProcessDies /\ phase = "up"
    BY <1>d, DeathSettles
<1>u. ASSUME phase = "up", phase' = "up"
      PROVE  /\ StateOf(n) = IF index[n] = NoContainer THEN "absent" ELSE objects[index[n]]
             /\ StateOf(n)' = IF index'[n] = NoContainer THEN "absent" ELSE objects'[index'[n]]
    BY <1>u DEF StateOf
<1>1. CASE SerializerStep
  <2>1. CASE InsertIntoIndex
    <3>1. /\ phase = "up" /\ phase' = "up" /\ serializer.pc = "index"
          /\ serializer.container \in Objects /\ serializer.container # NoContainer
          /\ serializer.container.name = Task.name /\ index[Task.name] = NoContainer
          /\ \A m \in Names : index[m] # serializer.container
          /\ Task.name \in Names
      BY <1>t, <1>1, <2>1, SerializerLocals DEF SerializerStep, InsertIntoIndex, CreationCounters
    <3>2. /\ objects' = [objects EXCEPT ![serializer.container] = "active"]
          /\ index' = [index EXCEPT ![Task.name] = serializer.container]
      BY <2>1, <3>1 DEF InsertIntoIndex
    <3>3. CASE n = Task.name
      BY <1>t, <1>u, <3>1, <3>2, <3>3 DEF TypeOK
    <3>4. CASE n # Task.name
      BY <1>t, <1>u, <3>1, <3>2, <3>4 DEF TypeOK
    <3> QED
      BY <3>3, <3>4
  <2>2. CASE MarkAsDeleted
    <3>1. /\ phase = "up" /\ phase' = "up" /\ serializer.pc = "mark"
          /\ Task.name \in Names /\ Active(Task.name)
      BY <1>t, <1>1, <2>2, SerializerLocals
         DEF SerializerStep, MarkAsDeleted, MemoryInv, ChangeIsUnderway
    <3>2. objects' = [objects EXCEPT ![index[Task.name]] = "deleted"] /\ index' = index
      BY <2>2, <3>1 DEF MarkAsDeleted, Active
    <3>3. CASE n = Task.name
      BY <1>t, <1>u, <3>1, <3>2, <3>3 DEF TypeOK, Active
    <3>4. CASE n # Task.name
      <4>1. index[n] # NoContainer => index[n] # index[Task.name]
        BY <1>t, <3>1, <3>4, IndexIsInjective
      <4> QED
        BY <1>t, <1>u, <3>1, <3>2, <4>1 DEF TypeOK
    <3> QED
      BY <3>3, <3>4
  <2>3. CASE CreateInstance \/ PutMetadata \/ DeleteMetadata
    <3>1. phase = "up" /\ phase' = "up" /\ UNCHANGED table
      BY <1>1, <2>3 DEF SerializerStep, CreateInstance, PutMetadata, DeleteMetadata
    <3> QED
      BY <1>u, <3>1
  <2>4. CASE BeginCreation
    <3>1. UNCHANGED <<phase, disk, table>>
      BY <2>4 DEF BeginCreation
    <3> QED
      BY <1>s, <3>1
  <2>5. CASE FailCreateInstance \/ ApproveReferences \/ CountContainer
             \/ BeginRemoval \/ SendResponse
    BY <1>s, <2>5 DEF FailCreateInstance, ApproveReferences, CountContainer, BeginRemoval,
           SendResponse
  <2> QED
    BY <1>1, <2>1, <2>2, <2>3, <2>4, <2>5 DEF SerializerStep
<1>2. CASE CollectorStep
  <2>1. CASE GCEraseFromIndex
    <3>1. /\ phase = "up" /\ phase' = "up" /\ gc.pc = "erase" /\ objects' = objects
      BY <1>2, <2>1 DEF CollectorStep, GCEraseFromIndex
    <3>2. /\ gc.container \in Objects /\ gc.container # NoContainer /\ gc.container.name \in Names
          /\ index[gc.container.name] = gc.container /\ objects[gc.container] = "deleted"
      BY <1>t, <3>1, CollectorLocals
    <3>3. index' = [index EXCEPT ![gc.container.name] = NoContainer]
      BY <2>1, <3>2 DEF GCEraseFromIndex
    <3> QED
      BY <1>t, <1>u, <3>1, <3>2, <3>3 DEF TypeOK
  <2>2. CASE GCDropInstance
    <3>1. phase = "up" /\ phase' = "up" /\ UNCHANGED table
      BY <1>2, <2>2 DEF CollectorStep, GCDropInstance
    <3> QED
      BY <1>u, <3>1
  <2>3. CASE GCNullReference
    BY <1>d, <1>2, <2>3 DEF GCNullReference, CollectorStep
  <2>4. CASE GCSnapshotBucket \/ GCFailDrop \/ GCUncount \/ GCFinishBucket
    BY <1>s, <2>4 DEF GCSnapshotBucket, GCFailDrop, GCUncount, GCFinishBucket
  <2>5. ASSUME NEW o \in Objects, GCInspect(o)
        PROVE  StateOf(n)' = StateOf(n) \/ <<StateOf(n), StateOf(n)'>> \in Name!Moves
    BY <1>s, <2>5 DEF GCInspect
  <2> QED
    BY <1>2, <2>1, <2>2, <2>3, <2>4, <2>5 DEF CollectorStep
<1>3. CASE RequestStep
  <2>1. ASSUME NEW o \in Objects, DestroyContainer(o)
        PROVE  StateOf(n)' = StateOf(n) \/ <<StateOf(n), StateOf(n)'>> \in Name!Moves
    <3>1. /\ phase = "up" /\ phase' = "up" /\ index' = index
          /\ objects' = [objects EXCEPT ![o] = "unallocated"] /\ ~ Referenced(o)
      BY <1>3, <2>1 DEF RequestStep, DestroyContainer
    <3>2. index[n] # NoContainer => index[n] # o
      BY <1>t, <3>1 DEF Referenced, DurableInv, CollectorKeepsItsObjects
    <3> QED
      BY <1>t, <1>u, <3>1, <3>2 DEF TypeOK
  <2>2. CASE Crash
    BY <1>d, <1>3, <2>2 DEF Crash, RequestStep
  <2>3. CASE \/ \E t \in Tasks : ValidateRequest(t)
             \/ \E t \in admitted : EnqueueRequest(t)
             \/ \E u \in Users, m \in Names : AcquireContainer(u, m)
             \/ \E u \in Users : ReleaseContainer(u)
    BY <1>s, <2>3 DEF ValidateRequest, EnqueueRequest, AcquireContainer, ReleaseContainer
  <2> QED
    BY <1>3, <2>1, <2>2, <2>3 DEF RequestStep
<1>4. CASE Start
    BY <1>4, StartKeepsStates
<1>5. CASE UNCHANGED vars
    BY <1>s, <1>5 DEF vars
<1> QED
    BY <1>1, <1>2, <1>3, <1>4, <1>5 DEF Next

(* The life of a container, through the serializer, the collector, crashes   *)
(* and start-ups, is the life ContainerNames gives its name: a removed      *)
(* container never comes back, and a served one goes only by its removal.  *)
THEOREM NamesCorrect == Spec => ImplementsNames
<1>1. Init => Name!Init /\ NamesInv
  <2> SUFFICES ASSUME Init PROVE Name!Init /\ NamesInv
    OBVIOUS
  <2>1. Name!Init
    BY DEF Init, EmptyIndex, Name!Init, NameStates, StateOf
  <2> QED
    BY <2>1, MemoryInit DEF Init, IdleSerializer, NamesInv, RemovalHasItsFamilies
<1>2. NamesInv /\ [Next]_vars => NamesInv'
    BY MemoryStep, FamiliesStep DEF NamesInv
<1>3. Spec => []NamesInv
    BY <1>1, <1>2, PTL DEF Spec
<1> QED
    BY <1>1, <1>3, NamesStep, PTL DEF Spec, ImplementsNames, Name!Spec

-------------------------------------------------------------------------------
(* How far the limit of containers is passed.                              *)

(* A creation that gives up now leaves a family nobody knows of. *)
Excused ==
    IF \/ serializer.pc \in {"metadata", "approve", "index"}
       \/ /\ serializer.pc = "create"
          /\ \A p \in Partitions : p >= serializer.partition => Task.name \notin columnFamilies[p]
    THEN {Task.name} ELSE {}

(* Names on the disk that neither the index nor a creation knows. *)
Leftovers == (OnDisk \ Indexed) \ Excused

(* Each of them stands for a creation the engine failed in this session. *)
LeftoversAreFailures == phase = "up" => Cardinality(Leftovers) <= failures

(* The serializer has not reached the disk for its request. *)
Untouched ==
    \/ serializer.pc = "idle"
    \/ serializer.pc = "create" /\ serializer.partition = 0

(* Clients whose creation may still add a name to the disk. *)
Creating ==
    {c \in Clients :
        \/ \E t \in admitted : t.client = c /\ t.optype = "create"
        \/ \E i \in DOMAIN tasks : /\ tasks[i].client = c /\ tasks[i].optype = "create"
                                   /\ i = 1 => Untouched}

Taken == Indexed \cup OnDisk

(* Names in use and names that may come stay below the bound. *)
GrowthIsBounded ==
    Cardinality(Taken) + Cardinality(Creating) < MaxContainers + Cardinality(Clients) + failures

(* The inductive invariant. *)
LimitInv ==
    /\ StoreInv
    /\ ResidueInv
    /\ CounterMatchesIndex
    /\ LeftoversAreFailures
    /\ GrowthIsBounded

(* The sets that are counted are finite. *)
LEMMA CountedSets ==
    ASSUME TypeOK
    PROVE  /\ OnDisk \subseteq Names /\ Indexed \subseteq Names /\ Leftovers \subseteq Names
           /\ Taken \subseteq Names /\ Creating \subseteq Clients
           /\ \A S \in SUBSET Names : IsFiniteSet(S) /\ Cardinality(S) \in Nat
           /\ \A S \in SUBSET Clients : IsFiniteSet(S) /\ Cardinality(S) \in Nat
           /\ failures \in Nat
<1>1. OnDisk \subseteq Names /\ Indexed \subseteq Names
    BY DEF TypeOK, OnDisk, Indexed
<1>2. Leftovers \subseteq Names /\ Taken \subseteq Names /\ Creating \subseteq Clients
    BY <1>1 DEF Leftovers, Taken, Creating
<1>3. \A S \in SUBSET Names : IsFiniteSet(S) /\ Cardinality(S) \in Nat
    BY NamesAssumption, FS_Subset, FS_CardinalityType
<1>4. \A S \in SUBSET Clients : IsFiniteSet(S) /\ Cardinality(S) \in Nat
    BY ClientsAssumption, FS_Subset, FS_CardinalityType
<1>5. failures \in Nat
    BY BoundsAssumption DEF TypeOK
<1> QED
    BY <1>1, <1>2, <1>3, <1>4, <1>5

(* A subset of names or clients has no more of them. *)
LEMMA FewerNames ==
    ASSUME NEW T \in SUBSET Names, NEW S \in SUBSET T
    PROVE  Cardinality(S) <= Cardinality(T) /\ Cardinality(S) \in Nat /\ Cardinality(T) \in Nat
<1>1. IsFiniteSet(T)
    BY NamesAssumption, FS_Subset
<1> QED
    BY <1>1, FS_Subset, FS_CardinalityType

(* A set of fewer clients is smaller. *)
LEMMA FewerClients ==
    ASSUME NEW T \in SUBSET Clients, NEW S \in SUBSET T
    PROVE  Cardinality(S) <= Cardinality(T) /\ Cardinality(S) \in Nat /\ Cardinality(T) \in Nat
<1>1. IsFiniteSet(T)
    BY ClientsAssumption, FS_Subset
<1> QED
    BY <1>1, FS_Subset, FS_CardinalityType

(* An engine failure is one more. *)
LEMMA FailuresGrow ==
    ASSUME TypeOK PROVE /\ EngineFails => failures' = failures + 1
                        /\ EngineFails \/ UNCHANGED bounds => failures' >= failures
BY BoundsAssumption DEF TypeOK, EngineFails, bounds

(* An element more adds at most one to a cardinality. *)
LEMMA OneMore ==
    ASSUME NEW S, NEW x, IsFiniteSet(S)
    PROVE  Cardinality(S \cup {x}) <= Cardinality(S) + 1
<1>1. Cardinality(S) \in Nat
    BY FS_CardinalityType
<1>2. Cardinality(S \cup {x}) = IF x \in S THEN Cardinality(S) ELSE Cardinality(S) + 1
    BY FS_AddElement
<1> QED
    BY <1>1, <1>2

(* Families nobody knows of appear one at a time, with an engine failure,   *)
(* and a start-up indexes them all.                                        *)
LEMMA LeftoversStep ==
    ResidueInv /\ TypeOK' /\ LeftoversAreFailures /\ [Next]_vars => LeftoversAreFailures'
<1> SUFFICES ASSUME ResidueInv, TypeOK', LeftoversAreFailures, [Next]_vars PROVE LeftoversAreFailures'
    OBVIOUS
<1> USE DEF disk, refs, table, requests, bounds
<1>t. TypeOK /\ DurableInv /\ MemoryInv
    BY DEF ResidueInv, MemoryInv, DurableInv
<1>g. ASSUME phase' = "up" => phase = "up", Leftovers' \subseteq Leftovers, failures' >= failures
      PROVE  LeftoversAreFailures'
  <2>1. /\ Cardinality(Leftovers') <= Cardinality(Leftovers)
        /\ Cardinality(Leftovers') \in Nat /\ Cardinality(Leftovers) \in Nat
        /\ failures \in Nat /\ failures' \in Nat
    <3>1. Leftovers \in SUBSET Names /\ Leftovers' \in SUBSET Leftovers
      BY <1>g, <1>t, CountedSets
    <3>2. failures \in Nat /\ failures' \in Nat
      BY BoundsAssumption, <1>t DEF TypeOK
    <3> QED
      BY <3>1, <3>2, FewerNames
  <2> QED
    BY <1>g, <2>1 DEF LeftoversAreFailures
<1>m. ASSUME NEW n \in Names, phase = "up", Leftovers' \subseteq Leftovers \cup {n}, failures' = failures + 1
      PROVE  LeftoversAreFailures'
  <2>1. /\ IsFiniteSet(Leftovers) /\ Cardinality(Leftovers) \in Nat /\ Leftovers \cup {n} \in SUBSET Names
        /\ failures \in Nat
    BY <1>t, CountedSets
  <2>2. Cardinality(Leftovers \cup {n}) <= Cardinality(Leftovers) + 1
    BY <2>1, OneMore
  <2>3. /\ Cardinality(Leftovers') <= Cardinality(Leftovers \cup {n})
        /\ Cardinality(Leftovers') \in Nat /\ Cardinality(Leftovers \cup {n}) \in Nat
    BY <1>m, <2>1, FewerNames
  <2> QED
    BY <1>m, <2>1, <2>2, <2>3 DEF LeftoversAreFailures
(* Nothing the count depends on has changed. *)
<1>s. CASE /\ UNCHANGED <<phase, columnFamilies, index, serializer>> /\ failures' >= failures
           /\ serializer.pc # "idle" => Task' = Task
  <2>1. Excused' = Excused /\ OnDisk' = OnDisk /\ Indexed' = Indexed
    BY <1>s DEF Excused, OnDisk, Indexed
  <2> QED
    BY <1>g, <1>s, <2>1 DEF Leftovers
(* The serializer moves between program counters that excuse nothing. *)
<1>i. CASE /\ UNCHANGED <<phase, columnFamilies, index>> /\ failures' >= failures
           /\ serializer.pc \notin {"create", "metadata", "approve", "index"}
  <2>1. Excused = {} /\ OnDisk' = OnDisk /\ Indexed' = Indexed
    BY <1>i DEF Excused, OnDisk, Indexed
  <2> QED
    BY <1>g, <1>i, <2>1 DEF Leftovers
<1>d. CASE ProcessDies
    BY <1>d DEF ProcessDies, LeftoversAreFailures
<1>x. failures' = failures => failures' >= failures
    BY <1>t, CountedSets
<1>1. CASE SerializerStep
  <2>u. phase = "up"
    BY <1>1 DEF SerializerStep
  <2>l. serializer.pc \in {"create", "metadata", "approve", "index"} =>
          /\ Task.name \in Names /\ serializer.container.name = Task.name
          /\ serializer.container \in Objects /\ serializer.partition \in Partitions
          /\ index[Task.name] = NoContainer /\ serializer.container # NoContainer
    BY <1>t, SerializerLocals DEF CreationCounters
  <2>f. ASSUME serializer.pc \in {"create", "metadata"}, serializer'.pc = "respond", EngineFails,
               UNCHANGED <<phase, columnFamilies, index>>
        PROVE  LeftoversAreFailures'
    <3>1. Excused \subseteq {Task.name} /\ OnDisk' = OnDisk /\ Indexed' = Indexed
      BY <2>f DEF Excused, OnDisk, Indexed
    <3>2. Leftovers' \subseteq Leftovers \cup {Task.name} /\ failures' = failures + 1
      BY <1>t, <2>f, <3>1, FailuresGrow DEF Leftovers
    <3> QED
      BY <1>m, <2>f, <2>l, <2>u, <3>2
  <2>1. CASE BeginCreation \/ CountContainer \/ BeginRemoval \/ MarkAsDeleted \/ SendResponse
    BY <1>i, <1>x, <2>1 DEF BeginCreation, CountContainer, BeginRemoval, MarkAsDeleted, SendResponse
  <2>2. CASE CreateInstance
    <3>1. /\ \A p \in Partitions \ {serializer.partition} : columnFamilies'[p] = columnFamilies[p]
          /\ columnFamilies'[serializer.partition] = columnFamilies[serializer.partition] \cup {Task.name}
          /\ Task.name \notin columnFamilies[serializer.partition]
          /\ UNCHANGED <<phase, index, failures>> /\ Task' = Task
      BY <1>t, <2>2, <2>l DEF CreateInstance, TypeOK, Task
    <3>2. \/ serializer'.pc = "create" /\ serializer'.partition = serializer.partition + 1
          \/ serializer'.pc = "metadata"
      BY <1>t, <2>2 DEF CreateInstance, TypeOK, SerializerStates, CreationCounters
    <3>3. OnDisk' = OnDisk \cup {Task.name} /\ Indexed' = Indexed
      BY <2>2, <2>l, <3>1 DEF OnDisk, Indexed, CreateInstance
    <3>4. Excused \subseteq {Task.name}
      BY DEF Excused
    <3>5. CASE Excused' = {Task.name}
      BY <1>g, <1>x, <3>1, <3>3, <3>4, <3>5 DEF Leftovers
    <3>6. CASE Excused' # {Task.name}
      <4>1. PICK q \in Partitions : q >= serializer.partition + 1 /\ Task.name \in columnFamilies'[q]
        BY <3>1, <3>2, <3>6 DEF Excused
      <4>2. q # serializer.partition /\ q >= serializer.partition
        BY <2>2, <2>l, <4>1 DEF Partitions, CreateInstance
      <4>3. Task.name \in columnFamilies[q]
        BY <3>1, <4>1, <4>2
      <4>4. Excused = {} /\ Task.name \in OnDisk
        BY <2>2, <4>2, <4>3 DEF Excused, OnDisk, CreateInstance
      <4> QED
        BY <1>g, <1>x, <3>1, <3>3, <4>4 DEF Leftovers
    <3> QED
      BY <3>5, <3>6
  <2>3. CASE FailCreateInstance
    <3>1. serializer'.pc = "respond" /\ UNCHANGED <<phase, columnFamilies, index>> /\ serializer.pc = "create"
      BY <2>3 DEF FailCreateInstance, Respond
    <3>2. CASE EngineFails
      BY <2>f, <3>1, <3>2
    <3>3. CASE serializer.container.name \in columnFamilies[serializer.partition] /\ UNCHANGED bounds
      <4>1. serializer.partition >= serializer.partition
        BY <2>l, <3>1 DEF Partitions
      <4>2. Excused = {} /\ OnDisk' = OnDisk /\ Indexed' = Indexed
        BY <2>l, <3>1, <3>3, <4>1 DEF Excused, OnDisk, Indexed
      <4> QED
        BY <1>g, <1>x, <3>1, <3>3, <4>2 DEF Leftovers
    <3> QED
      BY <2>3, <3>2, <3>3 DEF FailCreateInstance
  <2>4. CASE PutMetadata
    <3>1. CASE EngineFails /\ Respond("object_insertion_failed")
      BY <2>4, <2>f, <3>1 DEF PutMetadata, Respond
    <3>2. CASE serializer' = [serializer EXCEPT !.pc = "approve"] /\ UNCHANGED bounds
      <4>1. Excused' = Excused /\ OnDisk' = OnDisk /\ Indexed' = Indexed /\ phase' = phase
        BY <1>t, <2>4, <3>2 DEF PutMetadata, Excused, OnDisk, Indexed, Task, TypeOK, SerializerStates, CreationCounters
      <4> QED
        BY <1>g, <1>x, <3>2, <4>1 DEF Leftovers
    <3> QED
      BY <2>4, <3>1, <3>2 DEF PutMetadata
  <2>5. CASE ApproveReferences
    <3>1. Excused' = Excused /\ OnDisk' = OnDisk /\ Indexed' = Indexed /\ phase' = phase /\ failures' = failures
      BY <1>t, <2>5 DEF ApproveReferences, Excused, OnDisk, Indexed, Task, TypeOK, SerializerStates, CreationCounters
    <3> QED
      BY <1>g, <1>x, <3>1 DEF Leftovers
  <2>6. CASE InsertIntoIndex
    <3>1. /\ serializer.pc = "index" /\ index' = [index EXCEPT ![Task.name] = serializer.container]
          /\ UNCHANGED <<phase, columnFamilies, failures>>
      BY <2>6, <2>l DEF InsertIntoIndex
    <3>2. Indexed' = Indexed \cup {Task.name} /\ OnDisk' = OnDisk /\ Excused = {Task.name}
      BY <1>t, <2>l, <3>1 DEF Indexed, OnDisk, Excused, TypeOK
    <3> QED
      BY <1>g, <1>x, <3>1, <3>2 DEF Leftovers
  <2>7. CASE DeleteMetadata
    BY <1>i, <1>t, <2>7, FailuresGrow DEF DeleteMetadata
  <2> QED
    BY <1>1, <2>1, <2>2, <2>3, <2>4, <2>5, <2>6, <2>7 DEF SerializerStep
<1>2. CASE CollectorStep
  <2>1. CASE GCDropInstance
    <3>1. /\ \A p \in Partitions : columnFamilies'[p] \subseteq columnFamilies[p]
          /\ UNCHANGED <<phase, index, serializer, failures>> /\ Task' = Task
      BY <1>t, <2>1 DEF GCDropInstance, TypeOK, Task
    <3>2. Excused \subseteq Excused' /\ OnDisk' \subseteq OnDisk /\ Indexed' = Indexed
      BY <3>1 DEF Excused, OnDisk, Indexed
    <3> QED
      BY <1>g, <1>x, <3>1, <3>2 DEF Leftovers
  <2>2. CASE GCEraseFromIndex
    <3>1. /\ gc.container.name \in Names
          /\ \A p \in Partitions : gc.container.name \notin columnFamilies[p]
          /\ \A n \in Names \ {gc.container.name} : index'[n] = index[n]
          /\ UNCHANGED <<phase, columnFamilies, serializer, failures>> /\ Task' = Task
      BY <1>t, <2>2, CollectorLocals
         DEF GCEraseFromIndex, ResidueInv, NothingIsBehindCollector, TypeOK, Task
    <3>2. Excused' = Excused /\ OnDisk' = OnDisk
      BY <3>1 DEF Excused, OnDisk
    <3>3. gc.container.name \notin OnDisk /\ Indexed \ {gc.container.name} \subseteq Indexed'
      BY <3>1 DEF OnDisk, Indexed
    <3> QED
      BY <1>g, <1>x, <3>1, <3>2, <3>3 DEF Leftovers
  <2>3. CASE GCFailDrop
    <3>1. failures' >= failures
      BY <1>t, <2>3, FailuresGrow DEF GCFailDrop
    <3> QED
      BY <1>s, <2>3, <3>1 DEF GCFailDrop, Task
  <2>4. CASE ~ GCDropInstance /\ ~ GCEraseFromIndex /\ ~ GCFailDrop
    BY <1>2, <1>s, <1>d, <1>x, <2>4
       DEF CollectorStep, GCSnapshotBucket, GCInspect, GCNullReference, GCUncount, GCFinishBucket, Task
  <2> QED
    BY <2>1, <2>2, <2>3, <2>4
<1>3. CASE RequestStep
  <2>1. ASSUME NEW t \in admitted, EnqueueRequest(t) PROVE LeftoversAreFailures'
    <3>1. t \in Tasks
      BY <1>t DEF TypeOK
    <3>2. serializer.pc # "idle" => Task' = Task
      BY <1>t, <2>1, <3>1, TaskKept DEF TypeOK, EnqueueRequest
    <3> QED
      BY <1>s, <1>x, <2>1, <3>2 DEF EnqueueRequest
  <2> QED
    BY <1>3, <1>s, <1>d, <1>x, <2>1
       DEF RequestStep, ValidateRequest, AcquireContainer, ReleaseContainer, DestroyContainer, Crash, Task
<1>4. CASE Start
  <2>1. Indexed' = OnDisk /\ OnDisk' = OnDisk /\ failures' = failures
    <3>1. /\ UNCHANGED <<columnFamilies, failures>>
          /\ \E a \in Addresses : \A n \in Names :
                index'[n] = IF n \in OnDisk THEN [name |-> n, address |-> a] ELSE NoContainer
      BY <1>4, <1>t, StartLoadsDisk
    <3>2. \A n \in Names, a \in Addresses : [name |-> n, address |-> a] # NoContainer
      BY NoContainerAssumption DEF Objects
    <3> QED
      BY <1>t, <3>1, <3>2, CountedSets DEF Indexed, OnDisk
  <2>2. Leftovers' = {}
    BY <2>1 DEF Leftovers
  <2>3. Cardinality(Leftovers') = 0
    BY <2>2, FS_EmptySet
  <2> QED
    BY <1>t, <2>1, <2>3, CountedSets DEF LeftoversAreFailures
<1>5. CASE UNCHANGED vars
    BY <1>5, <1>s, <1>x DEF vars, Task
<1> QED
    BY <1>1, <1>2, <1>3, <1>4, <1>5 DEF Next

(* Only the creation of a first family takes a name, for a request that was  *)
(* counted when it was validated; the limit bounds what it was counted to. *)
LEMMA GrowthStep ==
    LimitInv /\ TypeOK' /\ [Next]_vars => GrowthIsBounded'
<1> SUFFICES ASSUME LimitInv, TypeOK', [Next]_vars PROVE GrowthIsBounded'
    OBVIOUS
<1> USE DEF disk, refs, table, requests, bounds
<1>t. TypeOK /\ DurableInv /\ MemoryInv /\ ClientsAreBusyOnce /\ HandlerFitsRequest
    BY DEF LimitInv, StoreInv, MemoryInv, DurableInv
<1>n. /\ Cardinality(Taken) \in Nat /\ Cardinality(Creating) \in Nat
      /\ Taken \in SUBSET Names /\ Creating \in SUBSET Clients
      /\ failures \in Nat /\ failures' \in Nat
      /\ Cardinality(Clients) \in Nat /\ MaxContainers \in Nat
    BY <1>t, CountedSets, BoundsAssumption, ClientsAssumption, FS_CardinalityType DEF TypeOK
<1>g. ASSUME Taken' \subseteq Taken, Creating' \subseteq Creating, failures' >= failures
      PROVE  GrowthIsBounded'
  <2>1. Cardinality(Taken') <= Cardinality(Taken) /\ Cardinality(Taken') \in Nat
    BY <1>g, <1>n, FewerNames
  <2>2. Cardinality(Creating') <= Cardinality(Creating) /\ Cardinality(Creating') \in Nat
    BY <1>g, <1>n, FewerClients
  <2> QED
    BY <1>g, <1>n, <2>1, <2>2 DEF LimitInv, GrowthIsBounded
<1>x. failures' = failures => failures' >= failures
    BY <1>n
(* A step of the serializer that adds no name and does not go back. *)
<1>i. ASSUME UNCHANGED <<admitted, tasks>>, Untouched' => Untouched,
             Taken' \subseteq Taken, failures' >= failures
      PROVE  GrowthIsBounded'
    BY <1>g, <1>i DEF Creating
<1>d. ASSUME ProcessDies, failures' = failures PROVE GrowthIsBounded'
  <2>1. Taken' \subseteq Taken
    BY <1>d DEF ProcessDies, EmptyIndex, Taken, Indexed, OnDisk
  <2>2. Creating' = {}
    BY <1>d DEF ProcessDies, Creating
  <2> QED
    BY <1>d, <1>g, <1>x, <2>1, <2>2
<1>s. CASE UNCHANGED <<columnFamilies, index, admitted, tasks, serializer>> /\ failures' >= failures
  <2>1. Taken' = Taken /\ Untouched' = Untouched
    BY <1>s DEF Taken, Indexed, OnDisk, Untouched
  <2> QED
    BY <1>i, <1>s, <2>1
<1>1. CASE SerializerStep
  <2>l. serializer.pc \in {"create", "metadata", "approve", "index"} =>
          /\ Task.name \in Names /\ serializer.container.name = Task.name
          /\ serializer.container \in Objects /\ serializer.partition \in Partitions
          /\ index[Task.name] = NoContainer /\ serializer.container # NoContainer
    BY <1>t, SerializerLocals DEF CreationCounters
  <2>f. UNCHANGED <<columnFamilies, index>> => Taken' = Taken
    BY DEF Taken, Indexed, OnDisk
  <2>r. \A s : Respond(s) => ~ Untouched'
    BY DEF Respond, Untouched
  <2>x. DOMAIN serializer = {"pc", "container", "partition", "status"}
    BY <1>t DEF TypeOK, SerializerStates
  <2>1. CASE BeginCreation \/ BeginRemoval
    <3>1. serializer.pc = "idle"
      BY <2>1 DEF BeginCreation, BeginRemoval
    <3>2. Untouched
      BY <3>1 DEF Untouched
    <3> QED
      BY <1>i, <1>x, <2>1, <2>f, <3>2 DEF BeginCreation, BeginRemoval
  <2>2. CASE CreateInstance
    <3>1. /\ \A p \in Partitions \ {serializer.partition} : columnFamilies'[p] = columnFamilies[p]
          /\ columnFamilies'[serializer.partition] = columnFamilies[serializer.partition] \cup {Task.name}
          /\ UNCHANGED <<index, failures, admitted, tasks>> /\ Task' = Task
      BY <1>t, <2>2, <2>l DEF CreateInstance, TypeOK, Task
    <3>2. ~ Untouched'
      <4>1. serializer.partition + 1 # 0
        BY <2>2, <2>l DEF CreateInstance, Partitions
      <4> QED
        BY <2>2, <2>x, <4>1 DEF CreateInstance, Untouched
    <3>3. OnDisk' = OnDisk \cup {Task.name} /\ Indexed' = Indexed
      BY <2>2, <2>l, <3>1 DEF OnDisk, Indexed, CreateInstance
    <3>4. CASE serializer.partition # 0
      <4>1. 0 \in Partitions /\ 0 < serializer.partition
        BY <2>2, <2>l, <3>4, NumPartitionsAssumption DEF Partitions, CreateInstance
      <4>2. Task.name \in OnDisk
        BY <1>t, <2>2, <4>1 DEF CreateInstance, DurableInv, CreationKeepsItsName, OnDisk
      <4> QED
        BY <1>i, <1>x, <3>1, <3>2, <3>3, <4>2 DEF Taken
    <3>5. CASE serializer.partition = 0
      <4>1. Task.client \in Creating /\ Creating' \subseteq Creating \ {Task.client}
        <5>1. Task = tasks[1] /\ 1 \in DOMAIN tasks /\ Task.optype = "create" /\ Untouched
              /\ Task.client \in Clients
          <6>1. Task \in Tasks
            BY <1>t, <2>2, QueueShape, TaskType DEF CreateInstance
          <6> QED
            BY <1>t, <2>2, <3>5, <6>1, QueueShape
               DEF CreateInstance, HandlerFitsRequest, CreationCounters, Untouched, Tasks
        <5>2. Task.client \in Creating
          BY <5>1 DEF Creating
        <5>3. Creating' \subseteq Creating
          BY <3>1, <5>1 DEF Creating
        <5>4. Task.client \notin Creating'
          <6>1. \A t \in admitted : t.client # Task.client
            BY <1>t, <5>1 DEF ClientsAreBusyOnce
          <6>2. \A i \in DOMAIN tasks : tasks[i].client = Task.client => i = 1
            BY <1>t, <5>1 DEF ClientsAreBusyOnce
          <6> QED
            BY <3>1, <3>2, <6>1, <6>2 DEF Creating
        <5> QED
          BY <5>2, <5>3, <5>4
      <4>2. Cardinality(Creating') <= Cardinality(Creating) - 1 /\ Cardinality(Creating') \in Nat
        <5>1. IsFiniteSet(Creating)
          BY <1>t, CountedSets
        <5>2. Cardinality(Creating \ {Task.client}) = Cardinality(Creating) - 1
          BY <4>1, <5>1, FS_RemoveElement
        <5>3. Creating \ {Task.client} \in SUBSET Clients
          BY <1>n
        <5> QED
          BY <4>1, <5>2, <5>3, FewerClients
      <4>3. Cardinality(Taken') <= Cardinality(Taken) + 1 /\ Cardinality(Taken') \in Nat
        <5>1. IsFiniteSet(Taken) /\ Taken' = Taken \cup {Task.name}
          BY <1>t, <3>3, CountedSets DEF Taken
        <5>2. Cardinality(Taken \cup {Task.name}) =
                  IF Task.name \in Taken THEN Cardinality(Taken) ELSE Cardinality(Taken) + 1
          BY <5>1, FS_AddElement
        <5>3. Cardinality(Taken) \in Nat
          BY <1>n
        <5> QED
          BY <5>1, <5>2, <5>3
      <4> QED
        BY <1>n, <3>1, <4>2, <4>3 DEF LimitInv, GrowthIsBounded
    <3> QED
      BY <3>4, <3>5
  <2>3. CASE FailCreateInstance
    BY <1>i, <1>t, <2>3, <2>f, <2>r, FailuresGrow DEF FailCreateInstance
  <2>4. CASE PutMetadata
    <3>1. ~ Untouched'
      BY <2>4, <2>r, <2>x DEF PutMetadata, Untouched
    <3> QED
      BY <1>i, <1>t, <2>4, <2>f, <3>1, FailuresGrow DEF PutMetadata
  <2>5. CASE ApproveReferences
    <3>1. ~ Untouched'
      BY <2>5, <2>x DEF ApproveReferences, Untouched
    <3> QED
      BY <1>i, <1>x, <2>5, <2>f, <3>1 DEF ApproveReferences
  <2>6. CASE InsertIntoIndex
    <3>1. /\ serializer.pc = "index" /\ index' = [index EXCEPT ![Task.name] = serializer.container]
          /\ serializer'.pc = "count" /\ UNCHANGED <<columnFamilies, failures, admitted, tasks>>
      BY <2>6, <2>l, <2>x DEF InsertIntoIndex
    <3>2. Task.name \in OnDisk
      <4>1. 0 \in Partitions
        BY NumPartitionsAssumption DEF Partitions
      <4> QED
        BY <1>t, <3>1, <4>1 DEF DurableInv, CreationKeepsItsName, OnDisk
    <3>3. Taken' \subseteq Taken /\ ~ Untouched'
      BY <1>t, <2>l, <3>1, <3>2 DEF Taken, Indexed, OnDisk, TypeOK, Untouched
    <3> QED
      BY <1>i, <1>x, <3>1, <3>3
  <2>7. CASE CountContainer \/ MarkAsDeleted
    BY <1>i, <1>x, <2>7, <2>f, <2>r DEF CountContainer, MarkAsDeleted
  <2>8. CASE DeleteMetadata
    <3>1. ~ Untouched'
      BY <2>8, <2>r, <2>x DEF DeleteMetadata, Untouched
    <3> QED
      BY <1>i, <1>t, <2>8, <2>f, <3>1, FailuresGrow DEF DeleteMetadata
  <2>9. CASE SendResponse
    <3>1. /\ DOMAIN tasks' = 1 .. Len(tasks) - 1 /\ DOMAIN tasks = 1 .. Len(tasks) /\ Len(tasks) \in Nat
          /\ \A i \in DOMAIN tasks' : i + 1 \in DOMAIN tasks /\ i + 1 # 1 /\ tasks'[i] = tasks[i + 1]
          /\ admitted' = admitted /\ failures' = failures
      BY <1>t, <2>9, QueueShape DEF SendResponse
    <3>2. Creating' \subseteq Creating
      BY <3>1 DEF Creating
    <3> QED
      BY <1>g, <1>x, <2>9, <2>f, <3>1, <3>2 DEF SendResponse
  <2> QED
    BY <1>1, <2>1, <2>2, <2>3, <2>4, <2>5, <2>6, <2>7, <2>8, <2>9 DEF SerializerStep
<1>2. CASE CollectorStep
  <2>1. CASE GCDropInstance
    <3>1. /\ \A p \in Partitions : columnFamilies'[p] \subseteq columnFamilies[p]
          /\ UNCHANGED <<index, serializer, failures, admitted, tasks>>
      BY <1>t, <2>1 DEF GCDropInstance, TypeOK
    <3>2. Taken' \subseteq Taken /\ Untouched' = Untouched
      BY <3>1 DEF Taken, Indexed, OnDisk, Untouched
    <3> QED
      BY <1>i, <1>x, <3>1, <3>2
  <2>2. CASE GCEraseFromIndex
    <3>1. /\ \A n \in Names : index'[n] # NoContainer => index[n] # NoContainer
          /\ UNCHANGED <<columnFamilies, serializer, failures, admitted, tasks>>
      BY <1>t, <2>2 DEF GCEraseFromIndex, TypeOK
    <3>2. Taken' \subseteq Taken /\ Untouched' = Untouched
      BY <3>1 DEF Taken, Indexed, OnDisk, Untouched
    <3> QED
      BY <1>i, <1>x, <3>1, <3>2
  <2>3. CASE GCFailDrop
    BY <1>s, <1>t, <2>3, FailuresGrow DEF GCFailDrop
  <2>4. CASE GCNullReference
    BY <1>d, <2>4 DEF GCNullReference
  <2>5. CASE ~ GCDropInstance /\ ~ GCEraseFromIndex /\ ~ GCFailDrop /\ ~ GCNullReference
    BY <1>2, <1>s, <1>x, <2>5 DEF CollectorStep, GCSnapshotBucket, GCInspect, GCUncount, GCFinishBucket
  <2> QED
    BY <2>1, <2>2, <2>3, <2>4, <2>5
<1>3. ASSUME NEW t \in Tasks, phase = "up", ValidateRequest(t) PROVE GrowthIsBounded'
  <2>1. /\ admitted' = admitted \cup {t} /\ ~ InFlight(t.client) /\ t.client \in Clients
        /\ UNCHANGED <<columnFamilies, index, tasks, serializer, failures>>
    BY <1>3 DEF ValidateRequest, Tasks
  <2>2. Taken' = Taken /\ Untouched' = Untouched
    BY <2>1 DEF Taken, Indexed, OnDisk, Untouched
  <2>3. CASE t.optype = "remove"
    <3>1. Creating' = Creating
      BY <2>1, <2>2, <2>3 DEF Creating
    <3> QED
      BY <1>g, <1>x, <2>1, <2>2, <3>1
  <2>4. CASE t.optype = "create"
    (* One when the serializer works on a name that it has taken. *)
    <3> DEFINE e == IF serializer.pc = "count" \/ Excused \cap OnDisk # {} THEN 1 ELSE 0
    <3>1. numberContainers < MaxContainers
      BY <1>3, <2>4 DEF ValidateRequest
    <3>2. Cardinality(Indexed) < MaxContainers + (IF serializer.pc = "count" THEN 1 ELSE 0)
      <4>1. numberContainers =
              Cardinality(Indexed) - (IF serializer.pc = "count" THEN 1 ELSE 0)
                                   + (IF gc.pc = "uncount" THEN 1 ELSE 0)
        BY DEF LimitInv, CounterMatchesIndex
      <4>2. Cardinality(Indexed) \in Nat
        BY <1>t, CountedSets
      <4>3. MaxContainers \in Nat
        BY <1>n
      <4> QED
        BY <3>1, <4>1, <4>2, <4>3
    <3>3. Cardinality(Taken) < MaxContainers + failures + e
      <4>1. Taken \subseteq Indexed \cup (Leftovers \cup (Excused \cap OnDisk))
        BY DEF Taken, Leftovers
      <4>2. Excused \cap OnDisk \in SUBSET Names /\ Leftovers \in SUBSET Names /\ Indexed \in SUBSET Names
        BY <1>t, CountedSets
      <4>3. Cardinality(Leftovers) <= failures /\ Cardinality(Leftovers) \in Nat
        BY <1>3, <1>t, CountedSets DEF LimitInv, LeftoversAreFailures
      <4>4. serializer.pc = "count" => Excused \cap OnDisk = {}
        BY DEF Excused
      <4>5. Cardinality(Leftovers \cup (Excused \cap OnDisk)) <=
                failures + (IF Excused \cap OnDisk # {} THEN 1 ELSE 0)
        <5>1. CASE Excused \cap OnDisk = {}
          <6>1. Leftovers \cup (Excused \cap OnDisk) = Leftovers
            BY <5>1
          <6> QED
            BY <1>n, <4>3, <5>1, <6>1
        <5>2. CASE Excused \cap OnDisk # {}
          <6>1. Excused \cap OnDisk = {Task.name}
            BY <5>2 DEF Excused
          <6>2. IsFiniteSet(Leftovers)
            BY <1>t, CountedSets
          <6>3. Cardinality(Leftovers \cup {Task.name}) <= Cardinality(Leftovers) + 1
            BY <4>3, <6>2, FS_AddElement
          <6>4. Cardinality(Leftovers \cup {Task.name}) \in Nat
            BY <6>2, FS_AddElement, FS_CardinalityType
          <6> QED
            BY <1>n, <4>3, <5>2, <6>1, <6>3, <6>4
        <5> QED
          BY <5>1, <5>2
      <4>6. Cardinality(Indexed \cup (Leftovers \cup (Excused \cap OnDisk)))
                <= Cardinality(Indexed) + Cardinality(Leftovers \cup (Excused \cap OnDisk))
        <5>1. /\ IsFiniteSet(Indexed) /\ IsFiniteSet(Leftovers \cup (Excused \cap OnDisk))
          BY <4>2, NamesAssumption, FS_Subset
        <5>2. Cardinality(Indexed \cap (Leftovers \cup (Excused \cap OnDisk))) \in Nat
          BY <5>1, FS_Subset, FS_CardinalityType
        <5>3. /\ Cardinality(Indexed) \in Nat
              /\ Cardinality(Leftovers \cup (Excused \cap OnDisk)) \in Nat
          BY <5>1, FS_CardinalityType
        <5>4. Cardinality(Indexed \cup (Leftovers \cup (Excused \cap OnDisk)))
                  = Cardinality(Indexed) + Cardinality(Leftovers \cup (Excused \cap OnDisk))
                    - Cardinality(Indexed \cap (Leftovers \cup (Excused \cap OnDisk)))
          BY <5>1, FS_Union
        <5> QED
          BY <5>2, <5>3, <5>4
      <4>7. Cardinality(Taken) <= Cardinality(Indexed \cup (Leftovers \cup (Excused \cap OnDisk)))
        <5>1. Indexed \cup (Leftovers \cup (Excused \cap OnDisk)) \in SUBSET Names
          BY <4>2
        <5> QED
          BY <4>1, <5>1, FewerNames
      <4>8. /\ Cardinality(Indexed) \in Nat
            /\ Cardinality(Leftovers \cup (Excused \cap OnDisk)) \in Nat
            /\ Cardinality(Indexed \cup (Leftovers \cup (Excused \cap OnDisk))) \in Nat
        <5>1. /\ Leftovers \cup (Excused \cap OnDisk) \in SUBSET Names
              /\ Indexed \cup (Leftovers \cup (Excused \cap OnDisk)) \in SUBSET Names
          BY <4>2
        <5> QED
          BY <1>t, <4>2, <5>1, CountedSets
      <4> QED
        BY <1>n, <3>2, <4>4, <4>5, <4>6, <4>7, <4>8
    <3>4. Cardinality(Creating') <= Cardinality(Clients) - e /\ Cardinality(Creating') \in Nat
      <4>1. Creating' \in SUBSET Clients
        BY <1>n, <2>1 DEF Creating
      <4>2. CASE e = 0
        <5>1. Clients \in SUBSET Clients
          OBVIOUS
        <5> QED
          BY <1>n, <4>1, <4>2, <5>1, FewerClients
      <4>3. CASE e = 1
        <5>1. serializer.pc # "idle" /\ ~ Untouched
          <6>1. CASE serializer.pc = "count"
            BY <6>1 DEF Untouched
          <6>2. CASE Excused \cap OnDisk # {}
            <7>1. serializer.pc = "create" =>
                    \A p \in Partitions : p >= serializer.partition => Task.name \notin columnFamilies[p]
              BY <6>2 DEF Excused
            <7>2. Task.name \in OnDisk /\ serializer.pc \in {"create", "metadata", "approve", "index"}
              BY <6>2 DEF Excused
            <7>3. \A p \in Partitions : p >= 0
              BY DEF Partitions
            <7> QED
              BY <7>1, <7>2, <7>3 DEF Untouched, OnDisk
          <6> QED
            BY <4>3, <6>1, <6>2
        <5>2. Task = tasks[1] /\ 1 \in DOMAIN tasks /\ Task.client \in Clients
          <6>1. tasks # <<>> /\ Task = tasks[1] /\ 1 \in DOMAIN tasks
            BY <1>t, <5>1, QueueShape
          <6> QED
            BY <1>t, <6>1, TaskType DEF Tasks
        <5>3. Task.client \notin Creating'
          <6>1. t.client # Task.client /\ \A u \in admitted : u.client # Task.client
            BY <1>t, <2>1, <5>2 DEF InFlight, ClientsAreBusyOnce
          <6>2. \A i \in DOMAIN tasks : tasks[i].client = Task.client => i = 1
            BY <1>t, <5>2 DEF ClientsAreBusyOnce
          <6> QED
            BY <2>1, <2>2, <5>1, <6>1, <6>2 DEF Creating
        <5>4. Creating' \in SUBSET (Clients \ {Task.client}) /\ Clients \ {Task.client} \in SUBSET Clients
          BY <4>1, <5>3
        <5>5. Cardinality(Clients \ {Task.client}) = Cardinality(Clients) - 1
          BY <5>2, ClientsAssumption, FS_RemoveElement
        <5> QED
          BY <1>n, <4>3, <5>4, <5>5, FewerClients
      <4> QED
        BY <4>2, <4>3
    <3>5. Cardinality(Taken') + Cardinality(Creating') < MaxContainers + Cardinality(Clients) + failures'
      <4>1. e \in {0, 1}
        OBVIOUS
      <4> HIDE DEF e
      <4> QED
        BY <1>n, <2>1, <2>2, <3>3, <3>4, <4>1
    <3> QED
      BY <3>5 DEF GrowthIsBounded
  <2> QED
    BY <2>3, <2>4, <1>3 DEF Tasks
<1>4. ASSUME NEW t \in admitted, EnqueueRequest(t) PROVE GrowthIsBounded'
  <2>1. /\ t \in Tasks /\ admitted' = admitted \ {t}
        /\ UNCHANGED <<columnFamilies, index, serializer, failures>>
    BY <1>4, <1>t DEF EnqueueRequest, TypeOK
  <2>2. /\ DOMAIN tasks' = DOMAIN tasks \cup {Len(tasks) + 1}
        /\ tasks'[Len(tasks) + 1] = t
        /\ \A i \in DOMAIN tasks : tasks'[i] = tasks[i]
    BY <1>4, <1>t, <2>1, QueueShape DEF EnqueueRequest
  <2>3. Taken' = Taken /\ Untouched' = Untouched
    BY <2>1 DEF Taken, Indexed, OnDisk, Untouched
  <2>4. Creating' \subseteq Creating
    BY <2>1, <2>2, <2>3 DEF Creating
  <2> QED
    BY <1>g, <1>x, <2>1, <2>3, <2>4
<1>5. CASE RequestStep
  <2>1. CASE Crash
    BY <1>d, <2>1 DEF Crash
  <2>2. CASE ~ Crash
    BY <1>5, <1>3, <1>4, <1>s, <1>x, <2>2
       DEF RequestStep, AcquireContainer, ReleaseContainer, DestroyContainer
  <2> QED
    BY <2>1, <2>2
<1>6. CASE Start
  <2>1. /\ UNCHANGED <<columnFamilies, serializer, failures, admitted, tasks>>
        /\ \E a \in Addresses : \A n \in Names :
              index'[n] = IF n \in OnDisk THEN [name |-> n, address |-> a] ELSE NoContainer
    BY <1>6, <1>t, StartLoadsDisk DEF Start
  <2>2. Taken' \subseteq Taken /\ Untouched' = Untouched
    BY <2>1 DEF Taken, Indexed, OnDisk, Untouched
  <2> QED
    BY <1>i, <1>x, <2>1, <2>2
<1>7. CASE UNCHANGED vars
    BY <1>7, <1>s, <1>x DEF vars
<1> QED
    BY <1>1, <1>2, <1>5, <1>6, <1>7 DEF Next

(* The limit of containers is passed by less than the number of clients and  *)
(* of engine failures, although nobody looks at it again after the          *)
(* validation.                                                             *)
THEOREM LimitCorrect == Spec => []OvershootIsBounded
<1>1. Init => LimitInv
  <2> SUFFICES ASSUME Init PROVE LimitInv
    OBVIOUS
  <2>1. StoreInv /\ ResidueInv /\ TypeOK
    BY StoreInvInit, ResidueInit DEF StoreInv, MemoryInv, DurableInv
  <2>2. Indexed = {} /\ OnDisk = {} /\ Creating = {}
    BY DEF Init, EmptyIndex, Indexed, OnDisk, Creating
  <2>3. CounterMatchesIndex
    BY <2>2, FS_EmptySet DEF Init, CounterMatchesIndex, IdleSerializer, IdleCollector
  <2>4. LeftoversAreFailures
    <3>1. Leftovers = {}
      BY <2>2 DEF Leftovers
    <3> QED
      BY <3>1, FS_EmptySet DEF Init, LeftoversAreFailures
  <2>5. GrowthIsBounded
    <3>1. Cardinality(Clients) \in Nat /\ Cardinality(Clients) # 0
      BY ClientsAssumption, FS_CardinalityType, FS_EmptySet
    <3>2. Taken = {}
      BY <2>2 DEF Taken
    <3> QED
      BY <2>2, <3>1, <3>2, FS_EmptySet, BoundsAssumption DEF Init, GrowthIsBounded
  <2> QED
    BY <2>1, <2>3, <2>4, <2>5 DEF LimitInv
<1>2. LimitInv /\ [Next]_vars => LimitInv'
  <2> SUFFICES ASSUME LimitInv, [Next]_vars PROVE LimitInv'
    OBVIOUS
  <2>1. StoreInv'
    BY MemoryStep, RequestsMoveOn, HandlerIsKept DEF LimitInv, StoreInv, MemoryInv, DurableInv
  <2>2. ResidueInv'
    BY ResidueStep DEF LimitInv
  <2>3. CounterMatchesIndex'
    BY CounterStep DEF LimitInv, StoreInv, MemoryInv
  <2>4. TypeOK'
    BY <2>1 DEF StoreInv, MemoryInv, DurableInv
  <2>5. LeftoversAreFailures' /\ GrowthIsBounded'
    BY <2>4, LeftoversStep, GrowthStep DEF LimitInv
  <2> QED
    BY <2>1, <2>2, <2>3, <2>5 DEF LimitInv
<1>3. LimitInv => OvershootIsBounded
  <2> SUFFICES ASSUME LimitInv PROVE OvershootIsBounded
    OBVIOUS
  <2>1. TypeOK
    BY DEF LimitInv, StoreInv, MemoryInv, DurableInv
  <2>2. Cardinality(Indexed) <= Cardinality(Taken)
    BY <2>1, CountedSets, FewerNames DEF Taken
  <2>3. /\ Cardinality(Indexed) \in Nat /\ Cardinality(Taken) \in Nat /\ Cardinality(Creating) \in Nat
        /\ Cardinality(Clients) \in Nat /\ failures \in Nat /\ MaxContainers \in Nat
    BY <2>1, CountedSets, ClientsAssumption, FS_CardinalityType, BoundsAssumption
  <2> QED
    BY <2>2, <2>3 DEF LimitInv, GrowthIsBounded, OvershootIsBounded
<1> QED
    BY <1>1, <1>2, <1>3, PTL DEF Spec
===============================================================================
