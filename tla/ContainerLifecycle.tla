-------------------------- MODULE ContainerLifecycle --------------------------
(***************************************************************************)
(* The life of an object container: requests admitted on the HTTP threads, *)
(* the single thread of container_operation_serializer that creates and    *)
(* removes containers, the garbage collector thread that drops the removed *)
(* ones, the shared_ptr references of object requests in flight, and the   *)
(* crash of the process with the start-up that rebuilds the index from the *)
(* disk.                                                                   *)
(*                                                                         *)
(* A container named n is a column family called n in the RocksDB of every *)
(* data partition plus one key of the metadata partition.  In memory it is *)
(* an object of class container that owns one column family handle per     *)
(* partition.  An object is identified by its name and the address it was  *)
(* allocated at, so that two containers of one name are told apart; an     *)
(* address is free again once the object is destroyed.                     *)
(*                                                                         *)
(* The internal containers (default, metadata_default, metadata_containers) *)
(* are never touched by these actions and are left out; MaxContainers is   *)
(* what max_number_containers_ leaves for the others.                      *)
(***************************************************************************)
EXTENDS Integers, Sequences, FiniteSets

CONSTANTS
    Names,          \* container names clients use
    Addresses,      \* heap addresses for objects of one name (a bound)
    NumPartitions,  \* k_number_collocations
    NumBuckets,     \* number_container_buckets_ of the index
    BucketOf,       \* the hash of a name, modulo NumBuckets
    MaxContainers,  \* max_number_containers_
    Clients,        \* container requests in flight at once (a bound)
    Users,          \* object requests in flight at once (a bound)
    MaxFailures,    \* storage engine errors in a behaviour (a bound)
    MaxCrashes,     \* crashes from outside in a behaviour (a bound)
    NoContainer     \* the null shared_ptr

Partitions == 0 .. NumPartitions - 1
Buckets == 0 .. NumBuckets - 1
Objects == [name : Names, address : Addresses]
Tasks == [client : Clients, optype : {"create", "remove"}, name : Names]

ASSUME NumPartitionsAssumption == NumPartitions \in Nat \ {0}
ASSUME NumBucketsAssumption == NumBuckets \in Nat \ {0}
ASSUME BucketOfAssumption == BucketOf \in [Names -> Buckets]
ASSUME NamesAssumption == IsFiniteSet(Names)
ASSUME ClientsAssumption == IsFiniteSet(Clients) /\ Clients # {}
ASSUME BoundsAssumption == MaxContainers \in Nat /\ MaxFailures \in Nat /\ MaxCrashes \in Nat
ASSUME NoContainerAssumption == NoContainer \notin Objects

VARIABLES
    phase,             \* the process: "up", "down" or "halted" by a failed start-up
    columnFamilies,    \* disk: names with a column family, per data partition
    metadata,          \* disk: keys of the container metadata column family
    handles,           \* column family handles of an object, per partition
    approved,          \* approved_references_ of the engines
    objects,           \* container objects: unallocated, active or deleted
    index,             \* container_index: the object indexed under a name
    numberContainers,  \* number_containers_
    admitted,          \* validated requests, not yet enqueued
    tasks,             \* queue of the serializer, its head in execution
    serializer,        \* program counter and locals of the serializer thread
    gc,                \* program counter and locals of the collector thread
    held,              \* the shared_ptr an object request holds
    failures, crashes

disk == <<columnFamilies, metadata>>
refs == <<handles, approved>>
table == <<objects, index>>
requests == <<admitted, tasks>>
bounds == <<failures, crashes>>
vars == <<phase, disk, refs, table, numberContainers, requests, serializer, gc, held, bounds>>

Statuses == {"success", "container_not_exists", "container_already_exists",
             "container_in_deletion_process", "container_creation_failed",
             "object_insertion_failed", "object_deletion_failed",
             "container_insertion_collision"}
CreationCounters == {"create", "metadata", "approve", "index", "count"}
SerializerStates ==
    [pc : CreationCounters, container : Objects,
     partition : Partitions, status : Statuses] \cup
    [pc : {"idle", "unlink", "mark", "respond"}, container : {NoContainer},
     partition : {0}, status : Statuses]
CollectorStates ==
    [pc : {"drop", "erase", "uncount"}, container : Objects, partition : Partitions,
     bucket : Buckets, held : SUBSET Objects, todo : SUBSET Objects] \cup
    [pc : {"bucket", "scan"}, container : {NoContainer}, partition : Partitions,
     bucket : Buckets, held : SUBSET Objects, todo : SUBSET Objects]
IdleSerializer == [pc |-> "idle", container |-> NoContainer, partition |-> 0,
                   status |-> "success"]
IdleCollector == [pc |-> "bucket", bucket |-> 0, held |-> {}, todo |-> {},
                  container |-> NoContainer, partition |-> 0]

(* Every variable keeps its type. *)
TypeOK ==
    /\ phase \in {"up", "down", "halted"}
    /\ columnFamilies \in [Partitions -> SUBSET Names]
    /\ metadata \in SUBSET Names
    /\ handles \in [Objects -> [Partitions -> {"none", "open", "dropped"}]]
    /\ approved \in SUBSET (Objects \X Partitions)
    /\ objects \in [Objects -> {"unallocated", "active", "deleted"}]
    /\ index \in [Names -> Objects \cup {NoContainer}]
    /\ numberContainers \in Int
    /\ admitted \in SUBSET Tasks
    /\ tasks \in Seq(Tasks)
    /\ serializer \in SerializerStates
    /\ serializer.pc # "idle" => tasks # <<>>
    /\ gc \in CollectorStates
    /\ held \in [Users -> Objects \cup {NoContainer}]
    /\ failures \in 0 .. MaxFailures
    /\ crashes \in 0 .. MaxCrashes

(* What the process starts with and loses when it dies. *)
NoHandles == [o \in Objects |-> [p \in Partitions |-> "none"]]
NoObjects == [o \in Objects |-> "unallocated"]
EmptyIndex == [n \in Names |-> NoContainer]
NothingHeld == [u \in Users |-> NoContainer]

Init ==
    /\ phase = "up"
    /\ columnFamilies = [p \in Partitions |-> {}]
    /\ metadata = {}
    /\ handles = NoHandles /\ approved = {}
    /\ objects = NoObjects /\ index = EmptyIndex /\ numberContainers = 0
    /\ admitted = {} /\ tasks = <<>>
    /\ serializer = IdleSerializer /\ gc = IdleCollector
    /\ held = NothingHeld
    /\ failures = 0
    /\ crashes = 0

-------------------------------------------------------------------------------
(* Mutant: a container that waits for the collector no longer exists. *)
ExistenceStatusForgetsDeleted(n) ==
    IF index[n] = NoContainer \/ objects[index[n]] = "deleted" THEN "container_not_exists"
    ELSE "container_already_exists"

(* container_index::get_container_existence_status. *)
ExistenceStatus(n) ==
    IF index[n] = NoContainer THEN "container_not_exists"
    ELSE IF objects[index[n]] = "deleted" THEN "container_in_deletion_process"
    ELSE "container_already_exists"

(* An operation of a storage engine returns an error. *)
EngineFails ==
    /\ failures < MaxFailures
    /\ failures' = failures + 1
    /\ UNCHANGED crashes

-------------------------------------------------------------------------------
(* HTTP threads.  A request that fails its validation is answered at once  *)
(* and leaves no trace.                                                    *)

InFlight(c) ==
    \/ \E t \in admitted : t.client = c
    \/ \E i \in DOMAIN tasks : tasks[i].client = c

(* Mutant: the limit is compared with <=. *)
ValidateRequestAtLimit(t) ==
    /\ ~ InFlight(t.client)
    /\ IF t.optype = "create"
       THEN ExistenceStatus(t.name) = "container_not_exists" /\ numberContainers <= MaxContainers
       ELSE ExistenceStatus(t.name) = "container_already_exists"
    /\ admitted' = admitted \cup {t}
    /\ UNCHANGED <<phase, disk, refs, table, numberContainers, tasks, serializer, gc, held, bounds>>

ValidateRequest(t) ==
    /\ ~ InFlight(t.client)
    /\ \/ /\ t.optype = "create"
          /\ ExistenceStatus(t.name) = "container_not_exists"
          /\ numberContainers < MaxContainers
       \/ /\ t.optype = "remove"
          /\ ExistenceStatus(t.name) = "container_already_exists"
    /\ admitted' = admitted \cup {t}
    /\ UNCHANGED <<phase, disk, refs, table, numberContainers, tasks, serializer, gc, held, bounds>>

EnqueueRequest(t) ==
    /\ t \in admitted
    /\ admitted' = admitted \ {t}
    /\ tasks' = Append(tasks, t)
    /\ UNCHANGED <<phase, disk, refs, table, numberContainers, serializer, gc, held, bounds>>

-------------------------------------------------------------------------------
(* The serializer thread, one task at a time. *)

Task == Head(tasks)
Serving(optype) == tasks # <<>> /\ Task.optype = optype
Respond(status) ==
    serializer' = [pc |-> "respond", container |-> NoContainer, partition |-> 0, status |-> status]

BeginCreation ==
    /\ serializer.pc = "idle" /\ Serving("create")
    /\ \/ /\ ExistenceStatus(Task.name) = "container_not_exists"
          /\ \E a \in Addresses :
                LET o == [name |-> Task.name, address |-> a] IN
                /\ objects[o] = "unallocated"
                /\ \A p \in Partitions : handles[o][p] = "none"
                /\ serializer' = [serializer EXCEPT !.pc = "create", !.container = o]
       \/ /\ ExistenceStatus(Task.name) # "container_not_exists"
          /\ Respond(ExistenceStatus(Task.name))
    /\ UNCHANGED <<phase, disk, refs, table, numberContainers, requests, gc, held, bounds>>

(* Mutant: the loop over the partitions runs once too often. *)
CreateInstancePastTheEnd ==
    LET o == serializer.container
        p == serializer.partition
    IN
    /\ serializer.pc = "create"
    /\ o.name \notin columnFamilies[p]
    /\ columnFamilies' = [columnFamilies EXCEPT ![p] = @ \cup {o.name}]
    /\ handles' = [handles EXCEPT ![o][p] = "open"]
    /\ serializer' = [serializer EXCEPT !.partition = p + 1]
    /\ UNCHANGED <<phase, metadata, approved, table, numberContainers, requests, gc, held, bounds>>

(* CreateColumnFamily on one partition; partitions are visited in order. *)
CreateInstance ==
    LET o == serializer.container
        p == serializer.partition
    IN
    /\ serializer.pc = "create"
    /\ o.name \notin columnFamilies[p]
    /\ columnFamilies' = [columnFamilies EXCEPT ![p] = @ \cup {o.name}]
    /\ handles' = [handles EXCEPT ![o][p] = "open"]
    /\ serializer' = IF p + 1 \in Partitions
                     THEN [serializer EXCEPT !.partition = p + 1]
                     ELSE [serializer EXCEPT !.pc = "metadata", !.partition = 0]
    /\ UNCHANGED <<phase, metadata, approved, table, numberContainers, requests, gc, held, bounds>>

(* Mutant: the status of the creation is not looked at. *)
FailCreateInstanceIgnored ==
    /\ serializer.pc = "create"
    /\ \/ /\ serializer.container.name \in columnFamilies[serializer.partition]
          /\ UNCHANGED bounds
       \/ EngineFails
    /\ serializer' = [serializer EXCEPT !.pc = "metadata", !.partition = 0]
    /\ UNCHANGED <<phase, disk, refs, table, numberContainers, requests, gc, held>>

(* The name already has a column family, or the engine fails.  Nothing is   *)
(* rolled back: column families stay, and so do their handles.             *)
FailCreateInstance ==
    /\ serializer.pc = "create"
    /\ \/ /\ serializer.container.name \in columnFamilies[serializer.partition]
          /\ UNCHANGED bounds
       \/ EngineFails
    /\ Respond("container_creation_failed")
    /\ UNCHANGED <<phase, disk, refs, table, numberContainers, requests, gc, held>>

(* Mutant: a metadata insertion that failed is answered with success. *)
PutMetadataAnswersSuccess ==
    /\ serializer.pc = "metadata"
    /\ \/ /\ metadata' = metadata \cup {Task.name}
          /\ serializer' = [serializer EXCEPT !.pc = "approve"]
          /\ UNCHANGED bounds
       \/ /\ EngineFails
          /\ Respond("success")
          /\ UNCHANGED metadata
    /\ UNCHANGED <<phase, columnFamilies, refs, table, numberContainers, requests, gc, held>>

PutMetadata ==
    /\ serializer.pc = "metadata"
    /\ \/ /\ metadata' = metadata \cup {Task.name}
          /\ serializer' = [serializer EXCEPT !.pc = "approve"]
          /\ UNCHANGED bounds
       \/ /\ EngineFails
          /\ Respond("object_insertion_failed")
          /\ UNCHANGED metadata
    /\ UNCHANGED <<phase, columnFamilies, refs, table, numberContainers, requests, gc, held>>

ApproveReferences ==
    /\ serializer.pc = "approve"
    /\ approved' = approved \cup ({serializer.container} \X Partitions)
    /\ serializer' = [serializer EXCEPT !.pc = "index"]
    /\ UNCHANGED <<phase, disk, handles, table, numberContainers, requests, gc, held, bounds>>

InsertIntoIndex ==
    LET o == serializer.container IN
    /\ serializer.pc = "index"
    /\ IF index[o.name] = NoContainer
       THEN /\ objects' = [objects EXCEPT ![o] = "active"]
            /\ index' = [index EXCEPT ![o.name] = o]
            /\ serializer' = [serializer EXCEPT !.pc = "count"]
       ELSE /\ Respond("container_insertion_collision")
            /\ UNCHANGED table
    /\ UNCHANGED <<phase, disk, refs, numberContainers, requests, gc, held, bounds>>

CountContainer ==
    /\ serializer.pc = "count"
    /\ numberContainers' = numberContainers + 1
    /\ Respond("success")
    /\ UNCHANGED <<phase, disk, refs, table, requests, gc, held, bounds>>

(* Mutant: a removal that finds its container gone is never answered. *)
BeginRemovalUnanswered ==
    /\ serializer.pc = "idle" /\ Serving("remove")
    /\ ExistenceStatus(Task.name) = "container_already_exists"
    /\ serializer' = [serializer EXCEPT !.pc = "unlink"]
    /\ UNCHANGED <<phase, disk, refs, table, numberContainers, requests, gc, held, bounds>>

BeginRemoval ==
    /\ serializer.pc = "idle" /\ Serving("remove")
    /\ \/ /\ ExistenceStatus(Task.name) = "container_already_exists"
          /\ serializer' = [serializer EXCEPT !.pc = "unlink"]
       \/ /\ ExistenceStatus(Task.name) # "container_already_exists"
          /\ Respond("container_not_exists")
    /\ UNCHANGED <<phase, disk, refs, table, numberContainers, requests, gc, held, bounds>>

(* Mutant: the status of the deletion is not looked at. *)
DeleteMetadataIgnoresError ==
    /\ serializer.pc = "unlink"
    /\ \/ metadata' = metadata \ {Task.name} /\ UNCHANGED bounds
       \/ EngineFails /\ UNCHANGED metadata
    /\ serializer' = [serializer EXCEPT !.pc = "mark"]
    /\ UNCHANGED <<phase, columnFamilies, refs, table, numberContainers, requests, gc, held>>

DeleteMetadata ==
    /\ serializer.pc = "unlink"
    /\ \/ /\ metadata' = metadata \ {Task.name}
          /\ serializer' = [serializer EXCEPT !.pc = "mark"]
          /\ UNCHANGED bounds
       \/ /\ EngineFails
          /\ Respond("object_deletion_failed")
          /\ UNCHANGED metadata
    /\ UNCHANGED <<phase, columnFamilies, refs, table, numberContainers, requests, gc, held>>

(* Mutant: the removal stops at the metadata. *)
MarkAsDeletedForgotten ==
    /\ serializer.pc = "mark"
    /\ Respond("success")
    /\ UNCHANGED <<phase, disk, refs, table, numberContainers, requests, gc, held, bounds>>

MarkAsDeleted ==
    /\ serializer.pc = "mark"
    /\ IF index[Task.name] = NoContainer
       THEN /\ Respond("container_not_exists")
            /\ UNCHANGED objects
       ELSE /\ Respond("success")
            /\ objects' = [objects EXCEPT ![index[Task.name]] = "deleted"]
    /\ UNCHANGED <<phase, disk, refs, index, numberContainers, requests, gc, held, bounds>>

SendResponse ==
    /\ serializer.pc = "respond"
    /\ tasks' = Tail(tasks)
    /\ serializer' = IdleSerializer
    /\ UNCHANGED <<phase, disk, refs, table, numberContainers, admitted, gc, held, bounds>>

-------------------------------------------------------------------------------
(* The garbage collector thread.  The sleep between two iterations is the  *)
(* time it may spend before it takes the snapshot of the next bucket.      *)

GCSnapshotBucket ==
    LET found == {index[n] : n \in {m \in Names : BucketOf[m] = gc.bucket
                                                  /\ index[m] # NoContainer}}
    IN
    /\ gc.pc = "bucket"
    /\ gc' = [gc EXCEPT !.pc = "scan", !.held = found, !.todo = found]
    /\ UNCHANGED <<phase, disk, refs, table, numberContainers, requests, serializer, held, bounds>>

GCInspect(o) ==
    /\ gc.pc = "scan" /\ o \in gc.todo
    /\ gc' = IF objects[o] = "deleted"
             THEN [gc EXCEPT !.pc = "drop", !.todo = @ \ {o}, !.container = o]
             ELSE [gc EXCEPT !.todo = @ \ {o}]
    /\ UNCHANGED <<phase, disk, refs, table, numberContainers, requests, serializer, held, bounds>>

(* Mutant: the collector is content with the first partition. *)
GCDropFirstInstance ==
    LET o == gc.container
        p == gc.partition
    IN
    /\ gc.pc = "drop"
    /\ handles[o][p] = "open" /\ <<o, p>> \in approved
    /\ columnFamilies' = [columnFamilies EXCEPT ![p] = @ \ {o.name}]
    /\ handles' = [handles EXCEPT ![o][p] = "dropped"]
    /\ gc' = [gc EXCEPT !.pc = "erase", !.partition = 0]
    /\ UNCHANGED <<phase, metadata, approved, table, numberContainers, requests, serializer, held, bounds>>

(* storage_engine::remove_container on one partition; in partition order. *)
GCDropInstance ==
    LET o == gc.container
        p == gc.partition
    IN
    /\ gc.pc = "drop"
    /\ handles[o][p] = "open" /\ <<o, p>> \in approved
    /\ columnFamilies' = [columnFamilies EXCEPT ![p] = @ \ {o.name}]
    /\ handles' = [handles EXCEPT ![o][p] = "dropped"]
    /\ gc' = IF p + 1 \in Partitions
             THEN [gc EXCEPT !.partition = p + 1]
             ELSE [gc EXCEPT !.pc = "erase", !.partition = 0]
    /\ UNCHANGED <<phase, metadata, approved, table, numberContainers, requests, serializer, held, bounds>>

(* The fence refuses, the family was dropped before, or the engine fails:  *)
(* the entry is skipped and tried again from the first partition in the    *)
(* next iteration.                                                         *)
GCFailDrop ==
    LET o == gc.container
        p == gc.partition
    IN
    /\ gc.pc = "drop"
    /\ handles[o][p] # "none"
    /\ \/ (handles[o][p] = "dropped" \/ <<o, p>> \notin approved) /\ UNCHANGED bounds
       \/ EngineFails
    /\ gc' = [gc EXCEPT !.pc = "scan", !.container = NoContainer, !.partition = 0]
    /\ UNCHANGED <<phase, disk, refs, table, numberContainers, requests, serializer, held>>

(* Mutant: an erasure leaves the counter alone. *)
GCEraseUncounted ==
    /\ gc.pc = "erase"
    /\ index' = [index EXCEPT ![gc.container.name] = NoContainer]
    /\ gc' = [gc EXCEPT !.pc = "scan", !.container = NoContainer]
    /\ UNCHANGED <<phase, disk, refs, objects, numberContainers, requests, serializer, held, bounds>>

(* Mutant: the erased name stays in its bucket. *)
GCEraseNothing ==
    /\ gc.pc = "erase"
    /\ gc' = [gc EXCEPT !.pc = "uncount"]
    /\ UNCHANGED <<phase, disk, refs, table, numberContainers, requests, serializer, held, bounds>>

GCEraseFromIndex ==
    LET n == gc.container.name IN
    /\ gc.pc = "erase"
    /\ IF index[n] = NoContainer
       THEN /\ gc' = [gc EXCEPT !.pc = "scan", !.container = NoContainer]
            /\ UNCHANGED index
       ELSE /\ gc' = [gc EXCEPT !.pc = "uncount"]
            /\ index' = [index EXCEPT ![n] = NoContainer]
    /\ UNCHANGED <<phase, disk, refs, objects, numberContainers, requests, serializer, held, bounds>>

GCUncount ==
    /\ gc.pc = "uncount"
    /\ numberContainers' = numberContainers - 1
    /\ gc' = [gc EXCEPT !.pc = "scan", !.container = NoContainer]
    /\ UNCHANGED <<phase, disk, refs, table, requests, serializer, held, bounds>>

(* Mutant: the bucket does not advance. *)
GCFinishSameBucket ==
    /\ gc.pc = "scan" /\ gc.todo = {}
    /\ gc' = [IdleCollector EXCEPT !.bucket = gc.bucket]
    /\ UNCHANGED <<phase, disk, refs, table, numberContainers, requests, serializer, held, bounds>>

GCFinishBucket ==
    /\ gc.pc = "scan" /\ gc.todo = {}
    /\ gc' = [IdleCollector EXCEPT !.bucket = (gc.bucket + 1) % NumBuckets]
    /\ UNCHANGED <<phase, disk, refs, table, numberContainers, requests, serializer, held, bounds>>

-------------------------------------------------------------------------------
(* Object requests in flight, and the destructor of a container, which     *)
(* runs on the thread that drops the last reference.                       *)

AcquireContainer(u, n) ==
    /\ held[u] = NoContainer
    /\ ExistenceStatus(n) = "container_already_exists"
    /\ held' = [held EXCEPT ![u] = index[n]]
    /\ UNCHANGED <<phase, disk, refs, table, numberContainers, requests, serializer, gc, bounds>>

ReleaseContainer(u) ==
    /\ held[u] # NoContainer
    /\ held' = [held EXCEPT ![u] = NoContainer]
    /\ UNCHANGED <<phase, disk, refs, table, numberContainers, requests, serializer, gc, bounds>>

(* Mutant: a request uses the container without a reference of its own. *)
ReferencedByServer(o) == index[o.name] = o \/ o \in gc.held

Referenced(o) ==
    \/ index[o.name] = o
    \/ o \in gc.held
    \/ \E u \in Users : held[u] = o

(* Mutant: the destructor closes nothing. *)
DestroyContainerLeaks(o) ==
    /\ objects[o] # "unallocated"
    /\ ~ Referenced(o)
    /\ objects' = [objects EXCEPT ![o] = "unallocated"]
    /\ UNCHANGED <<phase, disk, refs, index, numberContainers, requests, serializer, gc, held, bounds>>

(* Closing a reference frees its handle, unless the fence refuses it. *)
Closed(o) == [p \in Partitions |-> IF <<o, p>> \in approved THEN "none" ELSE handles[o][p]]

(* A reference that is null is passed over, one the fence refuses leaks. *)
DestroyContainer(o) ==
    /\ objects[o] # "unallocated"
    /\ ~ Referenced(o)
    /\ objects' = [objects EXCEPT ![o] = "unallocated"]
    /\ handles' = [handles EXCEPT ![o] = Closed(o)]
    /\ approved' = approved \ ({o} \X Partitions)
    /\ UNCHANGED <<phase, disk, index, numberContainers, requests, serializer, gc, held, bounds>>

-------------------------------------------------------------------------------
(* The process dies and starts again. *)

ProcessDies ==
    /\ phase' = "down"
    /\ handles' = NoHandles /\ approved' = {}
    /\ objects' = NoObjects /\ index' = EmptyIndex /\ numberContainers' = 0
    /\ admitted' = {} /\ tasks' = <<>>
    /\ serializer' = IdleSerializer /\ gc' = IdleCollector
    /\ held' = NothingHeld
    /\ UNCHANGED disk

Crash ==
    /\ crashes < MaxCrashes
    /\ crashes' = crashes + 1
    /\ ProcessDies
    /\ UNCHANGED failures

(* The fence rejects a null reference, and the log call of that branch      *)
(* reads the identifier of the column family through it.                   *)
GCNullReference ==
    /\ gc.pc = "drop"
    /\ handles[gc.container][gc.partition] = "none"
    /\ ProcessDies
    /\ UNCHANGED bounds

OnDisk == UNION {columnFamilies[p] : p \in Partitions}
Orphans == OnDisk \ metadata
Complete(n) == \A p \in Partitions : n \in columnFamilies[p]

(* Mutant: orphans are not loaded. *)
LoadedFromMetadata(a) == [n \in metadata |-> [name |-> n, address |-> a]]

(* The index a start-up loads, and the references its partitions open. *)
Loaded(a) == [n \in metadata \cup Orphans |-> [name |-> n, address |-> a]]
Opened(a) == {s \in Objects \X Partitions : s[1].address = a /\ s[1].name \in columnFamilies[s[2]]}

(* Every container of the metadata needs its column family everywhere, or  *)
(* start-up stops.  Families the metadata does not know are orphans, and   *)
(* are indexed as deleted with a null reference where they are missing.    *)
Start ==
    /\ phase = "down"
    /\ IF \A n \in metadata : Complete(n)
       THEN \E a \in Addresses :
            /\ phase' = "up"
            /\ index' = [n \in Names |-> IF n \in DOMAIN Loaded(a) THEN Loaded(a)[n] ELSE NoContainer]
            /\ objects' = [o \in Objects |->
                    IF o.name \notin DOMAIN Loaded(a) \/ o.address # a THEN "unallocated"
                    ELSE IF o.name \in metadata THEN "active" ELSE "deleted"]
            /\ handles' = [o \in Objects |-> [p \in Partitions |->
                    IF <<o, p>> \in Opened(a) THEN "open" ELSE "none"]]
            /\ approved' = Opened(a)
            /\ numberContainers' = Cardinality(DOMAIN Loaded(a))
       ELSE /\ phase' = "halted"
            /\ UNCHANGED <<refs, table, numberContainers>>
    /\ UNCHANGED <<disk, requests, serializer, gc, held, bounds>>

-------------------------------------------------------------------------------
SerializerStep ==
    /\ phase = "up"
    /\ \/ BeginCreation \/ CreateInstance \/ FailCreateInstance \/ PutMetadata
       \/ ApproveReferences \/ InsertIntoIndex \/ CountContainer
       \/ BeginRemoval \/ DeleteMetadata \/ MarkAsDeleted
       \/ SendResponse

CollectorStep ==
    /\ phase = "up"
    /\ \/ GCSnapshotBucket \/ GCDropInstance \/ GCFailDrop \/ GCNullReference
       \/ GCEraseFromIndex \/ GCUncount \/ GCFinishBucket
       \/ \E o \in Objects : GCInspect(o)

RequestStep ==
    /\ phase = "up"
    /\ \/ \E t \in Tasks : ValidateRequest(t)
       \/ \E t \in admitted : EnqueueRequest(t)
       \/ \E u \in Users, n \in Names : AcquireContainer(u, n)
       \/ \E u \in Users : ReleaseContainer(u)
       \/ \E o \in Objects : DestroyContainer(o)
       \/ Crash

Next == SerializerStep \/ CollectorStep \/ RequestStep \/ Start

Spec == Init /\ [][Next]_vars

(* Both threads keep running while the process is up; a validated request   *)
(* is enqueued by the call that follows; an object request ends; whoever   *)
(* drops the last reference runs the destructor; a dead process is started. *)
Fairness ==
    /\ WF_vars(SerializerStep)
    /\ WF_vars(CollectorStep)
    /\ WF_vars(Start)
    /\ \A t \in Tasks : WF_vars(phase = "up" /\ EnqueueRequest(t))
    /\ \A u \in Users : WF_vars(phase = "up" /\ ReleaseContainer(u))
    /\ \A o \in Objects : WF_vars(phase = "up" /\ DestroyContainer(o))

FairSpec == Spec /\ Fairness

-------------------------------------------------------------------------------
(* Safety. *)

Indexed == {n \in Names : index[n] # NoContainer}
Active(n) == index[n] # NoContainer /\ objects[index[n]] = "active"

(* The serializer thread works on name n, at one of these program counters. *)
At(n, counters) ==
    /\ serializer.pc \in counters
    /\ Task.name = n

(* A name enters the metadata when its column family exists on every       *)
(* partition and leaves it before the first of them is dropped, so that    *)
(* the integrity validation of a start-up never stops the data store, at   *)
(* whatever step the process died.                                         *)
WellDefinedTransaction ==
    /\ phase # "halted"
    /\ \A n \in metadata, p \in Partitions : n \in columnFamilies[p]

(* While the process is up the index serves exactly the containers of the   *)
(* metadata, except between the two steps the serializer thread needs to   *)
(* change both.                                                            *)
IndexAgreesWithMetadata ==
    phase = "up" => \A n \in Names :
        Active(n) <=> \/ n \in metadata /\ ~ At(n, {"approve", "index"})
                      \/ At(n, {"mark"})

(* An active container has an approved, open reference on every partition,  *)
(* and whoever still holds a container that has been removed has approved  *)
(* references: no request that got past the check of its container meets a *)
(* fence that refuses or a handle that was closed under it.                *)
HeldReferencesAreFenced ==
    /\ \A n \in Names, p \in Partitions :
          Active(n) => /\ handles[index[n]][p] = "open"
                       /\ <<index[n], p>> \in approved
    /\ \A u \in Users, p \in Partitions :
          held[u] # NoContainer => /\ handles[held[u]][p] # "none"
                                   /\ <<held[u], p>> \in approved

(* The object whose column families the collector drops is the one indexed  *)
(* under the name it then erases, it is marked as deleted, and nobody has  *)
(* committed a container of that name since.                               *)
CollectorErasesWhatItDropped ==
    gc.pc \in {"drop", "erase"} =>
        /\ index[gc.container.name] = gc.container
        /\ objects[gc.container] = "deleted"
        /\ gc.container.name \notin metadata

(* What the engine gets to drop is an open column family whose reference    *)
(* is approved.  A null reference is only ever met after a crash, and a     *)
(* family that is dropped already only after a failure of the engine: as    *)
(* long as neither happens no drop is refused.                             *)
DropsAreAccepted ==
    gc.pc = "drop" =>
        \/ /\ handles[gc.container][gc.partition] = "open"
           /\ <<gc.container, gc.partition>> \in approved
        \/ handles[gc.container][gc.partition] = "none" /\ crashes > 0
        \/ handles[gc.container][gc.partition] = "dropped" /\ failures > 0

(* A name the index does not know has no column family left on any         *)
(* partition, so that it can be created: only a creation in progress or a  *)
(* storage engine failure leaves one.                                      *)
FreedNameHasNoResidue ==
    phase = "up" => \A n \in Names \ Indexed : \A p \in Partitions :
        n \in columnFamilies[p] =>
            failures > 0 \/ At(n, {"create", "metadata", "approve", "index"})

(* Every open handle belongs to a container object or to the creation in   *)
(* progress: only a creation the storage engine failed leaks handles.      *)
HandlesAreOwned ==
    \A o \in Objects, p \in Partitions :
        handles[o][p] # "none" =>
            objects[o] # "unallocated" \/ serializer.container = o \/ failures > 0

(* number_containers_ is the size of the index but for the step between an *)
(* insertion or an erasure and the update of the counter.                  *)
CounterMatchesIndex ==
    numberContainers =
        Cardinality(Indexed) - (IF serializer.pc = "count" THEN 1 ELSE 0)
                             + (IF gc.pc = "uncount" THEN 1 ELSE 0)

(* storage_configuration.hh:93 has the "max number of object containers to  *)
(* be present".  The limit is read by the HTTP threads and not by the       *)
(* serializer, so it can be passed, but by less than the number of requests *)
(* in flight, and by the families failed creations left, which a start-up  *)
(* counts.                                                                 *)
OvershootIsBounded ==
    Cardinality(Indexed) < MaxContainers + Cardinality(Clients) + failures

-------------------------------------------------------------------------------
(* The abstract specification. *)

Outcome ==
    IF serializer.pc \in {"approve", "index", "count", "mark"}
    THEN {[task |-> Task, success |-> TRUE]}
    ELSE IF serializer.pc = "respond"
    THEN {[task |-> Task, success |-> serializer.status = "success"]}
    ELSE {}

Unserved == {tasks[i] : i \in {j \in DOMAIN tasks : j > 1 \/ Outcome = {}}}

Store == INSTANCE ContainerStore WITH
    containers <- metadata,
    pending <- admitted \cup Unserved,
    decided <- Outcome

(* Container requests are linearizable and durable: they take effect when   *)
(* the metadata changes, a success is answered to exactly those that did,  *)
(* and a crash undoes none.                                                *)
ImplementsStore == Store!Spec

(* A process that is down serves what its next start-up will load. *)
StateOf(n) ==
    IF phase = "up"
    THEN IF index[n] = NoContainer THEN "absent" ELSE objects[index[n]]
    ELSE IF n \in metadata THEN "active" ELSE IF n \in OnDisk THEN "deleted" ELSE "absent"
NameStates == [n \in Names |-> StateOf(n)]

Name == INSTANCE ContainerNames WITH states <- NameStates

(* What is served under a name goes through creation, removal and           *)
(* collection in this order, whatever step of the serializer or of the     *)
(* collector a crash falls into: a removed container never comes back, and *)
(* a served one goes only by its removal.                                  *)
ImplementsNames == Name!Spec

-------------------------------------------------------------------------------
(* Liveness. *)

(* A request that passed its validation is answered, also when the storage *)
(* engine fails under it, unless the process dies first.                   *)
RequestsAreAnswered ==
    \A c \in Clients : InFlight(c) ~> ~ InFlight(c)

(* garbage_collector.cc:101: "any object containers not known to the       *)
(* metadata need to be cleaned up from the filesystem".                    *)
OrphansAreReclaimed ==
    \A n \in Names : (n \in OnDisk /\ n \notin metadata)
                        ~> (n \notin OnDisk \/ n \in metadata)

(* container_operation_serializer.cc:248: a removed container will "be      *)
(* cleaned up by the garbage collector", while the process stays up.       *)
RemovedContainersAreReclaimed ==
    \A n \in Names : (n \in Indexed /\ ~ Active(n)) ~> n \notin Indexed

Faulted == failures > 0 \/ crashes > 0

(* In a run of the system without faults the collector drops whatever a     *)
(* removal left on the disk, in whichever bucket the index keeps the name. *)
RemovalsReachTheDisk ==
    \A n \in Names : (n \in OnDisk /\ n \notin metadata /\ ~ Faulted)
                        ~> (n \notin OnDisk \/ n \in metadata \/ Faulted)

(* ... and the handles of a removed container are closed once its last user *)
(* is done.                                                                *)
HandlesAreClosed ==
    \A o \in Objects : (objects[o] = "deleted" /\ ~ Faulted)
                        ~> (Faulted \/ \A p \in Partitions : handles[o][p] = "none")

(* What a crash leaves of a creation is a prefix of the partitions; once no *)
(* more crash and no more engine failure comes, the collector drops it,    *)
(* even if it then dies of the null reference that follows the prefix, and *)
(* the name can be created again.                                          *)
CrashedCreationsAreReclaimed ==
    \A n \in Names :
        (/\ phase = "down" /\ crashes = MaxCrashes /\ failures = MaxFailures
         /\ n \notin metadata /\ n \in columnFamilies[0])
            ~> (n \notin OnDisk \/ n \in metadata)
===============================================================================
