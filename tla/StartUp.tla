------------------------------- MODULE StartUp -------------------------------
(***************************************************************************)
(* The start-up of the data store: the partitions are booted one by one,   *)
(* the metadata partition gets its internal container on the first start,  *)
(* and the loader rebuilds the container index from what is on the disk.   *)
(* What is on the disk was left by earlier sessions, so the operations of  *)
(* a running session are here too, each as one step that may stop between  *)
(* any two of its writes, by an engine error or by a crash; their          *)
(* interleavings are the subject of ContainerLifecycle.                    *)
(*                                                                         *)
(* Besides the containers of clients the index holds three internal ones:  *)
(* "default", RocksDB's own family on every structured partition,          *)
(* "metadata_default", the same family on the metadata partition, and      *)
(* "metadata_containers", whose keys are the names of all containers.      *)
(* Requests may name any of them.                                          *)
(***************************************************************************)
EXTENDS Integers, FiniteSets

CONSTANTS
    Containers,          \* container names clients choose
    Default,             \* rocksdb::kDefaultColumnFamilyName
    MetadataDefault,     \* k_default_container_name_metadata_partition
    MetadataContainers,  \* k_containers_container_name_metadata_partition
    Requests,            \* names that appear in container requests
    NumPartitions,       \* k_number_collocations
    MaxFailures,         \* storage engine errors in a behaviour (a bound)
    MaxCrashes           \* crashes from outside in a behaviour (a bound)

Partitions == 0 .. NumPartitions - 1
MetadataPartition == NumPartitions
Names == Containers \cup {Default, MetadataDefault, MetadataContainers}
MetadataFamilies == {Default, MetadataContainers}

(* k_max_metadata_partition_containers *)
MaxMetadataPartitionContainers == 2

ASSUME NumPartitionsAssumption == NumPartitions \in Nat \ {0}
ASSUME BoundsAssumption == MaxFailures \in Nat /\ MaxCrashes \in Nat
ASSUME InternalNamesAssumption ==
    /\ Default # MetadataDefault /\ Default # MetadataContainers
    /\ MetadataDefault # MetadataContainers
    /\ Containers \cap {Default, MetadataDefault, MetadataContainers} = {}
ASSUME RequestsAssumption == Requests \subseteq Names

VARIABLES
    stage,             \* how far the process has come
    metadataFamilies,  \* disk: column families of the metadata partition
    metadata,          \* disk: keys of metadata_containers
    families,          \* disk: column families of a structured partition
    mapping,           \* metadata_partition_references
    registry,          \* container_registry: names found, per partition
    approved,          \* approved_references_ of all engines
    index,             \* container_index: what a name is indexed as
    engineFailed,      \* history: an engine failed during this start-up
    acknowledged,      \* history: creations answered with success
    removed,           \* history: names a removal was begun for
    failures, crashes

disk == <<metadataFamilies, metadata, families>>
loader == <<mapping, registry>>
history == <<acknowledged, removed>>
bounds == <<failures, crashes>>
vars == <<stage, disk, loader, approved, index, engineFailed, history, bounds>>

Stages == {"down", "metadata", "structured", "create", "put", "load", "failed", "running"}

(* Every variable keeps its type. *)
TypeOK ==
    /\ stage \in Stages
    /\ metadataFamilies \in SUBSET MetadataFamilies
    /\ metadata \in SUBSET Names
    /\ families \in [Partitions -> SUBSET Names]
    /\ mapping \in SUBSET MetadataFamilies
    /\ registry \in [Partitions -> SUBSET Names]
    /\ approved \in SUBSET (Names \X (0 .. NumPartitions))
    /\ index \in [Names -> {"absent", "active", "deleted"}]
    /\ engineFailed \in BOOLEAN
    /\ acknowledged \in SUBSET Names
    /\ removed \in SUBSET Names
    /\ failures \in 0 .. MaxFailures
    /\ crashes \in 0 .. MaxCrashes

NothingIndexed == [n \in Names |-> "absent"]
NothingFound == [p \in Partitions |-> {}]

(* A first start: no partition has a database. *)
Init ==
    /\ stage = "down"
    /\ metadataFamilies = {} /\ metadata = {} /\ families = NothingFound
    /\ mapping = {} /\ registry = NothingFound /\ approved = {}
    /\ index = NothingIndexed
    /\ engineFailed = FALSE
    /\ acknowledged = {} /\ removed = {}
    /\ failures = 0 /\ crashes = 0

-------------------------------------------------------------------------------
(* The process dies: what it had in memory is lost. *)
ProcessDies ==
    /\ stage' = "down"
    /\ mapping' = {} /\ registry' = NothingFound /\ approved' = {}
    /\ index' = NothingIndexed

CountCrash ==
    /\ crashes < MaxCrashes
    /\ crashes' = crashes + 1
    /\ UNCHANGED failures

Crash ==
    /\ stage # "down"
    /\ CountCrash
    /\ ProcessDies
    /\ UNCHANGED <<disk, engineFailed, history>>

(* A storage engine returns an error. *)
EngineFails ==
    /\ failures < MaxFailures
    /\ failures' = failures + 1
    /\ UNCHANGED crashes

(* Somebody starts the process, after a crash or a start-up that failed. *)
Launch ==
    /\ stage \in {"down", "failed"}
    /\ stage' = "metadata"
    /\ mapping' = {} /\ registry' = NothingFound /\ approved' = {}
    /\ index' = NothingIndexed
    /\ engineFailed' = FALSE
    /\ UNCHANGED <<disk, history, bounds>>

-------------------------------------------------------------------------------
(* Booting a partition lists its column families, opens the database with  *)
(* all of them, which creates it when there is none, and approves every    *)
(* handle the engine returns.                                              *)

Listed(found) == IF found = {} THEN {Default} ELSE found

(* The name a family of the metadata partition is indexed under. *)
IndexedAs(family) == IF family = Default THEN MetadataDefault ELSE family

BootMetadataPartition ==
    /\ stage = "metadata"
    /\ metadataFamilies' = Listed(metadataFamilies)
    /\ mapping' = Listed(metadataFamilies)
    /\ approved' = Listed(metadataFamilies) \X {MetadataPartition}
    /\ stage' = "structured"
    /\ UNCHANGED <<metadata, families, registry, index, engineFailed, history, bounds>>

BootStructuredPartition(p) ==
    /\ stage = "structured"
    /\ registry[p] = {}
    /\ \A q \in Partitions : q < p => registry[q] # {}
    /\ families' = [families EXCEPT ![p] = Listed(@)]
    /\ registry' = [registry EXCEPT ![p] = Listed(families[p])]
    /\ approved' = approved \cup (Listed(families[p]) \X {p})
    /\ UNCHANGED <<stage, metadataFamilies, metadata, mapping, index, engineFailed, history, bounds>>

FailBoot ==
    /\ stage = "metadata" \/ (stage = "structured" /\ \E p \in Partitions : registry[p] = {})
    /\ EngineFails
    /\ stage' = "failed" /\ engineFailed' = TRUE
    /\ UNCHANGED <<disk, loader, approved, index, history>>

-------------------------------------------------------------------------------
(* container_loader::load_container_index. *)

(* One family on the metadata partition means a first start. *)
BeginLoad ==
    /\ stage = "structured"
    /\ \A p \in Partitions : registry[p] # {}
    /\ stage' = IF Cardinality(mapping) \notin 1 .. MaxMetadataPartitionContainers
                THEN "failed"
                ELSE IF Cardinality(mapping) = 1 THEN "create" ELSE "load"
    /\ UNCHANGED <<disk, loader, approved, index, engineFailed, history, bounds>>

(* The status of the creation is not looked at: after a failure of either  *)
(* step the start-up goes on without the family in its mapping.            *)
CreateMetadataFamily ==
    /\ stage = "create"
    /\ \/ /\ metadataFamilies' = metadataFamilies \cup {MetadataContainers}
          /\ approved' = approved \cup {<<MetadataContainers, MetadataPartition>>}
          /\ stage' = "put"
          /\ UNCHANGED <<engineFailed, bounds>>
       \/ /\ EngineFails
          /\ stage' = "load" /\ engineFailed' = TRUE
          /\ UNCHANGED <<metadataFamilies, approved>>
    /\ UNCHANGED <<metadata, families, loader, index, history>>

(* Mutant: the new family does not enter the mapping. *)
RegisterDefaultUnmapped ==
    /\ stage = "put"
    /\ metadata' = metadata \cup {Default}
    /\ stage' = "load"
    /\ UNCHANGED <<metadataFamilies, families, loader, approved, index, engineFailed, history, bounds>>

RegisterDefault ==
    /\ stage = "put"
    /\ \/ /\ metadata' = metadata \cup {Default}
          /\ mapping' = mapping \cup {MetadataContainers}
          /\ UNCHANGED <<engineFailed, bounds>>
       \/ /\ EngineFails
          /\ engineFailed' = TRUE
          /\ UNCHANGED <<metadata, mapping>>
    /\ stage' = "load"
    /\ UNCHANGED <<metadataFamilies, families, registry, approved, index, history>>

FromMetadataPartition == {IndexedAs(f) : f \in mapping}

Discovered == UNION {registry[p] : p \in Partitions}
OrphanedContainers == Discovered \ metadata

(* execute_integrity_validation: no slot of the registry is null. *)
IsWhole(n) == \A p \in Partitions : n \in registry[p]

(* Mutant: an orphan must be whole as well. *)
IndexesAreConsistentForOrphans ==
    /\ \A n \in metadata \cup OrphanedContainers : IsWhole(n)
    /\ FromMetadataPartition \cap (metadata \cup OrphanedContainers) = {}

(* Every container of the metadata is whole, and no two containers collide  *)
(* in the index.                                                           *)
IndexesAreConsistent ==
    /\ \A n \in metadata : IsWhole(n)
    /\ FromMetadataPartition \cap (metadata \cup OrphanedContainers) = {}

(* Mutant: orphans are not marked. *)
LoadedIndexUnmarked ==
    [n \in Names |->
        IF n \in FromMetadataPartition \cup metadata \cup OrphanedContainers THEN "active"
        ELSE "absent"]

(* What the index holds after loading: orphans are marked as deleted. *)
LoadedIndex ==
    [n \in Names |->
        IF n \in FromMetadataPartition \cup metadata THEN "active"
        ELSE IF n \in OrphanedContainers THEN "deleted"
        ELSE "absent"]

(* The structured partitions a container has a reference on. *)
References(n) == {p \in Partitions : n \in registry[p]}

(* validate_container_engine_references: a reference may be null for an    *)
(* orphan only, and its own engine approves it.  Handles of different      *)
(* engines differ, so that no other engine ever does.                      *)
ReferencesAreValid ==
    \A n \in metadata \cup OrphanedContainers :
        /\ References(n) = Partitions \/ LoadedIndex[n] = "deleted"
        /\ \A p \in References(n) : <<n, p>> \in approved

Loadable ==
    /\ MetadataContainers \in mapping
    /\ <<MetadataContainers, MetadataPartition>> \in approved
    /\ IndexesAreConsistent
    /\ ReferencesAreValid

LoadContainerIndex ==
    /\ stage = "load"
    /\ Loadable
    /\ index' = LoadedIndex
    /\ mapping' = {} /\ registry' = NothingFound
    /\ stage' = "running"
    /\ UNCHANGED <<disk, approved, engineFailed, history, bounds>>

FailLoad ==
    /\ stage = "load"
    /\ \/ ~ Loadable /\ UNCHANGED <<engineFailed, bounds>>
       \/ MetadataContainers \in mapping /\ EngineFails /\ engineFailed' = TRUE
    /\ stage' = "failed"
    /\ UNCHANGED <<disk, loader, approved, index, history>>

-------------------------------------------------------------------------------
(* A running session. *)

(* The first k partitions have a column family n. *)
Extended(n, k) == [p \in Partitions |-> IF p < k THEN families[p] \cup {n} ELSE families[p]]
Reduced(n, k) == [p \in Partitions |-> IF p < k THEN families[p] \ {n} ELSE families[p]]

(* Mutant: the last partition is left out. *)
CreateInstancesButLast(n, k) ==
    /\ stage = "running"
    /\ index[n] = "absent"
    /\ \A p \in Partitions : p < k => n \notin families[p]
    /\ families' = Extended(n, k - 1)

(* handle_container_creation gets past its first check, and creates the    *)
(* column family on the first k partitions.                                *)
CreateInstances(n, k) ==
    /\ stage = "running"
    /\ index[n] = "absent"
    /\ \A p \in Partitions : p < k => n \notin families[p]
    /\ families' = Extended(n, k)

CreateContainer(n) ==
    /\ CreateInstances(n, NumPartitions)
    /\ index[MetadataContainers] # "absent"
    /\ metadata' = metadata \cup {n}
    /\ \/ /\ approved' = approved \cup ({n} \X Partitions)
          /\ index' = [index EXCEPT ![n] = "active"]
          /\ acknowledged' = acknowledged \cup {n}
          /\ removed' = removed \ {n}
          /\ UNCHANGED <<stage, loader, bounds>>
       \/ CountCrash /\ ProcessDies /\ UNCHANGED history
    /\ UNCHANGED <<metadataFamilies, engineFailed>>

(* The creation stops before its name is in the metadata, and leaves the   *)
(* families it made: on an error, which the existence of a family is too;  *)
(* because the process crashed; or because metadata_containers is no       *)
(* longer indexed and its null reference is dereferenced.                  *)
AbandonCreation(n, k) ==
    /\ CreateInstances(n, k)
    /\ \/ /\ \/ k \in Partitions /\ n \in families[k] /\ UNCHANGED bounds
             \/ (k \in Partitions \/ index[MetadataContainers] # "absent") /\ EngineFails
          /\ UNCHANGED <<stage, loader, approved, index>>
       \/ CountCrash /\ ProcessDies
       \/ /\ k = NumPartitions /\ index[MetadataContainers] = "absent"
          /\ ProcessDies
          /\ UNCHANGED bounds
    /\ UNCHANGED <<metadataFamilies, metadata, engineFailed, history>>

(* Mutant: the container is marked before its key is deleted. *)
RemoveContainerMarksFirst(n) ==
    /\ stage = "running"
    /\ index[n] = "active" /\ index[MetadataContainers] # "absent"
    /\ removed' = removed \cup {n}
    /\ index' = [index EXCEPT ![n] = "deleted"]
    /\ \/ metadata' = metadata \ {n} /\ UNCHANGED bounds
       \/ EngineFails /\ UNCHANGED metadata
    /\ UNCHANGED <<stage, metadataFamilies, families, loader, approved, engineFailed, acknowledged>>

(* handle_container_removal; nothing tells internal containers from others. *)
RemoveContainer(n) ==
    /\ stage = "running"
    /\ index[n] = "active"
    /\ removed' = removed \cup {n}
    /\ \/ /\ index[MetadataContainers] # "absent"
          /\ metadata' = metadata \ {n}
          /\ \/ /\ index' = [index EXCEPT ![n] = "deleted"]
                /\ UNCHANGED <<stage, loader, approved, bounds>>
             \/ CountCrash /\ ProcessDies
       \/ /\ index[MetadataContainers] # "absent"
          /\ EngineFails
          /\ UNCHANGED <<stage, metadata, loader, approved, index>>
       \/ /\ index[MetadataContainers] = "absent"
          /\ ProcessDies
          /\ UNCHANGED <<metadata, bounds>>
    /\ UNCHANGED <<metadataFamilies, families, engineFailed, acknowledged>>

(* RocksDB drops neither a family twice nor the default one. *)
Droppable(n, p) == n # Default /\ n \in families[p] /\ <<n, p>> \in approved

(* Mutant: the collector takes every container of the index for deleted. *)
CollectAnyContainer(n) ==
    /\ stage = "running"
    /\ index[n] # "absent" /\ n \notin {MetadataDefault, MetadataContainers}
    /\ \A p \in Partitions : Droppable(n, p)
    /\ families' = Reduced(n, NumPartitions)
    /\ index' = [index EXCEPT ![n] = "absent"]
    /\ approved' = approved \ ({n} \X Partitions)
    /\ UNCHANGED <<stage, metadataFamilies, metadata, loader, engineFailed, history, bounds>>

(* The collector drops the families of a deleted container in order, and   *)
(* erases it once all are gone.  It stops at an engine that refuses or     *)
(* fails, and dies of a reference that is null.                            *)
CollectContainer(n) ==
    /\ stage = "running"
    /\ index[n] = "deleted" /\ n \notin {MetadataDefault, MetadataContainers}
    /\ \E k \in 0 .. NumPartitions :
          /\ \A p \in Partitions : p < k => Droppable(n, p)
          /\ families' = Reduced(n, k)
          /\ \/ /\ k = NumPartitions
                /\ index' = [index EXCEPT ![n] = "absent"]
                /\ approved' = approved \ ({n} \X Partitions)
                /\ UNCHANGED <<stage, loader, bounds>>
             \/ /\ k < NumPartitions /\ <<n, k>> \in approved
                /\ (~ Droppable(n, k) /\ UNCHANGED bounds) \/ EngineFails
                /\ UNCHANGED <<stage, loader, approved, index>>
             \/ /\ k < NumPartitions /\ <<n, k>> \notin approved
                /\ ProcessDies
                /\ UNCHANGED bounds
             \/ CountCrash /\ ProcessDies
    /\ UNCHANGED <<metadataFamilies, metadata, engineFailed, history>>

(* The same for metadata_containers, whose keys go with it; the default    *)
(* family of the metadata partition is never dropped.                      *)
CollectMetadataContainers ==
    /\ stage = "running"
    /\ index[MetadataContainers] = "deleted"
    /\ \/ /\ metadataFamilies' = metadataFamilies \ {MetadataContainers}
          /\ metadata' = {}
          /\ \/ /\ index' = [index EXCEPT ![MetadataContainers] = "absent"]
                /\ approved' = approved \ {<<MetadataContainers, MetadataPartition>>}
                /\ UNCHANGED <<stage, loader, bounds>>
             \/ CountCrash /\ ProcessDies
       \/ /\ EngineFails
          /\ UNCHANGED <<stage, metadataFamilies, metadata, loader, approved, index>>
    /\ UNCHANGED <<families, engineFailed, history>>

-------------------------------------------------------------------------------
StartUpStep ==
    \/ Launch
    \/ BootMetadataPartition
    \/ \E p \in Partitions : BootStructuredPartition(p)
    \/ BeginLoad \/ CreateMetadataFamily \/ RegisterDefault
    \/ LoadContainerIndex \/ FailLoad

SessionStep ==
    \/ \E n \in Requests : CreateContainer(n) \/ RemoveContainer(n)
    \/ \E n \in Requests, k \in 0 .. NumPartitions : AbandonCreation(n, k)
    \/ \E n \in Names : CollectContainer(n)
    \/ CollectMetadataContainers

Next == StartUpStep \/ FailBoot \/ SessionStep \/ Crash

Spec == Init /\ [][Next]_vars

(* The main thread goes on with the start-up, and a process that is down   *)
(* is started again.                                                       *)
FairSpec == Spec /\ WF_vars(StartUpStep)

-------------------------------------------------------------------------------
(* Unless somebody removed the container all names are kept in, ...         *)
MetadataKept == MetadataContainers \notin removed

(* ... no state of the disk an earlier session left, wherever it stopped,   *)
(* makes a start-up fail: only an engine error during that start-up does.  *)
OnlyEngineErrorsStopStartUp ==
    stage = "failed" => engineFailed \/ ~ MetadataKept

(* ... a container whose creation was answered with success, and whose      *)
(* removal nobody asked for since, is in the metadata and has its column   *)
(* family on every partition, through any number of restarts.              *)
AcknowledgedContainersSurvive ==
    MetadataKept => \A n \in acknowledged \ removed :
        n \in metadata /\ \A p \in Partitions : n \in families[p]

(* A container the index serves has a reference its engine approves, to a   *)
(* family that exists, on every partition: what an interrupted creation or *)
(* removal left is never served.                                           *)
ServedContainersAreWhole ==
    stage = "running" => \A n \in Containers : index[n] = "active" =>
        \A p \in Partitions : n \in families[p] /\ <<n, p>> \in approved

(* What a container is after the next start-up, by what is on the disk. *)
OnDisk(n) == \E p \in Partitions : n \in families[p]
StateOnDisk(n) ==
    IF n \in metadata THEN "active" ELSE IF OnDisk(n) THEN "deleted" ELSE "absent"

(* The steps of a start-up, taken together, give clients' containers what   *)
(* Start of ContainerLifecycle gives them at once: those of the metadata   *)
(* are served, what else is on the disk awaits the collector, and the      *)
(* engines approve references to the families there are and to no others.  *)
StartServesTheDisk ==
    [][stage # "running" /\ stage' = "running" => \A n \in Containers :
            /\ index'[n] = StateOnDisk(n)
            /\ \A p \in Partitions : <<n, p>> \in approved' <=> n \in families[p]]_vars

StateOf(n) == IF stage = "running" THEN index[n] ELSE StateOnDisk(n)
ContainerStates == [n \in Containers |-> StateOf(n)]

Name == INSTANCE ContainerNames WITH Names <- Containers, states <- ContainerStates

(* The names of clients' containers have the life ContainerNames gives      *)
(* them through sessions and start-ups that stop at any step: a container  *)
(* that awaits the collector is never served again, and one that is served *)
(* does not go in any other way, even when it awaits the collector because *)
(* metadata_containers, and its key with it, has been removed.             *)
ImplementsNames == Name!Spec

(* Whatever happens the data store is running again and again: no restart   *)
(* is in vain for good, also when the collector died in the session before. *)
StartUpIsNeverWedged == []<>(stage = "running" \/ ~ MetadataKept)

(* container_loader.cc:204: "All structured data partitions which thus     *)
(* container tracks will always spin up the default column family, so it   *)
(* should be registered inside this container."                            *)
DefaultIsRegistered == stage = "running" /\ Default \notin removed => Default \in metadata
===============================================================================
