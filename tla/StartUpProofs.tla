---------------------------- MODULE StartUpProofs ----------------------------
(* Proofs about StartUp for every value of its constants.                   *)
EXTENDS StartUp, FiniteSetTheorems, TLAPS

-------------------------------------------------------------------------------
(* The inductive invariant. *)

(* The index is built by the last step of a start-up. *)
IndexIsOfThisSession == stage # "running" => index = NothingIndexed

(* What the collector may drop is not in the metadata any more. *)
DeletedHasLeftMetadata == \A n \in Names : index[n] = "deleted" => n \notin metadata

(* A name enters the metadata after its last column family, and leaves it   *)
(* before the first one goes.                                              *)
MetadataIsWhole == \A n \in metadata, p \in Partitions : n \in families[p]

(* RocksDB's own family is as old as the partition. *)
DefaultIsFirst ==
    /\ \A p \in Partitions : families[p] # {} => Default \in families[p]
    /\ stage = "running" => \A p \in Partitions : families[p] # {}
    /\ metadataFamilies # {} => Default \in metadataFamilies
    /\ stage \notin {"down", "metadata", "failed"} => metadataFamilies # {}

(* What the loader has found is what is there, and approved. *)
LoaderAgreesWithDisk ==
    /\ stage = "metadata" => registry = NothingFound
    /\ stage \in {"structured", "create", "put", "load"} =>
          \A p \in Partitions : registry[p] # {} =>
              registry[p] = families[p] /\ registry[p] \X {p} \subseteq approved
    /\ stage \in {"create", "put", "load"} => \A p \in Partitions : registry[p] # {}

MappingIsApproved ==
    /\ stage \in {"structured", "create", "put", "load"} =>
          Default \in mapping /\ mapping \X {MetadataPartition} \subseteq approved
    /\ stage = "put" => <<MetadataContainers, MetadataPartition>> \in approved
    /\ stage = "load" => MetadataContainers \in mapping \/ engineFailed

(* No structured partition has a family with the name of one of the         *)
(* metadata partition: the index takes both names from the start.          *)
InternalNamesAreTaken ==
    /\ MetadataDefault \notin metadata
    /\ \A p \in Partitions : MetadataDefault \notin families[p]
    /\ stage = "running" => index[MetadataDefault] # "absent"
    /\ MetadataKept =>
          /\ MetadataContainers \notin metadata
          /\ \A p \in Partitions : MetadataContainers \notin families[p]
          /\ stage = "running" => index[MetadataContainers] = "active"
    /\ index[MetadataContainers] = "deleted" => ~ MetadataKept

StartUpInv ==
    /\ TypeOK
    /\ IndexIsOfThisSession /\ DeletedHasLeftMetadata
    /\ MetadataIsWhole /\ DefaultIsFirst
    /\ LoaderAgreesWithDisk /\ MappingIsApproved
    /\ InternalNamesAreTaken
    /\ OnlyEngineErrorsStopStartUp
    /\ AcknowledgedContainersSurvive
    /\ ServedContainersAreWhole
-------------------------------------------------------------------------------
(* Types. *)

(* The internal names are three, and none is a client's. *)
LEMMA InternalNames ==
    /\ Default \in Names /\ MetadataDefault \in Names /\ MetadataContainers \in Names
    /\ MetadataFamilies \subseteq Names
    /\ Default # MetadataDefault /\ Default # MetadataContainers
    /\ MetadataDefault # MetadataContainers
    /\ \A n \in Containers : n \in Names /\ n # Default /\ n # MetadataDefault /\ n # MetadataContainers
BY InternalNamesAssumption DEF Names, MetadataFamilies

(* The metadata partition is numbered after the structured ones. *)
LEMMA PartitionNumbers ==
    /\ 0 \in Partitions /\ MetadataPartition \in 0 .. NumPartitions
    /\ Partitions \subseteq 0 .. NumPartitions
    /\ MetadataPartition \notin Partitions
    /\ \A p \in Partitions : p < NumPartitions
    /\ \A k \in 0 .. NumPartitions : k # NumPartitions => k \in Partitions
<1> USE NumPartitionsAssumption DEF Partitions, MetadataPartition
<1>1. 0 \in Partitions /\ MetadataPartition \in 0 .. NumPartitions
    OBVIOUS
<1>2. Partitions \subseteq 0 .. NumPartitions
    OBVIOUS
<1>3. MetadataPartition \notin Partitions /\ \A p \in Partitions : p < NumPartitions
    OBVIOUS
<1>4. \A k \in 0 .. NumPartitions : k # NumPartitions => k \in Partitions
    OBVIOUS
<1> QED
    BY <1>1, <1>2, <1>3, <1>4

(* The initial state has the right types. *)
LEMMA TypeInit == Init => TypeOK
<1>1. NothingFound \in [Partitions -> SUBSET Names]
    BY DEF NothingFound
<1>2. NothingIndexed \in [Names -> {"absent", "active", "deleted"}]
    BY DEF NothingIndexed
<1>3. Init => failures \in 0 .. MaxFailures /\ crashes \in 0 .. MaxCrashes
    BY BoundsAssumption DEF Init
<1>4. Init => engineFailed \in BOOLEAN
    BY DEF Init
<1>5. Init => stage \in Stages
    BY DEF Init, Stages
<1> QED
    BY <1>1, <1>2, <1>3, <1>4, <1>5 DEF Init, TypeOK

(* A process that dies leaves typed variables. *)
LEMMA TypeDies ==
    ProcessDies => /\ stage' \in Stages
                   /\ mapping' \in SUBSET MetadataFamilies
                   /\ registry' \in [Partitions -> SUBSET Names]
                   /\ approved' \in SUBSET (Names \X (0 .. NumPartitions))
                   /\ index' \in [Names -> {"absent", "active", "deleted"}]
BY DEF ProcessDies, Stages, NothingFound, NothingIndexed

(* Failures and crashes stay within their bounds. *)
LEMMA TypeBounds ==
    TypeOK /\ (EngineFails \/ CountCrash \/ UNCHANGED bounds) =>
        failures' \in 0 .. MaxFailures /\ crashes' \in 0 .. MaxCrashes
BY BoundsAssumption DEF TypeOK, EngineFails, CountCrash, bounds

(* The steps of a start-up keep the types. *)
LEMMA TypeStartUp == TypeOK /\ (StartUpStep \/ FailBoot \/ Crash) => TypeOK'
<1> SUFFICES ASSUME TypeOK, StartUpStep \/ FailBoot \/ Crash PROVE TypeOK'
    OBVIOUS
<1> USE InternalNames, PartitionNumbers, TypeBounds DEF disk, loader, history, Stages
<1>1. CASE Launch
    BY <1>1 DEF Launch, TypeOK, NothingFound, NothingIndexed
<1>2. CASE BootMetadataPartition
  <2>1. Listed(metadataFamilies) \in SUBSET MetadataFamilies
    BY DEF TypeOK, Listed, MetadataFamilies
  <2>2. approved' \in SUBSET (Names \X (0 .. NumPartitions))
    BY <1>2, <2>1 DEF BootMetadataPartition
  <2> QED
    BY <1>2, <2>1, <2>2 DEF BootMetadataPartition, TypeOK
<1>3. ASSUME NEW p \in Partitions, BootStructuredPartition(p) PROVE TypeOK'
  <2>1. Listed(families[p]) \in SUBSET Names
    BY DEF TypeOK, Listed
  <2>2. Listed(families[p]) \X {p} \in SUBSET (Names \X (0 .. NumPartitions))
    BY <2>1
  <2> QED
    BY <1>3, <2>1, <2>2 DEF BootStructuredPartition, TypeOK
<1>4. CASE BeginLoad
    BY <1>4 DEF BeginLoad, TypeOK
<1>5. CASE CreateMetadataFamily
  <2>1. metadataFamilies' \in SUBSET MetadataFamilies
    BY <1>5 DEF CreateMetadataFamily, TypeOK, MetadataFamilies
  <2>2. approved' \in SUBSET (Names \X (0 .. NumPartitions))
    BY <1>5 DEF CreateMetadataFamily, TypeOK
  <2> QED
    BY <1>5, <2>1, <2>2 DEF CreateMetadataFamily, TypeOK
<1>6. CASE RegisterDefault
    BY <1>6 DEF RegisterDefault, TypeOK, MetadataFamilies
<1>7. CASE LoadContainerIndex
    BY <1>7 DEF LoadContainerIndex, TypeOK, LoadedIndex, NothingFound
<1>8. CASE FailLoad
    BY <1>8 DEF FailLoad, TypeOK
<1>9. CASE FailBoot
    BY <1>9 DEF FailBoot, TypeOK
<1>10. CASE Crash
    BY <1>10, TypeDies DEF Crash, TypeOK
<1> QED
    BY <1>1, <1>2, <1>3, <1>4, <1>5, <1>6, <1>7, <1>8, <1>9, <1>10 DEF StartUpStep

(* The operations of a session keep the types. *)
LEMMA TypeSession == TypeOK /\ SessionStep => TypeOK'
<1> SUFFICES ASSUME TypeOK, SessionStep PROVE TypeOK'
    OBVIOUS
<1> USE InternalNames, PartitionNumbers, TypeBounds, TypeDies, RequestsAssumption DEF disk, loader, history, Stages
<1>1. ASSUME NEW n \in Names, NEW k \in 0 .. NumPartitions
      PROVE  /\ Extended(n, k) \in [Partitions -> SUBSET Names]
             /\ Reduced(n, k) \in [Partitions -> SUBSET Names]
             /\ {n} \X Partitions \in SUBSET (Names \X (0 .. NumPartitions))
    BY DEF TypeOK, Extended, Reduced
<1>n. NumPartitions \in 0 .. NumPartitions
    BY NumPartitionsAssumption
<1>2. ASSUME NEW n \in Requests, CreateContainer(n) PROVE TypeOK'
  <2>1. n \in Names /\ families' = Extended(n, NumPartitions)
    BY <1>2 DEF CreateContainer, CreateInstances
  <2>2. families' \in [Partitions -> SUBSET Names]
    BY <2>1, <1>1, <1>n
  <2>3. {n} \X Partitions \in SUBSET (Names \X (0 .. NumPartitions))
    BY <2>1, <1>1, <1>n
  <2> QED
    BY <1>2, <2>1, <2>2, <2>3 DEF CreateContainer, TypeOK
<1>3. ASSUME NEW n \in Requests, RemoveContainer(n) PROVE TypeOK'
    BY <1>3 DEF RemoveContainer, TypeOK
<1>4. ASSUME NEW n \in Requests, NEW k \in 0 .. NumPartitions, AbandonCreation(n, k) PROVE TypeOK'
  <2>1. n \in Names /\ families' = Extended(n, k)
    BY <1>4 DEF AbandonCreation, CreateInstances
  <2>2. families' \in [Partitions -> SUBSET Names]
    BY <2>1, <1>1
  <2> QED
    BY <1>4, <2>2 DEF AbandonCreation, TypeOK
<1>5. ASSUME NEW n \in Names, CollectContainer(n) PROVE TypeOK'
  <2>1. families' \in [Partitions -> SUBSET Names]
    BY <1>5, <1>1 DEF CollectContainer
  <2> QED
    BY <1>5, <2>1 DEF CollectContainer, TypeOK
<1>6. CASE CollectMetadataContainers
    BY <1>6 DEF CollectMetadataContainers, TypeOK
<1> QED
    BY <1>2, <1>3, <1>4, <1>5, <1>6 DEF SessionStep

(* Every variable keeps its type. *)
THEOREM TypeCorrect == Spec => []TypeOK
<1>1. TypeOK /\ [Next]_vars => TypeOK'
  <2>1. TypeOK /\ UNCHANGED vars => TypeOK'
    BY DEF TypeOK, vars, disk, loader, history, bounds
  <2> QED
    BY <2>1, TypeStartUp, TypeSession DEF Next
<1> QED
    BY <1>1, TypeInit, PTL DEF Spec

-------------------------------------------------------------------------------
(* The invariant. *)

(* An empty disk satisfies the invariant. *)
LEMMA InvInit == Init => StartUpInv
<1> SUFFICES ASSUME Init PROVE StartUpInv
    OBVIOUS
<1> USE InternalNames DEF Init, NothingIndexed, NothingFound
<1>1. IndexIsOfThisSession
    BY DEF IndexIsOfThisSession
<1>2. DeletedHasLeftMetadata
    BY DEF DeletedHasLeftMetadata
<1>3. MetadataIsWhole
    BY DEF MetadataIsWhole
<1>4. DefaultIsFirst
    BY DEF DefaultIsFirst
<1>5. LoaderAgreesWithDisk
    BY DEF LoaderAgreesWithDisk
<1>6. MappingIsApproved
    BY DEF MappingIsApproved
<1>7. InternalNamesAreTaken
    BY DEF InternalNamesAreTaken
<1>8. OnlyEngineErrorsStopStartUp
    BY DEF OnlyEngineErrorsStopStartUp
<1>9. AcknowledgedContainersSurvive
    BY DEF AcknowledgedContainersSurvive
<1>10. ServedContainersAreWhole
    BY DEF ServedContainersAreWhole
<1> QED
    BY TypeInit, <1>1, <1>2, <1>3, <1>4, <1>5, <1>6, <1>7, <1>8, <1>9, <1>10 DEF StartUpInv

(* The metadata partition has one family, or two and then both. *)
LEMMA MappingSize ==
    ASSUME mapping \in SUBSET MetadataFamilies, mapping # {}
    PROVE  /\ Cardinality(mapping) \in 1 .. MaxMetadataPartitionContainers
           /\ Cardinality(mapping) # 1 => MetadataContainers \in mapping
<1>1. CASE mapping = {Default}
  <2>1. Cardinality(mapping) = 1
    BY <1>1, FS_Singleton
  <2> QED
    BY <2>1 DEF MaxMetadataPartitionContainers
<1>2. CASE mapping = {MetadataContainers}
  <2>1. Cardinality(mapping) = 1
    BY <1>2, FS_Singleton
  <2> QED
    BY <2>1 DEF MaxMetadataPartitionContainers
<1>3. CASE mapping = {Default, MetadataContainers}
  <2>1. IsFiniteSet({Default}) /\ Cardinality({Default}) = 1
    BY FS_Singleton
  <2>2. MetadataContainers \notin {Default} /\ mapping = {Default} \cup {MetadataContainers}
    BY <1>3, InternalNames
  <2>3. Cardinality(mapping) = 2
    BY <2>1, <2>2, FS_AddElement
  <2> QED
    BY <1>3, <2>3 DEF MaxMetadataPartitionContainers
<1> QED
    BY <1>1, <1>2, <1>3 DEF MetadataFamilies

(* As long as no engine fails and the metadata is kept, what the loader has *)
(* found passes all of its checks.                                         *)
LEMMA FoundIsLoadable ==
    ASSUME StartUpInv, stage = "load", ~ engineFailed, MetadataKept
    PROVE  Loadable
<1> USE InternalNames, PartitionNumbers DEF TypeOK
<1>1. MetadataContainers \in mapping /\ mapping \subseteq MetadataFamilies
    BY DEF StartUpInv, MappingIsApproved
<1>2. <<MetadataContainers, MetadataPartition>> \in approved
    BY <1>1 DEF StartUpInv, MappingIsApproved
<1>3. \A p \in Partitions : registry[p] = families[p] /\ registry[p] \X {p} \subseteq approved
    BY DEF StartUpInv, LoaderAgreesWithDisk
<1>4. \A n \in metadata : IsWhole(n)
    BY <1>3 DEF StartUpInv, MetadataIsWhole, IsWhole
<1>5. MetadataDefault \notin metadata \cup Discovered /\ MetadataContainers \notin metadata \cup Discovered
    BY <1>3 DEF StartUpInv, InternalNamesAreTaken, Discovered
<1>6. FromMetadataPartition \subseteq {MetadataDefault, MetadataContainers}
    BY <1>1 DEF FromMetadataPartition, IndexedAs, MetadataFamilies
<1>7. FromMetadataPartition \cap (metadata \cup OrphanedContainers) = {}
    BY <1>5, <1>6 DEF OrphanedContainers
<1>8. ASSUME NEW n \in metadata \cup OrphanedContainers
      PROVE  /\ References(n) = Partitions \/ LoadedIndex[n] = "deleted"
             /\ \A p \in References(n) : <<n, p>> \in approved
  <2>1. \A p \in References(n) : <<n, p>> \in approved
    BY <1>3 DEF References
  <2>2. CASE n \in metadata
    BY <2>1, <2>2, <1>4 DEF References, IsWhole
  <2>3. CASE n \in OrphanedContainers \ metadata
    <3>1. n \in Names
        BY <2>3 DEF OrphanedContainers, Discovered, StartUpInv
    <3>2. LoadedIndex[n] = "deleted"
        BY <2>3, <3>1, <1>7 DEF LoadedIndex
    <3> QED
        BY <2>1, <3>2
  <2> QED
    BY <2>2, <2>3
<1> QED
    BY <1>1, <1>2, <1>4, <1>7, <1>8 DEF Loadable, IndexesAreConsistent, ReferencesAreValid

(* What the index serves after loading is whole. *)
LEMMA LoadedIsWhole ==
    ASSUME StartUpInv, stage = "load", Loadable
    PROVE  /\ \A n \in Names : LoadedIndex[n] = "deleted" => n \notin metadata
           /\ LoadedIndex[MetadataContainers] = "active"
           /\ Default \in mapping => LoadedIndex[MetadataDefault] = "active"
           /\ \A n \in Containers : LoadedIndex[n] = "active" =>
                 \A p \in Partitions : n \in families[p] /\ <<n, p>> \in approved
<1> USE InternalNames, PartitionNumbers DEF TypeOK
<1>1. \A n \in Names : LoadedIndex[n] = "deleted" => n \notin metadata
    BY DEF LoadedIndex
<1>2. MetadataContainers \in FromMetadataPartition
    BY DEF Loadable, FromMetadataPartition, IndexedAs
<1>3. LoadedIndex[MetadataContainers] = "active"
    BY <1>2 DEF LoadedIndex
<1>4. Default \in mapping => LoadedIndex[MetadataDefault] = "active"
    BY DEF LoadedIndex, FromMetadataPartition, IndexedAs
<1>5. ASSUME NEW n \in Containers, LoadedIndex[n] = "active", NEW p \in Partitions
      PROVE  n \in families[p] /\ <<n, p>> \in approved
  <2>1. mapping \subseteq MetadataFamilies
    BY DEF StartUpInv
  <2>2. n \notin FromMetadataPartition
    BY <2>1 DEF FromMetadataPartition, IndexedAs, MetadataFamilies
  <2>3. n \in metadata
    BY <1>5, <2>2 DEF LoadedIndex
  <2>4. n \in registry[p]
    BY <2>3 DEF Loadable, IndexesAreConsistent, IsWhole
  <2> QED
    BY <2>4 DEF StartUpInv, LoaderAgreesWithDisk
<1> QED
    BY <1>1, <1>3, <1>4, <1>5

(* Booting and loading keep the invariant. *)
LEMMA InvStartUp == StartUpInv /\ TypeOK' /\ (StartUpStep \/ FailBoot \/ Crash) => StartUpInv'
<1> SUFFICES ASSUME StartUpInv, TypeOK', StartUpStep \/ FailBoot \/ Crash PROVE StartUpInv'
    OBVIOUS
<1> USE InternalNames, PartitionNumbers DEF disk, loader, history, MetadataKept, TypeOK
<1>1. CASE Launch
  <2> USE <1>1 DEF Launch, NothingIndexed, NothingFound
  <2>1. IndexIsOfThisSession'
    BY DEF StartUpInv, IndexIsOfThisSession
  <2>2. DeletedHasLeftMetadata'
    BY DEF StartUpInv, DeletedHasLeftMetadata
  <2>3. MetadataIsWhole'
    BY DEF StartUpInv, MetadataIsWhole
  <2>4. DefaultIsFirst'
    BY DEF StartUpInv, DefaultIsFirst
  <2>5. LoaderAgreesWithDisk'
    BY DEF StartUpInv, LoaderAgreesWithDisk
  <2>6. MappingIsApproved'
    BY DEF StartUpInv, MappingIsApproved
  <2>7. InternalNamesAreTaken'
    BY DEF StartUpInv, InternalNamesAreTaken
  <2>8. OnlyEngineErrorsStopStartUp'
    BY DEF StartUpInv, OnlyEngineErrorsStopStartUp
  <2>9. AcknowledgedContainersSurvive'
    BY DEF StartUpInv, AcknowledgedContainersSurvive
  <2>10. ServedContainersAreWhole'
    BY DEF StartUpInv, ServedContainersAreWhole
  <2> QED
    BY <2>1, <2>2, <2>3, <2>4, <2>5, <2>6, <2>7, <2>8, <2>9, <2>10 DEF StartUpInv
<1>2. CASE BootMetadataPartition
  <2> USE <1>2 DEF BootMetadataPartition, Listed, NothingFound
  <2>1. IndexIsOfThisSession'
    BY DEF StartUpInv, IndexIsOfThisSession
  <2>2. DeletedHasLeftMetadata'
    BY DEF StartUpInv, DeletedHasLeftMetadata
  <2>3. MetadataIsWhole'
    BY DEF StartUpInv, MetadataIsWhole
  <2>4. DefaultIsFirst'
    BY DEF StartUpInv, DefaultIsFirst
  <2>5. LoaderAgreesWithDisk'
    BY DEF StartUpInv, LoaderAgreesWithDisk
  <2>6. MappingIsApproved'
    BY DEF StartUpInv, MappingIsApproved, DefaultIsFirst
  <2>7. InternalNamesAreTaken'
    BY DEF StartUpInv, InternalNamesAreTaken
  <2>8. OnlyEngineErrorsStopStartUp'
    BY DEF StartUpInv, OnlyEngineErrorsStopStartUp
  <2>9. AcknowledgedContainersSurvive'
    BY DEF StartUpInv, AcknowledgedContainersSurvive
  <2>10. ServedContainersAreWhole'
    BY DEF StartUpInv, ServedContainersAreWhole
  <2> QED
    BY <2>1, <2>2, <2>3, <2>4, <2>5, <2>6, <2>7, <2>8, <2>9, <2>10 DEF StartUpInv
<1>3. ASSUME NEW p \in Partitions, BootStructuredPartition(p) PROVE StartUpInv'
  <2> USE <1>3 DEF BootStructuredPartition, Listed
  <2>1. IndexIsOfThisSession'
    BY DEF StartUpInv, IndexIsOfThisSession
  <2>2. DeletedHasLeftMetadata'
    BY DEF StartUpInv, DeletedHasLeftMetadata
  <2>3. MetadataIsWhole'
    BY DEF StartUpInv, MetadataIsWhole
  <2>4. DefaultIsFirst'
    BY DEF StartUpInv, DefaultIsFirst
  <2>5. LoaderAgreesWithDisk'
    BY DEF StartUpInv, LoaderAgreesWithDisk
  <2>6. MappingIsApproved'
    BY DEF StartUpInv, MappingIsApproved
  <2>7. InternalNamesAreTaken'
    BY DEF StartUpInv, InternalNamesAreTaken
  <2>8. OnlyEngineErrorsStopStartUp'
    BY DEF StartUpInv, OnlyEngineErrorsStopStartUp
  <2>9. AcknowledgedContainersSurvive'
    BY DEF StartUpInv, AcknowledgedContainersSurvive
  <2>10. ServedContainersAreWhole'
    BY DEF StartUpInv, ServedContainersAreWhole
  <2> QED
    BY <2>1, <2>2, <2>3, <2>4, <2>5, <2>6, <2>7, <2>8, <2>9, <2>10 DEF StartUpInv
<1>4. CASE BeginLoad
  <2> USE <1>4 DEF BeginLoad
  <2>1. IndexIsOfThisSession'
    BY DEF StartUpInv, IndexIsOfThisSession
  <2>2. DeletedHasLeftMetadata'
    BY DEF StartUpInv, DeletedHasLeftMetadata
  <2>3. MetadataIsWhole'
    BY DEF StartUpInv, MetadataIsWhole
  <2>4. DefaultIsFirst'
    BY DEF StartUpInv, DefaultIsFirst
  <2>5. LoaderAgreesWithDisk'
    BY DEF StartUpInv, LoaderAgreesWithDisk
  <2>6. MappingIsApproved'
    BY MappingSize DEF StartUpInv, MappingIsApproved
  <2>7. InternalNamesAreTaken'
    BY DEF StartUpInv, InternalNamesAreTaken
  <2>8. OnlyEngineErrorsStopStartUp'
    BY MappingSize DEF StartUpInv, MappingIsApproved, OnlyEngineErrorsStopStartUp
  <2>9. AcknowledgedContainersSurvive'
    BY DEF StartUpInv, AcknowledgedContainersSurvive
  <2>10. ServedContainersAreWhole'
    BY DEF StartUpInv, ServedContainersAreWhole
  <2> QED
    BY <2>1, <2>2, <2>3, <2>4, <2>5, <2>6, <2>7, <2>8, <2>9, <2>10 DEF StartUpInv
<1>5. CASE CreateMetadataFamily
  <2> USE <1>5 DEF CreateMetadataFamily
  <2>1. IndexIsOfThisSession'
    BY DEF StartUpInv, IndexIsOfThisSession
  <2>2. DeletedHasLeftMetadata'
    BY DEF StartUpInv, DeletedHasLeftMetadata
  <2>3. MetadataIsWhole'
    BY DEF StartUpInv, MetadataIsWhole
  <2>4. DefaultIsFirst'
    BY DEF StartUpInv, DefaultIsFirst
  <2>5. LoaderAgreesWithDisk'
    BY DEF StartUpInv, LoaderAgreesWithDisk
  <2>6. MappingIsApproved'
    BY DEF StartUpInv, MappingIsApproved
  <2>7. InternalNamesAreTaken'
    BY DEF StartUpInv, InternalNamesAreTaken
  <2>8. OnlyEngineErrorsStopStartUp'
    BY DEF StartUpInv, OnlyEngineErrorsStopStartUp
  <2>9. AcknowledgedContainersSurvive'
    BY DEF StartUpInv, AcknowledgedContainersSurvive
  <2>10. ServedContainersAreWhole'
    BY DEF StartUpInv, ServedContainersAreWhole
  <2> QED
    BY <2>1, <2>2, <2>3, <2>4, <2>5, <2>6, <2>7, <2>8, <2>9, <2>10 DEF StartUpInv
<1>6. CASE RegisterDefault
  <2> USE <1>6 DEF RegisterDefault
  <2>1. IndexIsOfThisSession'
    BY DEF StartUpInv, IndexIsOfThisSession
  <2>2. DeletedHasLeftMetadata'
    BY DEF StartUpInv, DeletedHasLeftMetadata, IndexIsOfThisSession, NothingIndexed
  <2>3. MetadataIsWhole'
    BY DEF StartUpInv, MetadataIsWhole, LoaderAgreesWithDisk, DefaultIsFirst
  <2>4. DefaultIsFirst'
    BY DEF StartUpInv, DefaultIsFirst
  <2>5. LoaderAgreesWithDisk'
    BY DEF StartUpInv, LoaderAgreesWithDisk
  <2>6. MappingIsApproved'
    BY DEF StartUpInv, MappingIsApproved
  <2>7. InternalNamesAreTaken'
    BY DEF StartUpInv, InternalNamesAreTaken
  <2>8. OnlyEngineErrorsStopStartUp'
    BY DEF StartUpInv, OnlyEngineErrorsStopStartUp
  <2>9. AcknowledgedContainersSurvive'
    BY DEF StartUpInv, AcknowledgedContainersSurvive
  <2>10. ServedContainersAreWhole'
    BY DEF StartUpInv, ServedContainersAreWhole
  <2> QED
    BY <2>1, <2>2, <2>3, <2>4, <2>5, <2>6, <2>7, <2>8, <2>9, <2>10 DEF StartUpInv
<1>7. CASE LoadContainerIndex
  <2> USE <1>7 DEF LoadContainerIndex
  <2>1. IndexIsOfThisSession'
    BY DEF StartUpInv, IndexIsOfThisSession
  <2>2. DeletedHasLeftMetadata'
    BY LoadedIsWhole DEF DeletedHasLeftMetadata
  <2>3. MetadataIsWhole'
    BY DEF StartUpInv, MetadataIsWhole
  <2>4. DefaultIsFirst'
    BY DEF StartUpInv, DefaultIsFirst, LoaderAgreesWithDisk
  <2>5. LoaderAgreesWithDisk'
    BY DEF StartUpInv, LoaderAgreesWithDisk
  <2>6. MappingIsApproved'
    BY DEF StartUpInv, MappingIsApproved
  <2>7. InternalNamesAreTaken'
    BY LoadedIsWhole DEF StartUpInv, InternalNamesAreTaken, MappingIsApproved
  <2>8. OnlyEngineErrorsStopStartUp'
    BY DEF StartUpInv, OnlyEngineErrorsStopStartUp
  <2>9. AcknowledgedContainersSurvive'
    BY DEF StartUpInv, AcknowledgedContainersSurvive
  <2>10. ServedContainersAreWhole'
    BY LoadedIsWhole DEF ServedContainersAreWhole
  <2> QED
    BY <2>1, <2>2, <2>3, <2>4, <2>5, <2>6, <2>7, <2>8, <2>9, <2>10 DEF StartUpInv
<1>8. CASE FailLoad
  <2> USE <1>8 DEF FailLoad
  <2>1. IndexIsOfThisSession'
    BY DEF StartUpInv, IndexIsOfThisSession
  <2>2. DeletedHasLeftMetadata'
    BY DEF StartUpInv, DeletedHasLeftMetadata
  <2>3. MetadataIsWhole'
    BY DEF StartUpInv, MetadataIsWhole
  <2>4. DefaultIsFirst'
    BY DEF StartUpInv, DefaultIsFirst
  <2>5. LoaderAgreesWithDisk'
    BY DEF StartUpInv, LoaderAgreesWithDisk
  <2>6. MappingIsApproved'
    BY DEF StartUpInv, MappingIsApproved
  <2>7. InternalNamesAreTaken'
    BY DEF StartUpInv, InternalNamesAreTaken
  <2>8. OnlyEngineErrorsStopStartUp'
    BY FoundIsLoadable DEF OnlyEngineErrorsStopStartUp
  <2>9. AcknowledgedContainersSurvive'
    BY DEF StartUpInv, AcknowledgedContainersSurvive
  <2>10. ServedContainersAreWhole'
    BY DEF StartUpInv, ServedContainersAreWhole
  <2> QED
    BY <2>1, <2>2, <2>3, <2>4, <2>5, <2>6, <2>7, <2>8, <2>9, <2>10 DEF StartUpInv
<1>9. CASE FailBoot
  <2> USE <1>9 DEF FailBoot
  <2>1. IndexIsOfThisSession'
    BY DEF StartUpInv, IndexIsOfThisSession
  <2>2. DeletedHasLeftMetadata'
    BY DEF StartUpInv, DeletedHasLeftMetadata
  <2>3. MetadataIsWhole'
    BY DEF StartUpInv, MetadataIsWhole
  <2>4. DefaultIsFirst'
    BY DEF StartUpInv, DefaultIsFirst
  <2>5. LoaderAgreesWithDisk'
    BY DEF StartUpInv, LoaderAgreesWithDisk
  <2>6. MappingIsApproved'
    BY DEF StartUpInv, MappingIsApproved
  <2>7. InternalNamesAreTaken'
    BY DEF StartUpInv, InternalNamesAreTaken
  <2>8. OnlyEngineErrorsStopStartUp'
    BY DEF StartUpInv, OnlyEngineErrorsStopStartUp
  <2>9. AcknowledgedContainersSurvive'
    BY DEF StartUpInv, AcknowledgedContainersSurvive
  <2>10. ServedContainersAreWhole'
    BY DEF StartUpInv, ServedContainersAreWhole
  <2> QED
    BY <2>1, <2>2, <2>3, <2>4, <2>5, <2>6, <2>7, <2>8, <2>9, <2>10 DEF StartUpInv
<1>10. CASE Crash
  <2> USE <1>10 DEF Crash, ProcessDies, NothingIndexed, NothingFound
  <2>1. IndexIsOfThisSession'
    BY DEF StartUpInv, IndexIsOfThisSession
  <2>2. DeletedHasLeftMetadata'
    BY DEF StartUpInv, DeletedHasLeftMetadata
  <2>3. MetadataIsWhole'
    BY DEF StartUpInv, MetadataIsWhole
  <2>4. DefaultIsFirst'
    BY DEF StartUpInv, DefaultIsFirst
  <2>5. LoaderAgreesWithDisk'
    BY DEF StartUpInv, LoaderAgreesWithDisk
  <2>6. MappingIsApproved'
    BY DEF StartUpInv, MappingIsApproved
  <2>7. InternalNamesAreTaken'
    BY DEF StartUpInv, InternalNamesAreTaken
  <2>8. OnlyEngineErrorsStopStartUp'
    BY DEF StartUpInv, OnlyEngineErrorsStopStartUp
  <2>9. AcknowledgedContainersSurvive'
    BY DEF StartUpInv, AcknowledgedContainersSurvive
  <2>10. ServedContainersAreWhole'
    BY DEF StartUpInv, ServedContainersAreWhole
  <2> QED
    BY <2>1, <2>2, <2>3, <2>4, <2>5, <2>6, <2>7, <2>8, <2>9, <2>10 DEF StartUpInv
<1> QED
    BY <1>1, <1>2, <1>3, <1>4, <1>5, <1>6, <1>7, <1>8, <1>9, <1>10 DEF StartUpStep

(* The operations of a session keep the invariant. *)
LEMMA InvSession == StartUpInv /\ TypeOK' /\ SessionStep => StartUpInv'
<1> SUFFICES ASSUME StartUpInv, TypeOK', SessionStep PROVE StartUpInv'
    OBVIOUS
<1> USE InternalNames, PartitionNumbers, RequestsAssumption DEF disk, loader, history, MetadataKept, TypeOK
<1>1. ASSUME NEW n \in Requests, CreateContainer(n) PROVE StartUpInv'
  <2> USE <1>1 DEF CreateContainer, CreateInstances, Extended, ProcessDies, NothingIndexed, NothingFound
  <2>1. IndexIsOfThisSession'
    BY DEF StartUpInv, IndexIsOfThisSession
  <2>2. DeletedHasLeftMetadata'
    BY DEF StartUpInv, DeletedHasLeftMetadata
  <2>3. MetadataIsWhole'
    BY DEF StartUpInv, MetadataIsWhole
  <2>4. DefaultIsFirst'
    BY DEF StartUpInv, DefaultIsFirst
  <2>5. LoaderAgreesWithDisk'
    BY DEF StartUpInv, LoaderAgreesWithDisk
  <2>6. MappingIsApproved'
    BY DEF StartUpInv, MappingIsApproved
  <2>7. InternalNamesAreTaken'
    BY DEF StartUpInv, InternalNamesAreTaken
  <2>8. OnlyEngineErrorsStopStartUp'
    BY DEF StartUpInv, OnlyEngineErrorsStopStartUp
  <2>9. AcknowledgedContainersSurvive'
    BY DEF StartUpInv, AcknowledgedContainersSurvive
  <2>10. ServedContainersAreWhole'
    BY DEF StartUpInv, ServedContainersAreWhole
  <2> QED
    BY <2>1, <2>2, <2>3, <2>4, <2>5, <2>6, <2>7, <2>8, <2>9, <2>10 DEF StartUpInv
<1>2. ASSUME NEW n \in Requests, RemoveContainer(n) PROVE StartUpInv'
  <2> USE <1>2 DEF RemoveContainer, ProcessDies, NothingIndexed, NothingFound
  <2>1. IndexIsOfThisSession'
    BY DEF StartUpInv, IndexIsOfThisSession
  <2>2. DeletedHasLeftMetadata'
    BY DEF StartUpInv, DeletedHasLeftMetadata
  <2>3. MetadataIsWhole'
    BY DEF StartUpInv, MetadataIsWhole
  <2>4. DefaultIsFirst'
    BY DEF StartUpInv, DefaultIsFirst
  <2>5. LoaderAgreesWithDisk'
    BY DEF StartUpInv, LoaderAgreesWithDisk
  <2>6. MappingIsApproved'
    BY DEF StartUpInv, MappingIsApproved
  <2>7. InternalNamesAreTaken'
    BY DEF StartUpInv, InternalNamesAreTaken
  <2>8. OnlyEngineErrorsStopStartUp'
    BY DEF StartUpInv, OnlyEngineErrorsStopStartUp
  <2>9. AcknowledgedContainersSurvive'
    BY DEF StartUpInv, AcknowledgedContainersSurvive
  <2>10. ServedContainersAreWhole'
    BY DEF StartUpInv, ServedContainersAreWhole
  <2> QED
    BY <2>1, <2>2, <2>3, <2>4, <2>5, <2>6, <2>7, <2>8, <2>9, <2>10 DEF StartUpInv
<1>3. ASSUME NEW n \in Requests, NEW k \in 0 .. NumPartitions, AbandonCreation(n, k) PROVE StartUpInv'
  <2> USE <1>3 DEF AbandonCreation, CreateInstances, Extended, ProcessDies, NothingIndexed, NothingFound
  <2>1. IndexIsOfThisSession'
    BY DEF StartUpInv, IndexIsOfThisSession
  <2>2. DeletedHasLeftMetadata'
    BY DEF StartUpInv, DeletedHasLeftMetadata
  <2>3. MetadataIsWhole'
    BY DEF StartUpInv, MetadataIsWhole
  <2>4. DefaultIsFirst'
    BY DEF StartUpInv, DefaultIsFirst
  <2>5. LoaderAgreesWithDisk'
    BY DEF StartUpInv, LoaderAgreesWithDisk
  <2>6. MappingIsApproved'
    BY DEF StartUpInv, MappingIsApproved
  <2>7. InternalNamesAreTaken'
    BY DEF StartUpInv, InternalNamesAreTaken
  <2>8. OnlyEngineErrorsStopStartUp'
    BY DEF StartUpInv, OnlyEngineErrorsStopStartUp
  <2>9. AcknowledgedContainersSurvive'
    BY DEF StartUpInv, AcknowledgedContainersSurvive
  <2>10. ServedContainersAreWhole'
    BY DEF StartUpInv, ServedContainersAreWhole
  <2> QED
    BY <2>1, <2>2, <2>3, <2>4, <2>5, <2>6, <2>7, <2>8, <2>9, <2>10 DEF StartUpInv
<1>4. ASSUME NEW n \in Names, CollectContainer(n) PROVE StartUpInv'
  <2>k. PICK k \in 0 .. NumPartitions :
            families' = Reduced(n, k) /\ \A p \in Partitions : p < k => Droppable(n, p)
    BY <1>4 DEF CollectContainer
  <2>a. /\ \A m \in Names, p \in Partitions : m # n \/ n = Default => (m \in families'[p] <=> m \in families[p])
        /\ \A p \in Partitions : families'[p] \subseteq families[p]
        /\ families' \in [Partitions -> SUBSET Names]
    BY <2>k DEF Reduced, Droppable, StartUpInv
  <2>b. n \notin metadata /\ metadata' = metadata
    BY <1>4 DEF CollectContainer, StartUpInv, DeletedHasLeftMetadata
  <2>c. UNCHANGED <<acknowledged, removed>>
    BY <1>4 DEF CollectContainer
  <2> USE <1>4 DEF CollectContainer, Droppable, Reduced, ProcessDies, NothingIndexed, NothingFound
  <2>1. IndexIsOfThisSession'
    BY DEF StartUpInv, IndexIsOfThisSession
  <2>2. DeletedHasLeftMetadata'
    BY DEF StartUpInv, DeletedHasLeftMetadata
  <2>3. MetadataIsWhole'
    BY <2>a, <2>b DEF StartUpInv, MetadataIsWhole
  <2>4. DefaultIsFirst'
    BY <2>a DEF StartUpInv, DefaultIsFirst
  <2>5. LoaderAgreesWithDisk'
    BY DEF StartUpInv, LoaderAgreesWithDisk
  <2>6. MappingIsApproved'
    BY DEF StartUpInv, MappingIsApproved
  <2>7. InternalNamesAreTaken'
    BY DEF StartUpInv, InternalNamesAreTaken
  <2>8. OnlyEngineErrorsStopStartUp'
    BY DEF StartUpInv, OnlyEngineErrorsStopStartUp
  <2>9. AcknowledgedContainersSurvive'
    BY <2>a, <2>b, <2>c DEF StartUpInv, AcknowledgedContainersSurvive
  <2>10. ServedContainersAreWhole'
    BY DEF StartUpInv, ServedContainersAreWhole
  <2> QED
    BY <2>1, <2>2, <2>3, <2>4, <2>5, <2>6, <2>7, <2>8, <2>9, <2>10 DEF StartUpInv
<1>5. CASE CollectMetadataContainers
  <2> USE <1>5 DEF CollectMetadataContainers, ProcessDies, NothingIndexed, NothingFound
  <2>1. IndexIsOfThisSession'
    BY DEF StartUpInv, IndexIsOfThisSession
  <2>2. DeletedHasLeftMetadata'
    BY DEF StartUpInv, DeletedHasLeftMetadata
  <2>3. MetadataIsWhole'
    BY DEF StartUpInv, MetadataIsWhole
  <2>4. DefaultIsFirst'
    BY DEF StartUpInv, DefaultIsFirst
  <2>5. LoaderAgreesWithDisk'
    BY DEF StartUpInv, LoaderAgreesWithDisk
  <2>6. MappingIsApproved'
    BY DEF StartUpInv, MappingIsApproved
  <2>7. InternalNamesAreTaken'
    BY DEF StartUpInv, InternalNamesAreTaken
  <2>8. OnlyEngineErrorsStopStartUp'
    BY DEF StartUpInv, OnlyEngineErrorsStopStartUp
  <2>9. AcknowledgedContainersSurvive'
    BY DEF StartUpInv, AcknowledgedContainersSurvive, InternalNamesAreTaken
  <2>10. ServedContainersAreWhole'
    BY DEF StartUpInv, ServedContainersAreWhole
  <2> QED
    BY <2>1, <2>2, <2>3, <2>4, <2>5, <2>6, <2>7, <2>8, <2>9, <2>10 DEF StartUpInv
<1> QED
    BY <1>1, <1>2, <1>3, <1>4, <1>5 DEF SessionStep

(* The invariant behind the theorems below: what every session leaves on    *)
(* the disk, at whatever step it ends, is what a start-up can load.         *)
THEOREM StartUpInvariant == Spec => []StartUpInv
<1>1. StartUpInv /\ TypeOK' /\ [Next]_vars => StartUpInv'
  <2>1. StartUpInv /\ UNCHANGED vars => StartUpInv'
    BY DEF StartUpInv, TypeOK, IndexIsOfThisSession, DeletedHasLeftMetadata, MetadataIsWhole, DefaultIsFirst,
           LoaderAgreesWithDisk, MappingIsApproved, InternalNamesAreTaken, OnlyEngineErrorsStopStartUp,
           AcknowledgedContainersSurvive, ServedContainersAreWhole, MetadataKept, vars, disk, loader, history, bounds
  <2> QED
    BY <2>1, InvStartUp, InvSession DEF Next
<1> QED
    BY <1>1, InvInit, TypeCorrect, PTL DEF Spec

(* Unless the container of all names was removed, only an error of an       *)
(* engine during the start-up itself makes a start-up fail.                *)
THEOREM StartUpCorrect == Spec => []OnlyEngineErrorsStopStartUp
BY StartUpInvariant, PTL DEF StartUpInv

(* A container whose creation was answered is there after any number of     *)
(* crashes and restarts, until somebody asks for its removal.              *)
THEOREM DurabilityCorrect == Spec => []AcknowledgedContainersSurvive
BY StartUpInvariant, PTL DEF StartUpInv

(* The index serves no container that misses a column family or an approval. *)
THEOREM ServiceCorrect == Spec => []ServedContainersAreWhole
BY StartUpInvariant, PTL DEF StartUpInv
-------------------------------------------------------------------------------
(* A start-up as a whole.                                                  *)

Starting == stage \in {"metadata", "structured", "create", "put", "load"}

(* Until the index is built nothing is approved but what was found. *)
ApprovedIsFound ==
    Starting => \A n \in Containers, p \in Partitions : <<n, p>> \in approved => n \in families[p]

(* ApprovedIsFound is inductive. *)
LEMMA ApprovedIsFoundStep == ApprovedIsFound /\ [Next]_vars => ApprovedIsFound'
<1> SUFFICES ASSUME ApprovedIsFound, [Next]_vars, Starting',
                    NEW n \in Containers, NEW p \in Partitions, <<n, p>> \in approved'
             PROVE  n \in families'[p]
    BY DEF ApprovedIsFound
<1> USE InternalNames, PartitionNumbers DEF disk, loader, history, bounds, Starting
<1>1. CASE Launch
    BY <1>1 DEF Launch
<1>2. CASE BootMetadataPartition
    BY <1>2 DEF BootMetadataPartition
<1>3. ASSUME NEW q \in Partitions, BootStructuredPartition(q) PROVE n \in families'[p]
  <2>0. approved' = approved \cup (Listed(families[q]) \X {q}) /\ stage = "structured"
    BY <1>3 DEF BootStructuredPartition
  <2>1. \/ <<n, p>> \in approved
        \/ p = q /\ n \in Listed(families[q])
    BY <2>0
  <2>2. n \in families[p] \/ (p = q /\ n \in Listed(families[q]))
    BY <2>0, <2>1 DEF ApprovedIsFound
  <2> QED
    BY <1>3, <2>2 DEF BootStructuredPartition, Listed
<1>4. CASE BeginLoad
    BY <1>4 DEF BeginLoad, ApprovedIsFound
<1>5. CASE CreateMetadataFamily
    BY <1>5 DEF CreateMetadataFamily, ApprovedIsFound
<1>6. CASE RegisterDefault
    BY <1>6 DEF RegisterDefault, ApprovedIsFound
<1>7. CASE LoadContainerIndex \/ FailLoad \/ FailBoot \/ Crash
    BY <1>7 DEF LoadContainerIndex, FailLoad, FailBoot, Crash, ProcessDies
<1>8. CASE SessionStep
  <2>1. stage' \in {"running", "down"}
    BY <1>8 DEF SessionStep, CreateContainer, CreateInstances, RemoveContainer, AbandonCreation,
           CollectContainer, CollectMetadataContainers, ProcessDies
  <2> QED
    BY <2>1
<1>9. CASE UNCHANGED vars
    BY <1>9 DEF vars, ApprovedIsFound
<1> QED
    BY <1>1, <1>2, <1>3, <1>4, <1>5, <1>6, <1>7, <1>8, <1>9 DEF Next, StartUpStep

(* What the loader builds for clients' containers is what is on the disk. *)
LEMMA LoadedIsOnDisk ==
    ASSUME StartUpInv, LoadContainerIndex, NEW n \in Containers
    PROVE  index'[n] = StateOnDisk(n)
<1> USE InternalNames, PartitionNumbers
<1>1. stage = "load" /\ index' = LoadedIndex
    BY DEF LoadContainerIndex
<1>2. \A p \in Partitions : registry[p] = families[p]
    BY <1>1 DEF StartUpInv, LoaderAgreesWithDisk
<1>3. n \notin FromMetadataPartition
    BY DEF StartUpInv, TypeOK, FromMetadataPartition, IndexedAs, MetadataFamilies
<1>4. n \in OrphanedContainers <=> OnDisk(n) /\ n \notin metadata
    BY <1>2 DEF OrphanedContainers, Discovered, OnDisk
<1>5. LoadedIndex[n] = IF n \in metadata THEN "active" ELSE IF n \in OrphanedContainers THEN "deleted" ELSE "absent"
    BY <1>3 DEF LoadedIndex
<1> QED
    BY <1>1, <1>4, <1>5 DEF StateOnDisk

(* Only the last step of a start-up gets the process running. *)
LEMMA OnlyLoadingRuns == [Next]_vars /\ stage # "running" /\ stage' = "running" => LoadContainerIndex
<1> SUFFICES ASSUME [Next]_vars, stage # "running", ~ LoadContainerIndex PROVE stage' # "running"
    OBVIOUS
<1>1. CASE StartUpStep
    BY <1>1 DEF StartUpStep, Launch, BootMetadataPartition, BootStructuredPartition, BeginLoad,
           CreateMetadataFamily, RegisterDefault, FailLoad
<1>2. CASE FailBoot \/ Crash \/ UNCHANGED vars
    BY <1>2 DEF FailBoot, Crash, ProcessDies, vars
<1>3. ~ SessionStep
    BY DEF SessionStep, CreateContainer, CreateInstances, RemoveContainer, AbandonCreation,
           CollectContainer, CollectMetadataContainers
<1> QED
    BY <1>1, <1>2, <1>3 DEF Next

(* The steps of a start-up, taken together, serve of the clients' containers *)
(* what is on the disk, and approve its families and no others: the one     *)
(* step ContainerLifecycle takes for all of them is what they amount to.   *)
THEOREM DiskIsServed == Spec => StartServesTheDisk
<1>1. StartUpInv /\ ApprovedIsFound /\ [Next]_vars =>
        [stage # "running" /\ stage' = "running" => \A n \in Containers :
            /\ index'[n] = StateOnDisk(n)
            /\ \A p \in Partitions : <<n, p>> \in approved' <=> n \in families[p]]_vars
  <2> SUFFICES ASSUME StartUpInv, ApprovedIsFound, [Next]_vars, stage # "running", stage' = "running",
                      NEW n \in Containers
               PROVE  /\ index'[n] = StateOnDisk(n)
                      /\ \A p \in Partitions : <<n, p>> \in approved' <=> n \in families[p]
    OBVIOUS
  <2>1. LoadContainerIndex
    BY OnlyLoadingRuns
  <2>2. approved' = approved /\ stage = "load"
    BY <2>1 DEF LoadContainerIndex
  <2>3. \A p \in Partitions : n \in families[p] => <<n, p>> \in approved
    BY <2>2 DEF StartUpInv, LoaderAgreesWithDisk
  <2>4. \A p \in Partitions : <<n, p>> \in approved => n \in families[p]
    BY <2>2 DEF ApprovedIsFound, Starting
  <2> QED
    BY <2>1, <2>2, <2>3, <2>4, LoadedIsOnDisk
<1>2. Init => ApprovedIsFound
    BY DEF Init, ApprovedIsFound, Starting
<1>3. Spec => []ApprovedIsFound
    BY <1>2, ApprovedIsFoundStep, PTL DEF Spec
<1> QED
    BY <1>1, <1>3, StartUpInvariant, PTL DEF Spec, StartServesTheDisk

-------------------------------------------------------------------------------
(* The life of a name.                                                     *)

(* All that ContainerNames rules out. *)
LEMMA ForbiddenMoves ==
    ASSUME NEW x \in Name!States, NEW y \in Name!States,
           ~ (x = "active" /\ y = "absent"), ~ (x = "deleted" /\ y = "active")
    PROVE  y = x \/ <<x, y>> \in Name!Moves
BY DEF Name!States, Name!Moves, Name!Create, Name!Remove, Name!Collect, Name!Abandon

(* A name always stands for one of the three states. *)
LEMMA StatesType == TypeOK => ContainerStates \in [Containers -> Name!States]
BY InternalNames DEF TypeOK, ContainerStates, StateOf, StateOnDisk, Name!States

(* Until the index is built, a start-up leaves the containers of clients on *)
(* the disk as they are.                                                   *)
LEMMA BootKeepsDisk ==
    ASSUME StartUpInv, StartUpStep \/ FailBoot \/ Crash, ~ LoadContainerIndex, NEW n \in Containers,
           stage # "running"
    PROVE  stage' # "running" /\ StateOnDisk(n)' = StateOnDisk(n)
<1> USE InternalNames, PartitionNumbers DEF disk, loader, history, bounds
<1>1. stage' # "running"
    BY OnlyLoadingRuns DEF Next
<1>2. CASE Launch \/ BeginLoad \/ FailLoad \/ FailBoot \/ Crash
    BY <1>1, <1>2 DEF Launch, BeginLoad, FailLoad, FailBoot, Crash, StateOnDisk, OnDisk
<1>3. CASE BootMetadataPartition \/ CreateMetadataFamily
    BY <1>1, <1>3 DEF BootMetadataPartition, CreateMetadataFamily, StateOnDisk, OnDisk
<1>4. ASSUME NEW p \in Partitions, BootStructuredPartition(p)
      PROVE  StateOnDisk(n)' = StateOnDisk(n)
  <2>1. metadata' = metadata /\ \A q \in Partitions : n \in families'[q] <=> n \in families[q]
    BY <1>4 DEF BootStructuredPartition, Listed, StartUpInv, TypeOK
  <2> QED
    BY <2>1 DEF StateOnDisk, OnDisk
<1>5. CASE RegisterDefault
    BY <1>1, <1>5 DEF RegisterDefault, StateOnDisk, OnDisk
<1> QED
    BY <1>1, <1>2, <1>3, <1>4, <1>5 DEF StartUpStep

(* What a session may end with: a container that is served leaves something *)
(* on the disk, and what awaits the collector has no key in the metadata.  *)
LEMMA SessionKeepsNames ==
    ASSUME StartUpInv, TypeOK', SessionStep \/ Crash, stage = "running", NEW n \in Containers
    PROVE  ~ (StateOf(n) = "active" /\ StateOf(n)' = "absent")
           /\ ~ (StateOf(n) = "deleted" /\ StateOf(n)' = "active")
<1> USE InternalNames, PartitionNumbers DEF disk, loader, history, bounds
<1>t. TypeOK /\ StateOf(n) = index[n]
    BY DEF StartUpInv, StateOf
<1>a. index[n] = "active" => \A p \in Partitions : n \in families[p]
    BY DEF StartUpInv, ServedContainersAreWhole
<1>d. index[n] = "deleted" => n \notin metadata
    BY DEF StartUpInv, DeletedHasLeftMetadata
<1>r. ASSUME stage' = "running",
             ~ (index[n] = "active" /\ index'[n] = "absent"),
             ~ (index[n] = "deleted" /\ index'[n] = "active")
      PROVE  ~ (StateOf(n) = "active" /\ StateOf(n)' = "absent")
             /\ ~ (StateOf(n) = "deleted" /\ StateOf(n)' = "active")
    BY <1>r, <1>t DEF StateOf
<1>e. ASSUME stage' = "down",
             index[n] = "active" => \A p \in Partitions : n \in families'[p],
             index[n] = "deleted" => n \notin metadata'
      PROVE  ~ (StateOf(n) = "active" /\ StateOf(n)' = "absent")
             /\ ~ (StateOf(n) = "deleted" /\ StateOf(n)' = "active")
    BY <1>e, <1>t DEF StateOf, StateOnDisk, OnDisk
<1>x. ASSUME NEW m, NEW k \in 0 .. NumPartitions, NEW p \in Partitions
      PROVE  /\ n \in families[p] => n \in Extended(m, k)[p]
             /\ m # n /\ n \in families[p] => n \in Reduced(m, k)[p]
    BY DEF Extended, Reduced
<1>n. NumPartitions \in 0 .. NumPartitions
    BY NumPartitionsAssumption
<1>1. ASSUME NEW m \in Requests, CreateContainer(m)
      PROVE  ~ (StateOf(n) = "active" /\ StateOf(n)' = "absent")
             /\ ~ (StateOf(n) = "deleted" /\ StateOf(n)' = "active")
  <2>1. /\ index[m] = "absent" /\ families' = Extended(m, NumPartitions)
        /\ metadata' = metadata \cup {m}
        /\ \/ stage' = "running" /\ index' = [index EXCEPT ![m] = "active"]
           \/ stage' = "down"
    BY <1>1 DEF CreateContainer, CreateInstances, ProcessDies
  <2>2. CASE stage' = "running"
    BY <1>r, <1>t, <2>1, <2>2 DEF TypeOK
  <2>3. CASE stage' = "down"
    BY <1>a, <1>d, <1>e, <1>n, <1>x, <2>1, <2>3
  <2> QED
    BY <2>1, <2>2, <2>3
<1>2. ASSUME NEW m \in Requests, NEW k \in 0 .. NumPartitions, AbandonCreation(m, k)
      PROVE  ~ (StateOf(n) = "active" /\ StateOf(n)' = "absent")
             /\ ~ (StateOf(n) = "deleted" /\ StateOf(n)' = "active")
  <2>1. /\ families' = Extended(m, k) /\ metadata' = metadata
        /\ (stage' = "running" /\ index' = index) \/ stage' = "down"
    BY <1>2 DEF AbandonCreation, CreateInstances, ProcessDies
  <2>2. CASE stage' = "running"
    BY <1>r, <2>1, <2>2
  <2>3. CASE stage' = "down"
    BY <1>a, <1>d, <1>e, <1>x, <2>1, <2>3
  <2> QED
    BY <2>1, <2>2, <2>3
<1>3. ASSUME NEW m \in Requests, RemoveContainer(m)
      PROVE  ~ (StateOf(n) = "active" /\ StateOf(n)' = "absent")
             /\ ~ (StateOf(n) = "deleted" /\ StateOf(n)' = "active")
  <2>1. /\ index[m] = "active" /\ families' = families /\ metadata' \subseteq metadata
        /\ \/ stage' = "running" /\ (index' = [index EXCEPT ![m] = "deleted"] \/ index' = index)
           \/ stage' = "down"
    BY <1>3 DEF RemoveContainer, ProcessDies
  <2>2. CASE stage' = "running"
    BY <1>r, <1>t, <2>1, <2>2 DEF TypeOK
  <2>3. CASE stage' = "down"
    BY <1>a, <1>d, <1>e, <2>1, <2>3
  <2> QED
    BY <2>1, <2>2, <2>3
<1>4. ASSUME NEW m \in Names, CollectContainer(m)
      PROVE  ~ (StateOf(n) = "active" /\ StateOf(n)' = "absent")
             /\ ~ (StateOf(n) = "deleted" /\ StateOf(n)' = "active")
  <2>1. PICK k \in 0 .. NumPartitions :
        /\ index[m] = "deleted" /\ families' = Reduced(m, k) /\ metadata' = metadata
        /\ \/ stage' = "running" /\ (index' = [index EXCEPT ![m] = "absent"] \/ index' = index)
           \/ stage' = "down"
    BY <1>4 DEF CollectContainer, ProcessDies
  <2>2. CASE stage' = "running"
    BY <1>r, <1>t, <2>1, <2>2 DEF TypeOK
  <2>3. CASE stage' = "down"
    BY <1>a, <1>d, <1>e, <1>x, <2>1, <2>3
  <2> QED
    BY <2>1, <2>2, <2>3
<1>5. CASE CollectMetadataContainers
  <2>1. /\ families' = families /\ metadata' \subseteq metadata
        /\ \/ stage' = "running" /\ index'[n] = index[n]
           \/ stage' = "down"
    BY <1>5, <1>t DEF CollectMetadataContainers, ProcessDies, TypeOK
  <2>2. CASE stage' = "running"
    BY <1>r, <2>1, <2>2
  <2>3. CASE stage' = "down"
    BY <1>a, <1>d, <1>e, <2>1, <2>3
  <2> QED
    BY <2>1, <2>2, <2>3
<1>6. CASE Crash
  <2>1. stage' = "down" /\ UNCHANGED <<families, metadata>>
    BY <1>6 DEF Crash, ProcessDies
  <2> QED
    BY <1>a, <1>d, <1>e, <2>1
<1> QED
    BY <1>1, <1>2, <1>3, <1>4, <1>5, <1>6 DEF SessionStep

(* Every step moves the names of clients' containers along ContainerNames. *)
LEMMA NamesStep == StartUpInv /\ TypeOK' /\ [Next]_vars => [Name!Next]_ContainerStates
<1> SUFFICES ASSUME StartUpInv, TypeOK', [Next]_vars PROVE Name!Next
    OBVIOUS
<1>t. /\ ContainerStates \in [Containers -> Name!States]
      /\ (ContainerStates \in [Containers -> Name!States])'
    BY StatesType, PTL DEF StartUpInv
<1> SUFFICES ASSUME NEW n \in Containers
             PROVE  StateOf(n)' = StateOf(n) \/ <<StateOf(n), StateOf(n)'>> \in Name!Moves
    BY <1>t DEF Name!Next, ContainerStates
<1>s. StateOf(n) \in Name!States /\ StateOf(n)' \in Name!States
    BY <1>t DEF ContainerStates
<1>1. CASE stage = "running" /\ (SessionStep \/ Crash)
    BY <1>1, <1>s, SessionKeepsNames, ForbiddenMoves
<1>2. CASE LoadContainerIndex
  <2>1. stage = "load" /\ stage' = "running"
    BY <1>2 DEF LoadContainerIndex
  <2> QED
    BY <1>2, <2>1, LoadedIsOnDisk DEF StateOf
<1>3. CASE stage # "running" /\ (StartUpStep \/ FailBoot \/ Crash) /\ ~ LoadContainerIndex
    BY <1>3, BootKeepsDisk DEF StateOf
<1>4. SessionStep => stage = "running"
    BY DEF SessionStep, CreateContainer, CreateInstances, RemoveContainer, AbandonCreation,
           CollectContainer, CollectMetadataContainers
<1>5. StartUpStep \/ FailBoot => stage # "running"
    BY DEF StartUpStep, FailBoot, Launch, BootMetadataPartition, BootStructuredPartition, BeginLoad,
           CreateMetadataFamily, RegisterDefault, LoadContainerIndex, FailLoad
<1>6. CASE UNCHANGED vars
    BY <1>6 DEF vars, disk, StateOf, StateOnDisk, OnDisk
<1> QED
    BY <1>1, <1>2, <1>3, <1>4, <1>5, <1>6 DEF Next

(* Through any number of sessions and start-ups that stop at any step, a     *)
(* container that awaits the collector is never served again, and one that *)
(* is served goes in no other way.                                         *)
THEOREM NamesCorrect == Spec => ImplementsNames
<1>1. Init => Name!Init
    BY DEF Init, NothingFound, Name!Init, ContainerStates, StateOf, StateOnDisk, OnDisk
<1> QED
    BY <1>1, NamesStep, StartUpInvariant, TypeCorrect, PTL DEF Spec, ImplementsNames, Name!Spec
===============================================================================
