---------------------------- MODULE ShutdownProofs ----------------------------
(* Proofs about Shutdown for every number of partitions, requests and       *)
(* signals.                                                                *)
EXTENDS Shutdown, TLAPS

-------------------------------------------------------------------------------
(* The inductive invariant. *)

Leaving == main \in {"returning", "ended", "died"}

(* Members are destroyed after start_data_store has returned. *)
DestructionComesLast ==
    /\ alive < Len(Declared) => Leaving
    /\ \A p \in Partitions : context[p] # "whole" => Leaving

(* A queue holds no more than what the clients have sent. *)
QueuesHoldRequests ==
    /\ operations <= requests
    /\ \A p \in Partitions : writes[p] <= requests /\ reads[p] <= requests

(* A member that owns threads leaves none behind, and no work for them. *)
ThreadsAreJoined ==
    /\ alive < 5 => collector \in {"none", "left"}
    /\ alive < 4 => serializer = "idle" /\ operations = 0
    /\ alive < 3 => \A p \in Partitions : context[p] = "gone"

(* So do the two halves of a threading context, in their order. *)
ContextsAreJoined ==
    \A p \in Partitions :
        /\ context[p] # "whole" => writer[p] \in {"none", "left"} /\ writes[p] = 0
        /\ context[p] = "gone" => reader[p] = "idle" /\ reads[p] = 0

ShutdownInv ==
    /\ TypeOK
    /\ DestructionComesLast
    /\ QueuesHoldRequests
    /\ ThreadsAreJoined
    /\ ContextsAreJoined
-------------------------------------------------------------------------------
(* The members in their order of declaration. *)
LEMMA MembersInOrder ==
    /\ Len(Declared) = 8
    /\ Declared[1] = "metadata_partition"
    /\ Declared[2] = "data_partition_provider"
    /\ Declared[3] = "threading_context_provider"
    /\ Declared[4] = "container_management_service"
    /\ Declared[5] = "garbage_collector"
    /\ Declared[6] = "container_index"
    /\ Declared[7] = "frontline_cache"
    /\ Declared[8] = "cache_accessor"
BY DEF Declared

(* The engines are there until all but the first member are destroyed, and  *)
(* the index goes before them.                                             *)
LEMMA EnginesAreAlive ==
    ASSUME alive \in 0 .. Len(Declared)
    PROVE  /\ alive >= 2 => Engines \subseteq Alive
           /\ "container_index" \in Alive => alive >= 6
<1>1. alive >= 2 => Engines \subseteq Alive
    <2>1. ASSUME alive >= 2
          PROVE  Declared[1] \in Alive /\ Declared[2] \in Alive
        BY <2>1 DEF Alive
    <2> QED
        BY <2>1, MembersInOrder DEF Engines
<1>2. ASSUME "container_index" \in Alive
      PROVE  alive >= 6
    <2>1. PICK i \in 1 .. alive : Declared[i] = "container_index"
        BY <1>2 DEF Alive
    <2>2. i \in 1 .. 8
        BY <2>1, MembersInOrder
    <2>3. i \notin {1, 2, 3, 4, 5}
        BY <2>1, MembersInOrder
    <2> QED
        BY <2>2, <2>3
<1> QED
    BY <1>1, <1>2

(* The joins leave nobody who would call an engine that is gone. *)
LEMMA JoinedMeansUnused == ShutdownInv => PartitionsOutliveTheirUsers
<1> SUFFICES ASSUME ShutdownInv, InUse \cap Engines # {}
             PROVE  Engines \subseteq Alive
    BY DEF PartitionsOutliveTheirUsers
<1> USE DEF ShutdownInv
<1>1. alive \in 0 .. Len(Declared) /\ alive \in 0 .. 8
    BY MembersInOrder DEF TypeOK
<1>2. CASE alive >= 2
    BY <1>1, <1>2, EnginesAreAlive
<1>3. CASE alive < 2
    <2>1. /\ collector # "collecting" /\ serializer # "executing"
          /\ "container_index" \notin Alive
        BY <1>1, <1>3, EnginesAreAlive DEF ThreadsAreJoined
    <2>2. \A p \in Partitions : context[p] = "gone"
        BY <1>1, <1>3 DEF ThreadsAreJoined
    <2>3. \A p \in Partitions :
             /\ writer[p] \in {"none", "left"} /\ writes[p] = 0
             /\ reader[p] = "idle" /\ reads[p] = 0
        BY <2>2 DEF ContextsAreJoined
    <2>4. \A p \in Partitions : ReadByRequests(writer[p]) = {} /\ ReadByRequests(reader[p]) = {}
        BY <2>3 DEF ReadByRequests
    <2>5. UNION {ReadByRequests(writer[p]) \cup ReadByRequests(reader[p]) : p \in Partitions} = {}
        BY <2>4
    <2>6. ~ \E p \in Partitions : writes[p] + reads[p] > 0
        BY <2>3
    <2>7. InUse = {}
        BY <2>1, <2>5, <2>6 DEF InUse
    <2> QED
        BY <2>7
<1> QED
    BY <1>1, <1>2, <1>3
-------------------------------------------------------------------------------
(* The invariant holds when the process starts. *)
LEMMA InitShutdown == Init => ShutdownInv
<1> SUFFICES ASSUME Init
             PROVE  ShutdownInv
    OBVIOUS
<1> USE BoundsAssumption, MembersInOrder DEF Init
<1>1. TypeOK
    <2>1. /\ main \in {"boot"} /\ alive \in 0 .. Len(Declared) /\ requests \in 0 .. MaxRequests
          /\ signals \in 0 .. MaxSignals /\ operations \in 0 .. MaxRequests
        OBVIOUS
    <2>2. /\ writer \in [Partitions -> {"none"}] /\ reader \in [Partitions -> {"idle"}]
          /\ context \in [Partitions -> {"whole"}]
          /\ writes \in [Partitions -> 0 .. MaxRequests] /\ reads \in [Partitions -> 0 .. MaxRequests]
        OBVIOUS
    <2> QED
        BY <2>1, <2>2 DEF TypeOK
<1>2. DestructionComesLast /\ QueuesHoldRequests
    BY DEF DestructionComesLast, QueuesHoldRequests
<1>3. ThreadsAreJoined /\ ContextsAreJoined
    BY DEF ThreadsAreJoined, ContextsAreJoined
<1> QED
    BY <1>1, <1>2, <1>3 DEF ShutdownInv

(* What destroys something, and what hands work to the threads, is told     *)
(* apart from what the threads do.                                         *)
LEMMA MainKeeps == ShutdownInv /\ MainStep => ShutdownInv'
<1> SUFFICES ASSUME ShutdownInv, MainStep
             PROVE  ShutdownInv'
    OBVIOUS
<1> USE BoundsAssumption, MembersInOrder
        DEF ShutdownInv, process, stopping, background, dispatching
<1>1. CASE BootStorage
    <2>1. TypeOK'
        BY <1>1 DEF TypeOK, BootStorage
    <2> QED
        BY <1>1, <2>1 DEF BootStorage, DestructionComesLast, Leaving, QueuesHoldRequests,
                          ThreadsAreJoined, ContextsAreJoined
<1>2. CASE StartCollector
    <2>1. TypeOK'
        BY <1>2 DEF TypeOK, StartCollector
    <2>2. alive = 8 /\ \A p \in Partitions : context[p] = "whole"
        BY <1>2 DEF StartCollector, DestructionComesLast, Leaving, TypeOK
    <2> QED
        BY <1>2, <2>1, <2>2 DEF StartCollector, DestructionComesLast, Leaving, QueuesHoldRequests,
                                ThreadsAreJoined, ContextsAreJoined
<1>3. CASE StartDispatchers
    <2>1. TypeOK'
        BY <1>3 DEF TypeOK, StartDispatchers
    <2>2. alive = 8 /\ \A p \in Partitions : context[p] = "whole"
        BY <1>3 DEF StartDispatchers, DestructionComesLast, Leaving, TypeOK
    <2> QED
        BY <1>3, <2>1, <2>2 DEF StartDispatchers, DestructionComesLast, Leaving, QueuesHoldRequests,
                                ThreadsAreJoined, ContextsAreJoined
<1>4. CASE RunServer
    <2>1. TypeOK'
        BY <1>4 DEF TypeOK, RunServer
    <2> QED
        BY <1>4, <2>1 DEF RunServer, DestructionComesLast, Leaving, QueuesHoldRequests,
                          ThreadsAreJoined, ContextsAreJoined
<1>5. ASSUME NEW p \in Partitions, DestroyContext(p)
      PROVE  ShutdownInv'
    <2>0. main = "returning" /\ alive = 3
        <3>1. main = "returning" /\ alive \in 1 .. 8 /\ Declared[alive] = "threading_context_provider"
            BY <1>5 DEF DestroyContext, Destroying, TypeOK
        <3>2. \A i \in {1, 2, 4, 5, 6, 7, 8} : Declared[i] # "threading_context_provider"
            OBVIOUS
        <3>3. alive \in {1, 2, 4, 5, 6, 7, 8} \/ alive = 3
            BY <3>1
        <3> QED
            BY <3>1, <3>2, <3>3
    <2>1. TypeOK'
        BY <1>5 DEF TypeOK, DestroyContext
    <2>2. DestructionComesLast' /\ ThreadsAreJoined'
        BY <1>5, <2>0 DEF DestroyContext, DestructionComesLast, Leaving, ThreadsAreJoined
    <2>3. QueuesHoldRequests'
        BY <1>5 DEF DestroyContext, QueuesHoldRequests, TypeOK
    <2>4. ContextsAreJoined'
        BY <1>5 DEF DestroyContext, ContextsAreJoined, TypeOK
    <2> QED
        BY <2>1, <2>2, <2>3, <2>4
<1>6. CASE DestroyMember
    <2>0. main = "returning" /\ alive \in 1 .. 8 /\ alive' = alive - 1
        BY <1>6 DEF DestroyMember, TypeOK
    <2>1. TypeOK'
        BY <1>6, <2>0 DEF TypeOK, DestroyMember
    <2>2. DestructionComesLast' /\ ContextsAreJoined'
        BY <1>6, <2>0 DEF DestroyMember, DestructionComesLast, Leaving, ContextsAreJoined
    <2>3. QueuesHoldRequests'
        BY <1>6 DEF DestroyMember, QueuesHoldRequests, TypeOK
    <2>4. alive' < 5 => collector' \in {"none", "left"}
        <3>1. CASE alive = 5
            BY <1>6, <3>1 DEF DestroyMember, Destroying
        <3>2. CASE alive < 5
            BY <1>6, <3>2 DEF DestroyMember, ThreadsAreJoined
        <3> QED
            BY <2>0, <3>1, <3>2
    <2>5. alive' < 4 => serializer' = "idle" /\ operations' = 0
        <3>1. CASE alive = 4
            BY <1>6, <3>1 DEF DestroyMember, Destroying
        <3>2. CASE alive < 4
            BY <1>6, <3>2 DEF DestroyMember, ThreadsAreJoined
        <3> QED
            BY <2>0, <3>1, <3>2
    <2>6. alive' < 3 => \A p \in Partitions : context'[p] = "gone"
        <3>1. CASE alive = 3
            BY <1>6, <3>1 DEF DestroyMember, Destroying
        <3>2. CASE alive < 3
            BY <1>6, <3>2 DEF DestroyMember, ThreadsAreJoined
        <3> QED
            BY <2>0, <3>1, <3>2
    <2> QED
        BY <2>1, <2>2, <2>3, <2>4, <2>5, <2>6 DEF ThreadsAreJoined
<1>7. CASE ReturnFromMain
    <2>1. TypeOK'
        BY <1>7 DEF TypeOK, ReturnFromMain
    <2> QED
        BY <1>7, <2>1 DEF ReturnFromMain, DestructionComesLast, Leaving, QueuesHoldRequests,
                          ThreadsAreJoined, ContextsAreJoined
<1> QED
    BY <1>1, <1>2, <1>3, <1>4, <1>5, <1>6, <1>7 DEF MainStep

(* Signals and requests come while the members they reach are there. *)
LEMMA EventsKeep ==
    ShutdownInv /\ (ReceiveSignal \/ HandlerStep \/ AcceptRequest \/ Die) => ShutdownInv'
<1> SUFFICES ASSUME ShutdownInv, ReceiveSignal \/ HandlerStep \/ AcceptRequest \/ Die
             PROVE  ShutdownInv'
    OBVIOUS
<1> USE BoundsAssumption, MembersInOrder
        DEF ShutdownInv, process, stopping, background, dispatching
<1>1. CASE ReceiveSignal
    <2>1. TypeOK'
        BY <1>1 DEF TypeOK, ReceiveSignal
    <2> QED
        BY <1>1, <2>1 DEF ReceiveSignal, DestructionComesLast, Leaving, QueuesHoldRequests,
                          ThreadsAreJoined, ContextsAreJoined
<1>2. CASE HandlerStep
    <2>1. TypeOK'
        <3>1. quitting' \in BOOLEAN /\ stop' \in BOOLEAN /\ handler' \in {"none", "quit", "stop"}
            BY <1>2 DEF TypeOK, HandlerStep, QuitServer, RequestStop
        <3>2. UNCHANGED <<process, signals, background, dispatching, requests>>
            BY <1>2 DEF HandlerStep, QuitServer, RequestStop
        <3> QED
            BY <3>1, <3>2 DEF TypeOK
    <2> QED
        BY <1>2, <2>1 DEF HandlerStep, QuitServer, RequestStop, DestructionComesLast, Leaving,
                          QueuesHoldRequests, ThreadsAreJoined, ContextsAreJoined
<1>3. CASE AcceptRequest
    <2>1. /\ requests \in 0 .. MaxRequests /\ requests' = requests + 1 /\ requests' \in 0 .. MaxRequests
          /\ \A p \in Partitions : writes[p] \in 0 .. MaxRequests /\ reads[p] \in 0 .. MaxRequests
          /\ operations \in 0 .. MaxRequests
        BY <1>3 DEF AcceptRequest, TypeOK
    <2>2. /\ operations' = operations \/ operations' = operations + 1
          /\ \A p \in Partitions :
                /\ writes'[p] = writes[p] \/ writes'[p] = writes[p] + 1
                /\ reads'[p] = reads[p] \/ reads'[p] = reads[p] + 1
        BY <1>3 DEF AcceptRequest, TypeOK
    <2>3. /\ writes' = [p \in Partitions |-> writes'[p]]
          /\ reads' = [p \in Partitions |-> reads'[p]]
        BY <1>3 DEF AcceptRequest, TypeOK
    <2>4. QueuesHoldRequests'
        BY <2>1, <2>2 DEF QueuesHoldRequests
    <2>5. /\ operations' \in 0 .. MaxRequests
          /\ \A p \in Partitions : writes'[p] \in 0 .. MaxRequests /\ reads'[p] \in 0 .. MaxRequests
        BY <2>1, <2>2 DEF QueuesHoldRequests
    <2>6. writes' \in [Partitions -> 0 .. MaxRequests] /\ reads' \in [Partitions -> 0 .. MaxRequests]
        BY <2>3, <2>5
    <2>7. TypeOK'
        BY <1>3, <2>1, <2>5, <2>6 DEF TypeOK, AcceptRequest
    <2>8. alive = 8 /\ \A p \in Partitions : context[p] = "whole"
        BY <1>3 DEF AcceptRequest, DestructionComesLast, Leaving, TypeOK
    <2> QED
        BY <1>3, <2>4, <2>7, <2>8 DEF AcceptRequest, DestructionComesLast, Leaving,
                                      ThreadsAreJoined, ContextsAreJoined
<1>4. CASE Die
    <2>1. TypeOK'
        BY <1>4 DEF TypeOK, Die
    <2> QED
        BY <1>4, <2>1 DEF Die, DestructionComesLast, Leaving, QueuesHoldRequests,
                          ThreadsAreJoined, ContextsAreJoined
<1> QED
    BY <1>1, <1>2, <1>3, <1>4

(* A thread that has left its loop, or has no work, does not come back. *)
LEMMA ThreadsKeep ==
    ASSUME ShutdownInv,
           \/ CollectorStep \/ EndInterval \/ SerializerStep
           \/ \E p \in Partitions : WriterStep(p) \/ ReaderStep(p)
    PROVE  ShutdownInv'
<1> USE BoundsAssumption, MembersInOrder
        DEF ShutdownInv, process, stopping, background, dispatching
<1>1. CASE CollectorStep \/ EndInterval
    <2>1. TypeOK'
        BY <1>1 DEF TypeOK, CollectorStep, EndInterval
    <2> QED
        BY <1>1, <2>1 DEF CollectorStep, EndInterval, DestructionComesLast, Leaving, QueuesHoldRequests,
                          ThreadsAreJoined, ContextsAreJoined
<1>2. CASE SerializerStep
    <2>1. TypeOK'
        BY <1>2 DEF TypeOK, SerializerStep
    <2>2. QueuesHoldRequests'
        BY <1>2 DEF SerializerStep, QueuesHoldRequests, TypeOK
    <2>3. alive < 4 => serializer' = "idle" /\ operations' = 0
        BY <1>2 DEF SerializerStep, ThreadsAreJoined
    <2> QED
        BY <1>2, <2>1, <2>2, <2>3 DEF SerializerStep, DestructionComesLast, Leaving,
                                      ThreadsAreJoined, ContextsAreJoined
<1>3. ASSUME NEW p \in Partitions, WriterStep(p)
      PROVE  ShutdownInv'
    <2> USE DEF WriterStep, TakeWrite, WriterGoes
    <2>1. TypeOK'
        BY <1>3 DEF TypeOK
    <2>2. QueuesHoldRequests'
        BY <1>3 DEF QueuesHoldRequests, TypeOK
    <2>3. ContextsAreJoined'
        BY <1>3 DEF ContextsAreJoined, TypeOK
    <2> QED
        BY <1>3, <2>1, <2>2, <2>3 DEF DestructionComesLast, Leaving, ThreadsAreJoined
<1>4. ASSUME NEW p \in Partitions, ReaderStep(p)
      PROVE  ShutdownInv'
    <2>1. TypeOK'
        BY <1>4 DEF TypeOK, ReaderStep
    <2>2. QueuesHoldRequests'
        BY <1>4 DEF QueuesHoldRequests, TypeOK, ReaderStep
    <2>3. ContextsAreJoined'
        BY <1>4 DEF ContextsAreJoined, TypeOK, ReaderStep
    <2> QED
        BY <1>4, <2>1, <2>2, <2>3 DEF DestructionComesLast, Leaving, ThreadsAreJoined, ReaderStep
<1> QED
    BY <1>1, <1>2, <1>3, <1>4

(* ShutdownInv is an invariant of the process. *)
THEOREM ShutdownInvariant == Spec => []ShutdownInv
<1>1. ShutdownInv /\ [Next]_vars => ShutdownInv'
    <2> SUFFICES ASSUME ShutdownInv, [Next]_vars
                 PROVE  ShutdownInv'
        OBVIOUS
    <2>1. CASE MainStep
        BY <2>1, MainKeeps
    <2>2. CASE ReceiveSignal \/ HandlerStep \/ AcceptRequest \/ Die
        BY <2>2, EventsKeep
    <2>3. CASE CollectorStep \/ EndInterval \/ SerializerStep
        BY <2>3, ThreadsKeep
    <2>4. CASE \E p \in Partitions : WriterStep(p) \/ ReaderStep(p)
        BY <2>4, ThreadsKeep
    <2>5. CASE UNCHANGED vars
        BY <2>5 DEF vars, process, stopping, background, dispatching, ShutdownInv, TypeOK,
                    DestructionComesLast, Leaving, QueuesHoldRequests, ThreadsAreJoined, ContextsAreJoined
    <2> QED
        BY <2>1, <2>2, <2>3, <2>4, <2>5 DEF Next
<1> QED
    BY InitShutdown, <1>1, PTL DEF Spec

(* Every variable of the process keeps its type: no queue grows past what   *)
(* clients sent, and a wait that timed out takes nothing from it.          *)
THEOREM TypeCorrect == Spec => []TypeOK
<1>1. ShutdownInv => TypeOK
    BY DEF ShutdownInv
<1> QED
    BY ShutdownInvariant, <1>1, PTL

(* The destruction order of pandora_db and its threading contexts keeps the *)
(* engines until nothing calls them or closes a handle of theirs.          *)
THEOREM EnginesGoLast == Spec => []PartitionsOutliveTheirUsers
BY ShutdownInvariant, JoinedMeansUnused, PTL
-------------------------------------------------------------------------------
(* The joins come to an end.                                               *)

(* The event loop only leaves for a handler that then requests the stop,    *)
(* and start_data_store does not pass over the threads it starts.          *)
HandlersGoOn ==
    /\ quitting => stop \/ handler = "stop"
    /\ main = "returning" /\ ~ quitting
            => collector = "none" /\ \A p \in Partitions : writer[p] = "none"
    /\ main \in {"boot", "collector"} => collector = "none"
    /\ main \in {"boot", "collector", "dispatchers"}
            => \A p \in Partitions : writer[p] = "none"

(* HandlersGoOn is inductive. *)
LEMMA HandlersKeep == HandlersGoOn /\ [Next]_vars => HandlersGoOn'
<1> SUFFICES ASSUME HandlersGoOn, [Next]_vars
             PROVE  HandlersGoOn'
    OBVIOUS
<1> USE DEF HandlersGoOn, process, stopping, background, dispatching
<1>1. CASE BootStorage \/ StartCollector \/ StartDispatchers \/ RunServer
    BY <1>1 DEF BootStorage, StartCollector, StartDispatchers, RunServer
<1>2. CASE DestroyMember \/ ReturnFromMain \/ \E p \in Partitions : DestroyContext(p)
    BY <1>2 DEF DestroyMember, ReturnFromMain, DestroyContext
<1>3. CASE ReceiveSignal \/ AcceptRequest \/ Die
    BY <1>3 DEF ReceiveSignal, AcceptRequest, Die
<1>7. CASE HandlerStep
    <2>1. stop' \/ handler' = "stop"
        BY <1>7 DEF HandlerStep, QuitServer, RequestStop
    <2>2. quitting => quitting'
        BY <1>7 DEF HandlerStep, QuitServer, RequestStop
    <2>3. UNCHANGED <<main, collector, writer>>
        BY <1>7 DEF HandlerStep, QuitServer, RequestStop
    <2> QED
        BY <2>1, <2>2, <2>3
<1>4. CASE CollectorStep \/ EndInterval \/ SerializerStep
    BY <1>4 DEF CollectorStep, EndInterval, SerializerStep
<1>5. ASSUME NEW p \in Partitions, WriterStep(p) \/ ReaderStep(p)
      PROVE  HandlersGoOn'
    <2>1. UNCHANGED <<main, quitting, stop, handler, collector>>
        BY <1>5 DEF WriterStep, ReaderStep
    <2>2. (\A q \in Partitions : writer[q] = "none") => writer' = writer
        BY <1>5 DEF WriterStep, TakeWrite, ReaderStep
    <2> QED
        BY <2>1, <2>2
<1>6. CASE UNCHANGED vars
    BY <1>6 DEF vars
<1> QED
    BY <1>1, <1>2, <1>3, <1>4, <1>5, <1>6, <1>7 DEF Next, MainStep

(* The destructor of the data store never joins a thread that nobody tells  *)
(* to leave, for any number of partitions and signals.                     *)
THEOREM JoinsCorrect == Spec => []JoinsAreAnnounced
<1>1. Init => HandlersGoOn
    BY DEF Init, HandlersGoOn
<1>2. HandlersGoOn => JoinsAreAnnounced
    BY DEF HandlersGoOn, JoinsAreAnnounced
<1> QED
    BY <1>1, <1>2, HandlersKeep, PTL DEF Spec
===============================================================================
