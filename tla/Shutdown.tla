------------------------------- MODULE Shutdown -------------------------------
(***************************************************************************)
(* The life of the process: the threads start_data_store starts, the       *)
(* signal handler, and the destruction of the data store, which joins the  *)
(* threads one after the other while the others still run.                 *)
(*                                                                         *)
(* What a thread does with a request is the subject of ContainerLifecycle  *)
(* and ObjectPath; here it is the members a step reads.  A thread that     *)
(* reads a member after its destruction may go on, or take the process     *)
(* down, or never come back.                                               *)
(***************************************************************************)
EXTENDS Integers, Sequences

CONSTANTS
    NumPartitions,  \* k_number_collocations
    MaxRequests,    \* requests clients send (a bound)
    MaxSignals      \* termination signals (a bound)

Partitions == 0 .. NumPartitions - 1

ASSUME NumPartitionsAssumption == NumPartitions \in Nat \ {0}
ASSUME BoundsAssumption == MaxRequests \in Nat /\ MaxSignals \in Nat

VARIABLES
    main,        \* what the main thread does
    alive,       \* how many of the members are not destroyed
    context,     \* what is left of the threading context of a partition
    quitting,    \* the event loop of the HTTP server was told to quit
    stop,        \* stop_source
    handler,     \* the call the signal handler is about to make
    collector,   \* garbage_collector_thread_
    serializer,  \* the thread of container_operations_serializer_
    operations,  \* container requests posted to it
    writer,      \* write_dispatcher_master_thread_ of a partition
    writes,      \* write_io_tasks_queue_, by its length
    reader,      \* a thread of read_io_thread_pool_; one stands for all
    reads,       \* get requests posted to it
    requests, signals

process == <<main, alive, context>>
stopping == <<quitting, stop, handler, signals>>
background == <<collector, serializer, operations>>
dispatching == <<writer, writes, reader, reads>>
vars == <<process, stopping, background, dispatching, requests>>

(* The members of pandora_db that others refer to, in declaration order. *)
DeclaredProviderLast ==
    <<"metadata_partition", "threading_context_provider", "data_partition_provider",
      "container_management_service", "garbage_collector",
      "container_index", "frontline_cache", "cache_accessor">>

Declared ==
    <<"metadata_partition", "data_partition_provider", "threading_context_provider",
      "container_management_service", "garbage_collector",
      "container_index", "frontline_cache", "cache_accessor">>

Alive == {Declared[i] : i \in 1 .. alive}

Over == main \in {"ended", "died"}

(* Every variable keeps its type. *)
TypeOK ==
    /\ main \in {"boot", "collector", "dispatchers", "server", "serving", "returning", "ended", "died"}
    /\ alive \in 0 .. Len(Declared)
    /\ context \in [Partitions -> {"whole", "reading", "pool", "gone"}]
    /\ quitting \in BOOLEAN /\ stop \in BOOLEAN
    /\ handler \in {"none", "quit", "stop"}
    /\ collector \in {"none", "checking", "collecting", "sleeping", "left"}
    /\ serializer \in {"idle", "executing"}
    /\ operations \in 0 .. MaxRequests
    /\ writer \in [Partitions -> {"none", "checking", "waiting", "engine", "cache", "left"}]
    /\ writes \in [Partitions -> 0 .. MaxRequests]
    /\ reader \in [Partitions -> {"idle", "engine", "cache"}]
    /\ reads \in [Partitions -> 0 .. MaxRequests]
    /\ requests \in 0 .. MaxRequests
    /\ signals \in 0 .. MaxSignals

Init ==
    /\ main = "boot"
    /\ alive = Len(Declared)
    /\ context = [p \in Partitions |-> "whole"]
    /\ quitting = FALSE /\ stop = FALSE /\ handler = "none"
    /\ collector = "none" /\ serializer = "idle" /\ operations = 0
    /\ writer = [p \in Partitions |-> "none"] /\ writes = [p \in Partitions |-> 0]
    /\ reader = [p \in Partitions |-> "idle"] /\ reads = [p \in Partitions |-> 0]
    /\ requests = 0 /\ signals = 0

-------------------------------------------------------------------------------
(* The main thread: start_data_store, then the destructor of pandora_db. *)

BootStorage ==
    /\ main = "boot"
    /\ main' \in {"collector", "returning"}
    /\ UNCHANGED <<alive, context, stopping, background, dispatching, requests>>

(* Mutant: the server runs before the dispatchers are started. *)
StartCollectorThenServer ==
    /\ main = "collector"
    /\ collector' = "checking"
    /\ main' = "server"
    /\ UNCHANGED <<alive, context, stopping, serializer, operations, dispatching, requests>>

StartCollector ==
    /\ main = "collector"
    /\ collector' = "checking"
    /\ main' = "dispatchers"
    /\ UNCHANGED <<alive, context, stopping, serializer, operations, dispatching, requests>>

StartDispatchers ==
    /\ main = "dispatchers"
    /\ writer' = [p \in Partitions |-> "checking"]
    /\ main' = "server"
    /\ UNCHANGED <<alive, context, stopping, background, writes, reader, reads, requests>>

(* drogon::app().run() returns once its loop was told to quit. *)
RunServer ==
    /\ \/ main = "server" /\ main' = "serving"
       \/ main = "serving" /\ quitting /\ main' = "returning"
    /\ UNCHANGED <<alive, context, stopping, background, dispatching, requests>>

Destroying(m) == main = "returning" /\ alive > 0 /\ Declared[alive] = m

(* A context loses its write dispatcher, then the executor of its read     *)
(* dispatcher, and the read pool last.                                     *)
(* The destructor of a thread pool drops what is posted, and waits for what *)
(* is executing; that of a jthread waits for the thread to leave its loop.  *)
DestroyContext(p) ==
    /\ Destroying("threading_context_provider")
    /\ \A q \in Partitions : q < p => context[q] = "gone"
    /\ \/ /\ context[p] = "whole"
          /\ writer[p] \in {"none", "left"}
          /\ writes' = [writes EXCEPT ![p] = 0]
          /\ context' = [context EXCEPT ![p] = "reading"]
          /\ UNCHANGED reads
       \/ /\ context[p] = "reading"
          /\ context' = [context EXCEPT ![p] = "pool"]
          /\ UNCHANGED <<writes, reads>>
       \/ /\ context[p] = "pool"
          /\ reader[p] = "idle"
          /\ reads' = [reads EXCEPT ![p] = 0]
          /\ context' = [context EXCEPT ![p] = "gone"]
          /\ UNCHANGED writes
    /\ UNCHANGED <<main, alive, stopping, background, writer, reader, requests>>

DestroyMember ==
    /\ main = "returning" /\ alive > 0
    /\ Destroying("garbage_collector") => collector \in {"none", "left"}
    /\ Destroying("container_management_service") => serializer = "idle"
    /\ Destroying("threading_context_provider") => \A p \in Partitions : context[p] = "gone"
    /\ operations' = IF Destroying("container_management_service") THEN 0 ELSE operations
    /\ alive' = alive - 1
    /\ UNCHANGED <<main, context, stopping, collector, serializer, dispatching, requests>>

ReturnFromMain ==
    /\ main = "returning" /\ alive = 0
    /\ main' = "ended"
    /\ UNCHANGED <<alive, context, stopping, background, dispatching, requests>>

-------------------------------------------------------------------------------
(* signal_handler, on whichever thread the signal interrupts. *)

ReceiveSignal ==
    /\ ~ Over
    /\ handler = "none" /\ signals < MaxSignals
    /\ handler' = "quit"
    /\ signals' = signals + 1
    /\ UNCHANGED <<process, quitting, stop, background, dispatching, requests>>

(* Mutant: the handler is content with the server. *)
QuitServerOnly ==
    /\ ~ Over /\ handler = "quit"
    /\ quitting' = (quitting \/ main = "serving")
    /\ handler' = "none"
    /\ UNCHANGED <<process, stop, signals, background, dispatching, requests>>

(* drogon::app().quit() does nothing unless the event loop is running. *)
QuitServer ==
    /\ ~ Over /\ handler = "quit"
    /\ quitting' = (quitting \/ main = "serving")
    /\ handler' = "stop"
    /\ UNCHANGED <<process, stop, signals, background, dispatching, requests>>

RequestStop ==
    /\ ~ Over /\ handler = "stop"
    /\ stop' = TRUE
    /\ handler' = "none"
    /\ UNCHANGED <<process, quitting, signals, background, dispatching, requests>>

-------------------------------------------------------------------------------
(* HTTP threads hand a request to its thread while the event loop runs. *)
AcceptRequest ==
    /\ main = "serving"
    /\ requests < MaxRequests
    /\ requests' = requests + 1
    /\ \/ /\ operations' = operations + 1
          /\ UNCHANGED <<writes, reads>>
       \/ \E p \in Partitions :
             /\ \/ writes' = [writes EXCEPT ![p] = @ + 1] /\ UNCHANGED reads
                \/ reads' = [reads EXCEPT ![p] = @ + 1] /\ UNCHANGED writes
             /\ UNCHANGED operations
    /\ UNCHANGED <<process, stopping, collector, serializer, writer, reader>>

(* Mutant: nothing but the end of its interval ends the sleep. *)
CollectorSleepsOn ==
    /\ ~ Over
    /\ \/ collector = "checking" /\ collector' = IF stop THEN "left" ELSE "collecting"
       \/ collector = "collecting" /\ collector' = "sleeping"
    /\ UNCHANGED <<process, stopping, serializer, operations, dispatching, requests>>

(* execute_garbage_collection.  A stop request ends the sleep at once, also *)
(* one that was made before the sleep began.                               *)
CollectorStep ==
    /\ ~ Over
    /\ \/ collector = "checking" /\ collector' = IF stop THEN "left" ELSE "collecting"
       \/ collector = "collecting" /\ collector' = "sleeping"
       \/ collector = "sleeping" /\ stop /\ collector' = "left"
    /\ UNCHANGED <<process, stopping, serializer, operations, dispatching, requests>>

(* The interval of the sleep is over; the sleeper looks at the stop token   *)
(* once more before it returns.                                            *)
EndInterval ==
    /\ ~ Over
    /\ collector = "sleeping" /\ collector' = IF stop THEN "left" ELSE "checking"
    /\ UNCHANGED <<process, stopping, serializer, operations, dispatching, requests>>

SerializerStep ==
    /\ ~ Over
    /\ \/ /\ serializer = "idle" /\ operations > 0
          /\ ~ Destroying("container_management_service")
          /\ serializer' = "executing" /\ operations' = operations - 1
       \/ serializer = "executing" /\ serializer' = "idle" /\ UNCHANGED operations
    /\ UNCHANGED <<process, stopping, collector, dispatching, requests>>

(* dispatch_write_io_tasks: the wait ends with a task, or after a second. *)
WriterGoes(p, to) == writer' = [writer EXCEPT ![p] = to]

TakeWrite(p) ==
    /\ writer[p] = "waiting"
    /\ \/ /\ writes[p] > 0
          /\ WriterGoes(p, "engine")
          /\ writes' = [writes EXCEPT ![p] = @ - 1]
       \/ writes[p] = 0 /\ WriterGoes(p, "checking") /\ UNCHANGED writes

WriterStep(p) ==
    /\ ~ Over
    /\ \/ writer[p] = "checking" /\ WriterGoes(p, IF stop THEN "left" ELSE "waiting") /\ UNCHANGED writes
       \/ TakeWrite(p)
       \/ writer[p] = "engine" /\ writer' \in {[writer EXCEPT ![p] = s] : s \in {"cache", "checking"}}
             /\ UNCHANGED writes
       \/ writer[p] = "cache" /\ WriterGoes(p, "checking") /\ UNCHANGED writes
    /\ UNCHANGED <<process, stopping, background, reader, reads, requests>>

(* A read that failed is answered and fills no cache. *)
ReaderStep(p) ==
    /\ ~ Over
    /\ \/ /\ reader[p] = "idle" /\ reads[p] > 0
          /\ ~ (Destroying("threading_context_provider") /\ context[p] = "pool")
          /\ reader' = [reader EXCEPT ![p] = "engine"]
          /\ reads' = [reads EXCEPT ![p] = @ - 1]
       \/ reader[p] = "engine" /\ reader' \in {[reader EXCEPT ![p] = s] : s \in {"cache", "idle"}}
             /\ UNCHANGED reads
       \/ reader[p] = "cache" /\ reader' = [reader EXCEPT ![p] = "idle"] /\ UNCHANGED reads
    /\ UNCHANGED <<process, stopping, background, writer, writes, requests>>

-------------------------------------------------------------------------------
(* Who reads a member.  Whatever holds a container will close its handles:  *)
(* the index, the queues, and the requests in execution.                   *)

Engines == {"metadata_partition", "data_partition_provider"}
Caching == {"cache_accessor", "frontline_cache", "container_index"}

ReadByRequests(phase) ==
    CASE phase = "engine" -> Engines
      [] phase = "cache" -> Engines \cup Caching
      [] OTHER -> {}

InUse ==
    (IF collector = "collecting" THEN Engines \cup {"container_index"} ELSE {})
    \cup (IF serializer = "executing" THEN Engines \cup {"container_index"} ELSE {})
    \cup UNION {ReadByRequests(writer[p]) \cup ReadByRequests(reader[p]) : p \in Partitions}
    \cup (IF \E p \in Partitions : writes[p] + reads[p] > 0 THEN Engines ELSE {})
    \cup (IF "container_index" \in Alive THEN Engines ELSE {})

(* A read also calls its read_io_executor, which goes before the pool. *)
Dangling ==
    \/ ~ (InUse \subseteq Alive)
    \/ \E p \in Partitions : reader[p] = "engine" /\ context[p] \in {"pool", "gone"}

Die ==
    /\ Dangling /\ ~ Over
    /\ main' = "died"
    /\ UNCHANGED <<alive, context, stopping, background, dispatching, requests>>

-------------------------------------------------------------------------------
MainStep ==
    \/ BootStorage \/ StartCollector \/ StartDispatchers \/ RunServer
    \/ \E p \in Partitions : DestroyContext(p)
    \/ DestroyMember \/ ReturnFromMain

HandlerStep == QuitServer \/ RequestStop

Next ==
    \/ MainStep
    \/ ReceiveSignal \/ HandlerStep
    \/ AcceptRequest
    \/ CollectorStep \/ EndInterval \/ SerializerStep
    \/ \E p \in Partitions : WriterStep(p) \/ ReaderStep(p)
    \/ Die

Spec == Init /\ [][Next]_vars

(* The scheduler runs every thread, as long as none of them has met a       *)
(* member that is gone.  The interval of the collector's sleep may be of    *)
(* any length: nothing is to wait for its end.                              *)
FairSpec ==
    /\ Spec
    /\ WF_vars(~ Dangling /\ MainStep)
    /\ WF_vars(~ Dangling /\ HandlerStep)
    /\ WF_vars(~ Dangling /\ CollectorStep)
    /\ WF_vars(~ Dangling /\ SerializerStep)
    /\ \A p \in Partitions :
          WF_vars(~ Dangling /\ WriterStep(p)) /\ WF_vars(~ Dangling /\ ReaderStep(p))

-------------------------------------------------------------------------------
(* The engines are destroyed when no thread will call them any more and no  *)
(* container is left that would close a handle: neither in the index, nor   *)
(* in a queue nobody serves, nor with a request that is being executed.     *)
(* The index and the cache have no such property: they go first, and        *)
(* threads that are not joined yet may still read them.                    *)
PartitionsOutliveTheirUsers == InUse \cap Engines \subseteq Alive

(* Whoever destroys the data store joins its threads without a time limit,  *)
(* and the main thread may begin while the signal handler is still between  *)
(* its two calls: as long as there is a thread to join, it has been told to *)
(* leave, or the handler is about to tell it.  A start-up that failed       *)
(* before its threads were started has nobody to join.                     *)
JoinsAreAnnounced ==
    main = "returning" =>
        \/ stop \/ handler = "stop"
        \/ collector = "none" /\ \A p \in Partitions : writer[p] = "none"

(* Until a stop is requested the writer of each partition empties its       *)
(* queue; after that, what is queued may be dropped without an answer.     *)
WritesAreServedUntilStop ==
    \A p \in Partitions : (writes[p] > 0) ~> (writes[p] = 0 \/ stop \/ Over \/ Dangling)

(* A signal that finds the server running ends the process, in spite of all *)
(* joins: each loop sees the stop request, and the sleeping collector is    *)
(* woken by it, so that the end does not wait for its interval.             *)
SignalEndsTheProcess ==
    (main = "serving" /\ handler = "quit") ~> (Over \/ Dangling)
===============================================================================
