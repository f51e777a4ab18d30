--------------------------- MODULE EngineReferences ---------------------------
(***************************************************************************)
(* The handles of one storage engine and the table that fences them.       *)
(* approved_references_ is a concurrent_flat_map from the address of a     *)
(* column family handle to nothing.  The serializer creates a handle and   *)
(* approves it later; the thread that drops the last reference to a        *)
(* container closes its handle, which checks the fence, frees the handle,  *)
(* and takes its address out of the table, in three calls.  An address     *)
(* that is free may be the address of the next handle.                     *)
(***************************************************************************)
EXTENDS ConcurrentFlatMap

CONSTANTS
    Creator,   \* the thread of container_operation_serializer
    Closers,   \* threads that destroy containers
    Observers, \* threads that read a map of this class
    Observed,  \* ... and the operations they use
    Monostate  \* std::monostate

Addresses == Keys

ASSUME ThreadsAssumption ==
    /\ Threads = {Creator} \cup Closers \cup Observers
    /\ Observers \cap ({Creator} \cup Closers) = {}
ASSUME ObservedAssumption == Observed \subseteq (SingleKey \ Modifying) \cup WholeMap
ASSUME MonostateAssumption == Values = {Monostate}

VARIABLES
    handle,  \* heap: whether there is a handle at an address
    owned,   \* addresses of handles that an indexed container owns
    job,     \* what a thread does with a handle
    reused   \* history: handles whose address was being closed when they got it

vars == <<mapVars, handle, owned, job, reused>>

NoJob == [pc |-> "none"]
Job(pc, a) == [pc |-> pc, address |-> a]
Jobs == [pc : {"created", "approving", "fencing", "fenced", "freed", "erasing"}, address : Addresses]

(* Every variable keeps its type. *)
TypeOK ==
    /\ MapTypeOK
    /\ handle \in [Addresses -> {"free", "open"}]
    /\ owned \in SUBSET Addresses
    /\ job \in [Threads -> Jobs \cup {NoJob}]
    /\ reused \in SUBSET Addresses

Init ==
    /\ MapInit
    /\ handle = [a \in Addresses |-> "free"]
    /\ owned = {}
    /\ job = [t \in Threads |-> NoJob]
    /\ reused = {}

Working(pcs) == {a \in Addresses : \E t \in Closers : job[t].pc \in pcs /\ job[t].address = a}

(* create_container: the allocator gives any address that is free. *)
CreateHandle(a) ==
    /\ job[Creator] = NoJob
    /\ handle[a] = "free"
    /\ handle' = [handle EXCEPT ![a] = "open"]
    /\ job' = [job EXCEPT ![Creator] = Job("created", a)]
    /\ reused' = IF a \in Working({"freed", "erasing"}) THEN reused \cup {a} ELSE reused \ {a}
    /\ UNCHANGED <<mapVars, owned>>

(* Mutant: the container is indexed before its reference is approved. *)
IndexUnapproved ==
    /\ job[Creator].pc = "created"
    /\ owned' = owned \cup {job[Creator].address}
    /\ job' = [job EXCEPT ![Creator] = NoJob]
    /\ UNCHANGED <<mapVars, handle, reused>>

(* register_approved_engine_references, before the container is indexed. *)
ApproveReference ==
    /\ job[Creator].pc = "created"
    /\ Begin(Creator, "insert", job[Creator].address, Monostate)
    /\ job' = [job EXCEPT ![Creator].pc = "approving"]
    /\ UNCHANGED <<handle, owned, reused>>

IndexContainer ==
    /\ job[Creator].pc = "approving"
    /\ Return(Creator)
    /\ owned' = owned \cup {job[Creator].address}
    /\ job' = [job EXCEPT ![Creator] = NoJob]
    /\ UNCHANGED <<handle, reused>>

(* close_container_storage_engine_reference, on a container nobody refers to. *)
BeginClose(t, a) ==
    /\ job[t] = NoJob
    /\ a \in owned
    /\ owned' = owned \ {a}
    /\ Begin(t, "exists", a, Monostate)
    /\ job' = [job EXCEPT ![t] = Job("fencing", a)]
    /\ UNCHANGED <<handle, reused>>

PassFence(t) ==
    /\ job[t].pc = "fencing"
    /\ Return(t)
    /\ job' = [job EXCEPT ![t] = IF call[t].seen # {} THEN [@ EXCEPT !.pc = "fenced"] ELSE NoJob]
    /\ UNCHANGED <<handle, owned, reused>>

(* DestroyColumnFamilyHandle; when it fails, handle and approval stay. *)
DestroyHandle(t) ==
    /\ job[t].pc = "fenced"
    /\ \/ /\ handle' = [handle EXCEPT ![job[t].address] = "free"]
          /\ job' = [job EXCEPT ![t].pc = "freed"]
       \/ /\ job' = [job EXCEPT ![t] = NoJob]
          /\ UNCHANGED handle
    /\ UNCHANGED <<mapVars, owned, reused>>

(* Mutant: the approval of a closed handle is not taken back. *)
EraseNothing(t) ==
    /\ job[t].pc = "freed"
    /\ job' = [job EXCEPT ![t] = NoJob]
    /\ UNCHANGED <<mapVars, handle, owned, reused>>

EraseReference(t) ==
    /\ job[t].pc = "freed"
    /\ Begin(t, "erase", job[t].address, Monostate)
    /\ job' = [job EXCEPT ![t].pc = "erasing"]
    /\ UNCHANGED <<handle, owned, reused>>

FinishClose(t) ==
    /\ job[t].pc = "erasing"
    /\ Return(t)
    /\ job' = [job EXCEPT ![t] = NoJob]
    /\ UNCHANGED <<handle, owned, reused>>

(* The fence of a request asks whether a reference is approved; the buckets *)
(* of the index use the other operations of the class.                     *)
Observe(t) ==
    /\ \/ \E op \in Observed \ WholeMap, a \in Addresses : Begin(t, op, a, Monostate)
       \/ \E op \in Observed \cap WholeMap : Begin(t, op, CHOOSE a \in Addresses : TRUE, Monostate)
       \/ Return(t)
    /\ UNCHANGED <<handle, owned, job, reused>>

RunCall(t) == MapStep(t) /\ UNCHANGED <<handle, owned, job, reused>>

Next ==
    \/ \E a \in Addresses : CreateHandle(a)
    \/ ApproveReference \/ IndexContainer
    \/ \E t \in Closers :
          \/ \E a \in Addresses : BeginClose(t, a)
          \/ PassFence(t) \/ DestroyHandle(t) \/ EraseReference(t) \/ FinishClose(t)
    \/ \E t \in Observers : Observe(t)
    \/ \E t \in Threads : RunCall(t)

Spec == Init /\ [][Next]_vars

-------------------------------------------------------------------------------
(* The fence lets the requests of an indexed container pass: its reference  *)
(* stays approved, whatever other handles are opened and closed meanwhile. *)
(* The exception is a handle at the address of another one that had been   *)
(* freed, but not yet taken out of the table: that close then takes out    *)
(* the approval of the new handle.                                         *)
OwnedReferencesAreApproved ==
    \A a \in owned \ reused : handle[a] = "open" /\ table[a] # NoValue

(* The fence stops a reference whose handle was destroyed: an address that  *)
(* is approved and free is one some thread is just taking out of the table. *)
ApprovedReferencesAreOpen ==
    \A a \in Addresses :
        table[a] # NoValue => handle[a] = "open" \/ a \in Working({"freed", "erasing"})
===============================================================================
