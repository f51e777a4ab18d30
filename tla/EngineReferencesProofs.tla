------------------------ MODULE EngineReferencesProofs ------------------------
(* Proofs about EngineReferences for every value of its constants: the      *)
(* fence of a storage engine, on top of the atomicity of its table.        *)
EXTENDS EngineReferences, ConcurrentFlatMapProofs

-------------------------------------------------------------------------------
(* The inductive invariant. *)

(* The call of a thread is the one its job has made. *)
CallsBelongToJobs ==
    \A t \in Threads :
        /\ job[t].pc \in {"none", "created", "fenced", "freed"} /\ t \notin Observers => call[t] = NotCalled
        /\ job[t].pc = "approving" => call[t].op = "insert" /\ call[t].key = job[t].address
        /\ job[t].pc = "fencing" => call[t].op = "exists" /\ call[t].key = job[t].address
        /\ job[t].pc = "erasing" => call[t].op = "erase" /\ call[t].key = job[t].address
        /\ job[t].pc \in {"created", "approving"} => t = Creator
        /\ job[t].pc \notin {"none", "created", "approving"} => t \in Closers
        /\ t \in Observers => job[t] = NoJob /\ call[t].op \notin Modifying

(* A handle has one owner: the creation that made it, the indexed container, *)
(* or the one thread that closes it.                                       *)
HandlesHaveOneOwner ==
    /\ \A a \in owned : handle[a] = "open"
    /\ \A t \in Threads : job[t].pc \in {"created", "approving", "fencing", "fenced"} =>
          /\ handle[job[t].address] = "open"
          /\ job[t].address \notin owned
          /\ \A u \in Threads \ {t} : job[u].pc \in {"created", "approving", "fencing", "fenced"} =>
                job[u].address # job[t].address

(* Whose erasure has not taken effect. *)
ErasureIsPending(t, a) ==
    /\ job[t].pc \in {"freed", "erasing"} /\ job[t].address = a
    /\ job[t].pc = "freed" \/ call[t].pc \in {"lock", "execute"}

ApprovalsAreFollowed ==
    \A a \in Addresses :
        table[a] # NoValue => handle[a] = "open" \/ \E t \in Closers : ErasureIsPending(t, a)

(* An open handle that is not reused has no erasure ahead of it. *)
ReuseIsKnown ==
    \A a \in Addresses : handle[a] = "open" /\ a \notin reused => a \notin Working({"freed", "erasing"})

(* A creation goes on once its approval is in the table. *)
CreationApproves ==
    job[Creator].pc = "approving" /\ call[Creator].pc \in {"unlock", "done"}
        /\ job[Creator].address \notin reused => table[job[Creator].address] # NoValue

EngineInv ==
    /\ TypeOK /\ MapInv
    /\ CallsBelongToJobs /\ HandlesHaveOneOwner
    /\ ApprovalsAreFollowed /\ ReuseIsKnown /\ CreationApproves
    /\ OwnedReferencesAreApproved

-------------------------------------------------------------------------------
(* The table of an engine is a concurrent_flat_map: every step is a step of *)
(* the map, or none.                                                       *)

(* Which threads there are, and that observers never modify the map. *)
LEMMA ThreadRoles ==
    /\ Creator \in Threads /\ Closers \subseteq Threads /\ Observers \subseteq Threads
    /\ Creator \notin Observers /\ Closers \cap Observers = {}
    /\ Monostate \in Values /\ Values = {Monostate}
    /\ Observed \subseteq SingleKey \cup WholeMap
    /\ Observed \cap Modifying = {}
BY ThreadsAssumption, ObservedAssumption, MonostateAssumption DEF SingleKey, WholeMap, Modifying

(* What the steps do to the map. *)
CallsMap(t) ==
    \/ Return(t)
    \/ \E op \in SingleKey \cup WholeMap, k \in Keys, v \in Values : Begin(t, op, k, v)

(* An observer does to the map what one of its threads may do. *)
LEMMA ObserveCalls == ASSUME NEW t \in Observers, Observe(t) PROVE CallsMap(t)
<1>1. (CHOOSE a \in Addresses : TRUE) \in Keys
    BY KeysAssumption DEF Addresses
<1> QED
    BY <1>1, ThreadRoles DEF Observe, CallsMap, Addresses

(* So does a step of a creation or of a close that calls the map. *)
LEMMA JobsCallMap ==
    ASSUME TypeOK
    PROVE  /\ ApproveReference => CallsMap(Creator)
           /\ IndexContainer => CallsMap(Creator)
           /\ \A t \in Closers :
                 /\ \A a \in Addresses : BeginClose(t, a) => CallsMap(t)
                 /\ PassFence(t) => CallsMap(t)
                 /\ EraseReference(t) => CallsMap(t)
                 /\ FinishClose(t) => CallsMap(t)
<1> USE ThreadRoles DEF CallsMap, Addresses, SingleKey
<1>1. ApproveReference => CallsMap(Creator)
  <2> SUFFICES ASSUME ApproveReference PROVE CallsMap(Creator)
    OBVIOUS
  <2>1. job[Creator].address \in Keys
    BY DEF ApproveReference, TypeOK, Jobs, NoJob
  <2> QED
    BY <2>1 DEF ApproveReference
<1>2. IndexContainer => CallsMap(Creator)
    BY DEF IndexContainer
<1>3. ASSUME NEW t \in Closers, NEW a \in Addresses, BeginClose(t, a) PROVE CallsMap(t)
    BY <1>3 DEF BeginClose
<1>4. ASSUME NEW t \in Closers, PassFence(t) PROVE CallsMap(t)
    BY <1>4 DEF PassFence
<1>5. ASSUME NEW t \in Closers, EraseReference(t) PROVE CallsMap(t)
  <2>1. job[t].address \in Keys
    BY <1>5 DEF EraseReference, TypeOK, Jobs, NoJob
  <2> QED
    BY <1>5, <2>1 DEF EraseReference
<1>6. ASSUME NEW t \in Closers, FinishClose(t) PROVE CallsMap(t)
    BY <1>6 DEF FinishClose
<1> QED
    BY <1>1, <1>2, <1>3, <1>4, <1>5, <1>6

(* Every step is one of the map's, or leaves the map alone. *)
LEMMA EngineStepsMap == TypeOK /\ [Next]_vars => [MapNext]_mapVars
<1> SUFFICES ASSUME TypeOK, [Next]_vars PROVE [MapNext]_mapVars
    OBVIOUS
<1>1. ASSUME NEW t \in Threads, CallsMap(t) PROVE MapNext
    BY <1>1 DEF CallsMap, MapNext
<1>2. ASSUME NEW t \in Threads, RunCall(t) PROVE MapNext
    BY <1>2 DEF RunCall, MapNext
<1>3. ASSUME NEW a \in Addresses, CreateHandle(a) PROVE UNCHANGED mapVars
    BY <1>3 DEF CreateHandle
<1>4. ASSUME NEW t \in Closers, DestroyHandle(t) PROVE UNCHANGED mapVars
    BY <1>4 DEF DestroyHandle
<1>5. CASE UNCHANGED vars
    BY <1>5 DEF vars, mapVars
<1> QED
    BY <1>1, <1>2, <1>3, <1>4, <1>5, JobsCallMap, ObserveCalls, ThreadRoles DEF Next

-------------------------------------------------------------------------------
(* Types. *)

(* The initial state has the right types. *)
LEMMA EngineTypeInit == Init => TypeOK
BY MapTypeInit DEF Init, TypeOK, NoJob

(* A thread that goes on with its handle keeps its address. *)
LEMMA JobUpdates ==
    ASSUME TypeOK, NEW t \in Threads, job[t].pc # "none",
           NEW pc \in {"created", "approving", "fencing", "fenced", "freed", "erasing"}
    PROVE  /\ [job[t] EXCEPT !.pc = pc] \in Jobs
           /\ job[t].address \in Addresses
           /\ [job[t] EXCEPT !.pc = pc].pc = pc
           /\ [job[t] EXCEPT !.pc = pc].address = job[t].address
BY DEF TypeOK, Jobs, NoJob

(* A step keeps the types of handles and jobs. *)
LEMMA EngineTypeStep == TypeOK /\ MapTypeOK' /\ [Next]_vars => TypeOK'
<1> SUFFICES ASSUME TypeOK, MapTypeOK', [Next]_vars PROVE TypeOK'
    OBVIOUS
<1> USE ThreadRoles DEF TypeOK
<1>j. \A pc \in {"created", "approving", "fencing", "fenced", "freed", "erasing"}, a \in Addresses : Job(pc, a) \in Jobs
    BY DEF Job, Jobs
<1>1. ASSUME NEW a \in Addresses, CreateHandle(a) PROVE TypeOK'
    BY <1>1, <1>j DEF CreateHandle
<1>2. CASE ApproveReference
    BY <1>2, JobUpdates DEF ApproveReference
<1>3. CASE IndexContainer
    BY <1>3, JobUpdates DEF IndexContainer
<1>4. ASSUME NEW t \in Closers, NEW a \in Addresses, BeginClose(t, a) PROVE TypeOK'
    BY <1>4, <1>j DEF BeginClose
<1>5. ASSUME NEW t \in Closers, PassFence(t) PROVE TypeOK'
    BY <1>5, JobUpdates DEF PassFence
<1>6. ASSUME NEW t \in Closers, DestroyHandle(t) PROVE TypeOK'
  <2>1. job[t].pc # "none" /\ job[t].address \in Addresses
    BY <1>6, JobUpdates DEF DestroyHandle
  <2>2. handle' \in [Addresses -> {"free", "open"}]
    BY <1>6, <2>1 DEF DestroyHandle
  <2>3. [job[t] EXCEPT !.pc = "freed"] \in Jobs
    BY <2>1, JobUpdates
  <2>4. job' \in [Threads -> Jobs \cup {NoJob}]
    BY <1>6, <2>3 DEF DestroyHandle
  <2> QED
    BY <1>6, <2>2, <2>4 DEF DestroyHandle
<1>7. ASSUME NEW t \in Closers, EraseReference(t) PROVE TypeOK'
    BY <1>7, JobUpdates DEF EraseReference
<1>8. ASSUME NEW t \in Closers, FinishClose(t) PROVE TypeOK'
    BY <1>8 DEF FinishClose
<1>9. ASSUME NEW t \in Observers, Observe(t) PROVE TypeOK'
    BY <1>9 DEF Observe
<1>10. ASSUME NEW t \in Threads, RunCall(t) PROVE TypeOK'
    BY <1>10 DEF RunCall
<1>11. CASE UNCHANGED vars
    BY <1>11 DEF vars
<1> QED
    BY <1>1, <1>2, <1>3, <1>4, <1>5, <1>6, <1>7, <1>8, <1>9, <1>10, <1>11 DEF Next

-------------------------------------------------------------------------------
(* The invariant. *)

(* Without handles the invariant holds. *)
LEMMA EngineInvInit == Init => EngineInv
<1> SUFFICES ASSUME Init PROVE EngineInv
    OBVIOUS
<1>1. TypeOK /\ MapInv
    BY EngineTypeInit, MapInvInit DEF Init
<1>2. CallsBelongToJobs /\ HandlesHaveOneOwner
    BY ThreadRoles DEF Init, CallsBelongToJobs, HandlesHaveOneOwner, NoJob, MapInit, NotCalled, Modifying
<1>3. ApprovalsAreFollowed /\ ReuseIsKnown /\ CreationApproves /\ OwnedReferencesAreApproved
    BY ThreadRoles DEF Init, ApprovalsAreFollowed, ReuseIsKnown, CreationApproves, OwnedReferencesAreApproved, NoJob,
       MapInit, Addresses
<1> QED
    BY <1>1, <1>2, <1>3 DEF EngineInv

(* Steps that make calls of the map, or none. *)
LEMMA EngineInvJobs ==
    ASSUME EngineInv, TypeOK', MapInv', Next,
           ~ \E t \in Threads : RunCall(t)
    PROVE  EngineInv'
<1> USE ThreadRoles DEF TypeOK, MapTypeOK, Jobs, NoJob, Job, NotCalled, Working, ErasureIsPending, Modifying, Addresses
<1>1. ASSUME NEW a \in Addresses, CreateHandle(a) PROVE EngineInv'
  <2> USE <1>1 DEF CreateHandle, mapVars
  <2>1. CallsBelongToJobs'
    BY DEF EngineInv, CallsBelongToJobs
  <2>2. HandlesHaveOneOwner'
    BY DEF EngineInv, HandlesHaveOneOwner
  <2>3. ApprovalsAreFollowed'
    BY DEF EngineInv, ApprovalsAreFollowed
  <2>4. ReuseIsKnown'
    BY DEF EngineInv, ReuseIsKnown
  <2>5. CreationApproves'
    BY DEF EngineInv, CreationApproves
  <2>6. OwnedReferencesAreApproved'
    BY DEF EngineInv, OwnedReferencesAreApproved, HandlesHaveOneOwner
  <2> QED
    BY <2>1, <2>2, <2>3, <2>4, <2>5, <2>6 DEF EngineInv
<1>2. CASE ApproveReference
  <2> USE <1>2 DEF ApproveReference, Begin
  <2>1. CallsBelongToJobs'
    BY DEF EngineInv, CallsBelongToJobs
  <2>2. HandlesHaveOneOwner'
    BY DEF EngineInv, HandlesHaveOneOwner
  <2>3. ApprovalsAreFollowed'
    BY DEF EngineInv, ApprovalsAreFollowed
  <2>4. ReuseIsKnown'
    BY DEF EngineInv, ReuseIsKnown
  <2>5. CreationApproves'
    BY DEF EngineInv, CreationApproves
  <2>6. OwnedReferencesAreApproved'
    BY DEF EngineInv, OwnedReferencesAreApproved
  <2> QED
    BY <2>1, <2>2, <2>3, <2>4, <2>5, <2>6 DEF EngineInv
<1>3. CASE IndexContainer
  <2> USE <1>3 DEF IndexContainer, Return
  <2>1. CallsBelongToJobs'
    BY DEF EngineInv, CallsBelongToJobs
  <2>2. HandlesHaveOneOwner'
    BY DEF EngineInv, HandlesHaveOneOwner
  <2>3. ApprovalsAreFollowed'
    BY DEF EngineInv, ApprovalsAreFollowed
  <2>4. ReuseIsKnown'
    BY DEF EngineInv, ReuseIsKnown
  <2>5. CreationApproves'
    BY DEF EngineInv, CreationApproves
  <2>6. OwnedReferencesAreApproved'
    BY DEF EngineInv, OwnedReferencesAreApproved, HandlesHaveOneOwner, CreationApproves
  <2> QED
    BY <2>1, <2>2, <2>3, <2>4, <2>5, <2>6 DEF EngineInv
<1>4. ASSUME NEW t \in Closers, NEW a \in Addresses, BeginClose(t, a) PROVE EngineInv'
  <2> USE <1>4 DEF BeginClose, Begin
  <2>1. CallsBelongToJobs'
    BY DEF EngineInv, CallsBelongToJobs
  <2>2. HandlesHaveOneOwner'
    BY DEF EngineInv, HandlesHaveOneOwner
  <2>3. ApprovalsAreFollowed'
    BY DEF EngineInv, ApprovalsAreFollowed
  <2>4. ReuseIsKnown'
    BY DEF EngineInv, ReuseIsKnown
  <2>5. CreationApproves'
    BY DEF EngineInv, CreationApproves
  <2>6. OwnedReferencesAreApproved'
    BY DEF EngineInv, OwnedReferencesAreApproved
  <2> QED
    BY <2>1, <2>2, <2>3, <2>4, <2>5, <2>6 DEF EngineInv
<1>5. ASSUME NEW t \in Closers, PassFence(t) PROVE EngineInv'
  <2> USE <1>5 DEF PassFence, Return
  <2>1. CallsBelongToJobs'
    BY DEF EngineInv, CallsBelongToJobs
  <2>2. HandlesHaveOneOwner'
    BY DEF EngineInv, HandlesHaveOneOwner
  <2>3. ApprovalsAreFollowed'
    BY DEF EngineInv, ApprovalsAreFollowed
  <2>4. ReuseIsKnown'
    BY DEF EngineInv, ReuseIsKnown
  <2>5. CreationApproves'
    BY DEF EngineInv, CreationApproves
  <2>6. OwnedReferencesAreApproved'
    BY DEF EngineInv, OwnedReferencesAreApproved
  <2> QED
    BY <2>1, <2>2, <2>3, <2>4, <2>5, <2>6 DEF EngineInv
<1>6. ASSUME NEW t \in Closers, DestroyHandle(t) PROVE EngineInv'
  <2> USE <1>6 DEF DestroyHandle, mapVars
  <2>1. CallsBelongToJobs'
    BY DEF EngineInv, CallsBelongToJobs
  <2>2. HandlesHaveOneOwner'
    BY DEF EngineInv, HandlesHaveOneOwner
  <2>3. ApprovalsAreFollowed'
    BY DEF EngineInv, ApprovalsAreFollowed
  <2>4. ReuseIsKnown'
    BY DEF EngineInv, ReuseIsKnown
  <2>5. CreationApproves'
    BY DEF EngineInv, CreationApproves
  <2>6. OwnedReferencesAreApproved'
    BY DEF EngineInv, OwnedReferencesAreApproved, HandlesHaveOneOwner
  <2> QED
    BY <2>1, <2>2, <2>3, <2>4, <2>5, <2>6 DEF EngineInv
<1>7. ASSUME NEW t \in Closers, EraseReference(t) PROVE EngineInv'
  <2> USE <1>7 DEF EraseReference, Begin
  <2>1. CallsBelongToJobs'
    BY DEF EngineInv, CallsBelongToJobs
  <2>2. HandlesHaveOneOwner'
    BY DEF EngineInv, HandlesHaveOneOwner
  <2>3. ApprovalsAreFollowed'
    BY DEF EngineInv, ApprovalsAreFollowed
  <2>4. ReuseIsKnown'
    BY DEF EngineInv, ReuseIsKnown
  <2>5. CreationApproves'
    BY DEF EngineInv, CreationApproves
  <2>6. OwnedReferencesAreApproved'
    BY DEF EngineInv, OwnedReferencesAreApproved
  <2> QED
    BY <2>1, <2>2, <2>3, <2>4, <2>5, <2>6 DEF EngineInv
<1>8. ASSUME NEW t \in Closers, FinishClose(t) PROVE EngineInv'
  <2> USE <1>8 DEF FinishClose, Return
  <2>1. CallsBelongToJobs'
    BY DEF EngineInv, CallsBelongToJobs
  <2>2. HandlesHaveOneOwner'
    BY DEF EngineInv, HandlesHaveOneOwner
  <2>3. ApprovalsAreFollowed'
    BY DEF EngineInv, ApprovalsAreFollowed
  <2>4. ReuseIsKnown'
    BY DEF EngineInv, ReuseIsKnown
  <2>5. CreationApproves'
    BY DEF EngineInv, CreationApproves
  <2>6. OwnedReferencesAreApproved'
    BY DEF EngineInv, OwnedReferencesAreApproved
  <2> QED
    BY <2>1, <2>2, <2>3, <2>4, <2>5, <2>6 DEF EngineInv
<1>9. ASSUME NEW t \in Observers, Observe(t) PROVE EngineInv'
  <2> USE <1>9 DEF Observe, Begin, Return
  <2>1. CallsBelongToJobs'
    BY DEF EngineInv, CallsBelongToJobs
  <2>2. HandlesHaveOneOwner'
    BY DEF EngineInv, HandlesHaveOneOwner
  <2>3. ApprovalsAreFollowed'
    BY DEF EngineInv, ApprovalsAreFollowed
  <2>4. ReuseIsKnown'
    BY DEF EngineInv, ReuseIsKnown
  <2>5. CreationApproves'
    BY DEF EngineInv, CreationApproves
  <2>6. OwnedReferencesAreApproved'
    BY DEF EngineInv, OwnedReferencesAreApproved
  <2> QED
    BY <2>1, <2>2, <2>3, <2>4, <2>5, <2>6 DEF EngineInv
<1> QED
    BY <1>1, <1>2, <1>3, <1>4, <1>5, <1>6, <1>7, <1>8, <1>9 DEF Next

(* The steps of the map itself.  Only the execution of an insertion or an   *)
(* erasure changes the table, and each belongs to a job.                   *)
LEMMA EngineInvRun ==
    ASSUME EngineInv, TypeOK', MapInv', NEW t \in Threads, RunCall(t)
    PROVE  EngineInv'
<1> USE ThreadRoles DEF TypeOK, MapTypeOK, Jobs, NoJob, Addresses
<1>1. UNCHANGED <<handle, owned, job, reused>> /\ MapStep(t)
    BY DEF RunCall
<1>2. /\ \A u \in Threads : u # t => call'[u] = call[u]
      /\ call'[t].op = call[t].op /\ call'[t].key = call[t].key
      /\ call[t] # NotCalled /\ call[t].key \in Keys
  <2>1. MapTypeOK /\ call[t] # NotCalled
    BY <1>1 DEF EngineInv, MapStep, LockShardOfKey, LockNextShard, Execute, VisitNextShard, Unlock, NotCalled
  <2>2. call[t] \in Calls /\ call[t].key \in Keys
    BY <2>1, CallType
  <2> QED
    BY <1>1, <2>1, <2>2 DEF MapStep, LockShardOfKey, LockNextShard, Execute, VisitNextShard, Unlock, Calls, EngineInv
<1>3. \/ /\ ~ Execute(t) /\ table' = table
         /\ call[t].op \in SingleKey =>
              \/ call[t].pc = "lock" /\ call'[t].pc = "execute"
              \/ call[t].pc = "unlock" /\ call'[t].pc \in {"unlock", "done"}
      \/ /\ Execute(t) /\ call[t].pc = "execute" /\ call'[t].pc = "unlock"
         /\ call[t].op = "insert" => table' = [table EXCEPT ![call[t].key] = call[t].value]
         /\ call[t].op = "erase" => table' = [table EXCEPT ![call[t].key] = NoValue]
         /\ call[t].op \notin Modifying => table' = table
    BY <1>1 DEF MapStep, LockShardOfKey, LockNextShard, Execute, VisitNextShard, Unlock, EngineInv, Modifying,
       SingleKey, WholeMap, Calls, NotCalled
<1>4. CallsBelongToJobs'
    BY <1>1, <1>2 DEF EngineInv, CallsBelongToJobs
<1>5. HandlesHaveOneOwner'
    BY <1>1 DEF EngineInv, HandlesHaveOneOwner
<1>6. ReuseIsKnown'
    BY <1>1 DEF EngineInv, ReuseIsKnown, Working
<1>c. /\ call[t].op = "insert" =>
            /\ t = Creator /\ job[t].pc = "approving" /\ call[t].key = job[t].address
            /\ handle[call[t].key] = "open" /\ call[t].value \in Values
      /\ call[t].op = "erase" => t \in Closers /\ job[t].pc = "erasing" /\ call[t].key = job[t].address
  <2>1. call[t].op \in Modifying => t \notin Observers
    BY DEF EngineInv, CallsBelongToJobs
  <2>2. call[t].op \in Modifying => job[t].pc \in {"approving", "fencing", "erasing"}
    BY <1>2, <2>1 DEF EngineInv, CallsBelongToJobs
  <2>3. call[t].value \in Values
    BY <1>2, CallType DEF EngineInv
  <2> QED
    BY <2>2, <2>3 DEF EngineInv, CallsBelongToJobs, HandlesHaveOneOwner, Modifying
<1>d. \A a \in Addresses : table'[a] # table[a] =>
        /\ call[t].op \in Modifying /\ a = call[t].key /\ Execute(t)
        /\ call[t].op = "insert" => table'[a] = call[t].value
        /\ call[t].op = "erase" => table'[a] = NoValue
    BY <1>2, <1>3 DEF Modifying, EngineInv
<1>7. ApprovalsAreFollowed'
  <2> SUFFICES ASSUME NEW a \in Addresses, table'[a] # NoValue
               PROVE  handle[a] = "open" \/ \E u \in Closers : ErasureIsPending(u, a)'
    BY <1>1 DEF ApprovalsAreFollowed
  <2>1. CASE table'[a] # table[a]
    BY <2>1, <1>c, <1>d DEF Modifying
  <2>2. CASE table'[a] = table[a] /\ handle[a] # "open"
    <3>1. PICK u \in Closers : ErasureIsPending(u, a)
        BY <2>2 DEF EngineInv, ApprovalsAreFollowed
    <3>2. CASE u # t
        BY <1>1, <1>2, <3>1, <3>2 DEF ErasureIsPending
    <3>3. CASE u = t
      <4>1. call[t].op = "erase" /\ call[t].pc \in {"lock", "execute"} /\ job[t].pc = "erasing" /\ call[t].key = a
        BY <1>2, <3>1, <3>3 DEF ErasureIsPending, EngineInv, CallsBelongToJobs
      <4>2. ~ Execute(t)
        BY <1>3, <4>1 DEF EngineInv
      <4>3. call'[t].pc = "execute"
        BY <1>3, <4>1, <4>2 DEF SingleKey
      <4> QED
        BY <1>1, <3>1, <3>3, <4>1, <4>3 DEF ErasureIsPending
    <3> QED
        BY <3>2, <3>3
  <2> QED
    BY <2>1, <2>2
<1>e. \A a \in Addresses : handle[a] = "open" /\ a \notin reused /\ table'[a] # table[a] => table'[a] # NoValue
    BY <1>c, <1>d, NoValueAssumption DEF EngineInv, ReuseIsKnown, Working, Modifying
<1>8. CreationApproves'
  <2> SUFFICES ASSUME job[Creator].pc = "approving", call'[Creator].pc \in {"unlock", "done"},
                      job[Creator].address \notin reused
               PROVE  table'[job[Creator].address] # NoValue
    BY <1>1 DEF CreationApproves
  <2>1. handle[job[Creator].address] = "open" /\ job[Creator].address \in Addresses
    BY DEF EngineInv, HandlesHaveOneOwner
  <2>2. CASE call[Creator].pc \in {"unlock", "done"}
    BY <1>e, <2>1, <2>2 DEF EngineInv, CreationApproves
  <2>3. CASE call[Creator].pc \notin {"unlock", "done"}
    <3>1. t = Creator /\ call[t].op = "insert" /\ Execute(t)
        BY <1>2, <1>3, <2>3 DEF EngineInv, CallsBelongToJobs, SingleKey
    <3>2. table' = [table EXCEPT ![call[t].key] = call[t].value] /\ call[t].value # NoValue
        BY <1>3, <1>c, <3>1, NoValueAssumption
    <3> QED
        BY <1>c, <2>1, <3>1, <3>2 DEF EngineInv
  <2> QED
    BY <2>2, <2>3
<1>9. OwnedReferencesAreApproved'
    BY <1>1, <1>e DEF EngineInv, OwnedReferencesAreApproved, HandlesHaveOneOwner
<1> QED
    BY <1>4, <1>5, <1>6, <1>7, <1>8, <1>9 DEF EngineInv

(* The invariant is inductive. *)
LEMMA EngineInvStep == EngineInv /\ [Next]_vars => EngineInv'
<1> SUFFICES ASSUME EngineInv, [Next]_vars PROVE EngineInv'
    OBVIOUS
<1>1. TypeOK /\ MapInv
    BY DEF EngineInv
<1>2. MapInv'
    BY <1>1, EngineStepsMap, MapInvStep
<1>3. TypeOK'
    BY <1>1, <1>2, EngineTypeStep DEF MapInv
<1>4. CASE UNCHANGED vars
    BY <1>1, <1>2, <1>3, <1>4
       DEF EngineInv, CallsBelongToJobs, HandlesHaveOneOwner, ApprovalsAreFollowed, ErasureIsPending, ReuseIsKnown,
           Working, CreationApproves, OwnedReferencesAreApproved, vars, mapVars
<1> QED
    BY <1>2, <1>3, <1>4, EngineInvJobs, EngineInvRun DEF Next

-------------------------------------------------------------------------------
(* The invariant behind the theorems below: each handle has one owner,      *)
(* and its approval follows the calls its owner has made.                   *)
THEOREM EngineInvariant == Spec => []EngineInv
BY EngineInvInit, EngineInvStep, PTL DEF Spec

(* Every variable keeps its type. *)
THEOREM TypeCorrect == Spec => []TypeOK
BY EngineInvariant, PTL DEF EngineInv

(* The approval of an indexed container's handle stays in the table for as  *)
(* long as the container, unless the address was being closed when the     *)
(* handle got it.                                                          *)
THEOREM ApprovalCorrect == Spec => []OwnedReferencesAreApproved
BY EngineInvariant, PTL DEF EngineInv

(* Whatever the fence lets pass is open, or being taken out of the table. *)
THEOREM FenceCorrect == Spec => []ApprovedReferencesAreOpen
<1>1. EngineInv => ApprovedReferencesAreOpen
    BY DEF EngineInv, ApprovalsAreFollowed, ErasureIsPending, ApprovedReferencesAreOpen, Working
<1> QED
    BY <1>1, EngineInvariant, PTL

(* A copy of the table is one of its contents, whatever is opened and       *)
(* closed meanwhile.                                                       *)
THEOREM SnapshotCorrectHere == Spec => []SnapshotIsConsistent
BY EngineInvariant, PTL DEF EngineInv, MapInv

(* Every step of the engine's threads is one of the map's threads. *)
LEMMA EngineUsesMap == Spec => MapSpec
<1>1. EngineInv => TypeOK
    BY DEF EngineInv
<1>2. Init => MapInit
    BY DEF Init
<1> QED
    BY <1>1, <1>2, EngineStepsMap, EngineInvariant, PTL DEF Spec, MapSpec

(* No thread waits for itself, or for others in a circle. *)
THEOREM WaitsCorrectHere == Spec => []WaitsAreNotCyclic
BY EngineUsesMap, WaitsCorrect, PTL

(* The table implements the atomic map under the engine's use of it. *)
THEOREM TableCorrect == Spec => ImplementsAtomicMap
BY EngineUsesMap, MapCorrect, PTL
===============================================================================
