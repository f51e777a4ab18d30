------------------------------ MODULE AtomicMap ------------------------------
(* A map shared by threads, whose operations take effect at one instant    *)
(* between their invocation and their return: what concurrent_flat_map     *)
(* promises.  A call is answered from the entries it saw.                  *)
EXTENDS FiniteSets

CONSTANTS Keys, Values, NoValue, Threads

VARIABLES
    content,  \* the value of a key, or NoValue
    calls     \* the operation a thread is in

Operations == {"insert", "get", "exists", "erase", "get_all", "get_size"}
Idle == [state |-> "idle"]
Invoked(op, k, v) == [state |-> "invoked", op |-> op, key |-> k, value |-> v]
Applied(c, seen) == [state |-> "applied", op |-> c.op, key |-> c.key, value |-> c.value, seen |-> seen]

Entries == {<<k, content[k]>> : k \in {j \in Keys : content[j] # NoValue}}

Init ==
    /\ content = [k \in Keys |-> NoValue]
    /\ calls = [t \in Threads |-> Idle]

Invoke(t, op, k, v) ==
    /\ calls[t] = Idle
    /\ calls' = [calls EXCEPT ![t] = Invoked(op, k, v)]
    /\ UNCHANGED content

Insert(t, c) ==
    /\ c.op = "insert"
    /\ content' = [content EXCEPT ![c.key] = c.value]
    /\ calls' = [calls EXCEPT ![t] = Applied(c, {})]

Lookup(t, c) ==
    /\ c.op \in {"get", "exists"}
    /\ calls' = [calls EXCEPT ![t] = Applied(c, {e \in Entries : e[1] = c.key})]
    /\ UNCHANGED content

Erase(t, c) ==
    /\ c.op = "erase"
    /\ content' = [content EXCEPT ![c.key] = NoValue]
    /\ calls' = [calls EXCEPT ![t] = Applied(c, {e \in Entries : e[1] = c.key})]

Snapshot(t, c) ==
    /\ c.op \in {"get_all", "get_size"}
    /\ calls' = [calls EXCEPT ![t] = Applied(c, Entries)]
    /\ UNCHANGED content

Apply(t) ==
    /\ calls[t].state = "invoked"
    /\ \/ Insert(t, calls[t])
       \/ Lookup(t, calls[t])
       \/ Erase(t, calls[t])
       \/ Snapshot(t, calls[t])

Return(t) ==
    /\ calls[t].state = "applied"
    /\ calls' = [calls EXCEPT ![t] = Idle]
    /\ UNCHANGED content

Next ==
    \E t \in Threads :
        \/ \E op \in Operations, k \in Keys, v \in Values : Invoke(t, op, k, v)
        \/ Apply(t)
        \/ Return(t)

Spec == Init /\ [][Next]_<<content, calls>>
===============================================================================
