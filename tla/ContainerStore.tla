---------------------------- MODULE ContainerStore ----------------------------
(***************************************************************************)
(* What the data store promises of its containers, whatever happens inside: *)
(* a creation or a removal takes effect at one instant between its request  *)
(* and its response, an answer of success is given only to a request that  *)
(* took effect, an answer of failure only to one that did not, and a crash  *)
(* loses requests, never containers.                                       *)
(***************************************************************************)
CONSTANTS Names, Clients

VARIABLES
    containers,  \* names of the containers that exist
    pending,     \* requests received that have had no effect yet
    decided      \* requests with an outcome and no response yet

vars == <<containers, pending, decided>>

Tasks == [client : Clients, optype : {"create", "remove"}, name : Names]
Outcomes == [task : Tasks, success : BOOLEAN]

Init ==
    /\ containers = {}
    /\ pending = {}
    /\ decided = {}

Receive(t) ==
    /\ \A u \in pending : u.client # t.client
    /\ \A d \in decided : d.task.client # t.client
    /\ pending' = pending \cup {t}
    /\ UNCHANGED <<containers, decided>>

Decide(t, success) ==
    /\ t \in pending
    /\ pending' = pending \ {t}
    /\ decided' = decided \cup {[task |-> t, success |-> success]}

CommitCreation(t) ==
    /\ t.optype = "create" /\ t.name \notin containers
    /\ containers' = containers \cup {t.name}
    /\ Decide(t, TRUE)

CommitRemoval(t) ==
    /\ t.optype = "remove" /\ t.name \in containers
    /\ containers' = containers \ {t.name}
    /\ Decide(t, TRUE)

Refuse(t) == Decide(t, FALSE) /\ UNCHANGED containers

Respond(d) ==
    /\ d \in decided
    /\ decided' = decided \ {d}
    /\ UNCHANGED <<containers, pending>>

LoseRequests ==
    /\ pending' = {}
    /\ decided' = {}
    /\ UNCHANGED containers

Next ==
    \/ \E t \in Tasks : Receive(t) \/ CommitCreation(t) \/ CommitRemoval(t) \/ Refuse(t)
    \/ \E d \in Outcomes : Respond(d)
    \/ LoseRequests

Spec == Init /\ [][Next]_vars
===============================================================================
