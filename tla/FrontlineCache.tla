---------------------------- MODULE FrontlineCache ----------------------------
(***************************************************************************)
(* What a shard of the frontline cache promises: one put at a time, any    *)
(* entry may be lost at any moment, and apart from that a key holds what   *)
(* was last put under it.                                                  *)
(***************************************************************************)
CONSTANTS Keys, Contents, None

VARIABLES
    cached,  \* the content of a key, or None
    putting  \* the put that has the shard to itself, or None

Entries == [key : Keys, content : Contents]

Init ==
    /\ cached = [k \in Keys |-> None]
    /\ putting = None

BeginPut ==
    /\ putting = None
    /\ putting' \in Entries
    /\ UNCHANGED cached

(* A content replaces what the key held. *)
Put(k, c) == cached' = [cached EXCEPT ![k] = c]

EndPut ==
    /\ putting # None
    /\ Put(putting.key, putting.content)
    /\ putting' = None

Evict(k) == cached' = [cached EXCEPT ![k] = None]

Next ==
    \/ BeginPut
    \/ EndPut
    \/ \E k \in Keys : Evict(k) /\ UNCHANGED putting

Spec == Init /\ [][Next]_<<cached, putting>>
===============================================================================
