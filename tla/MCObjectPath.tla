----------------------------- MODULE MCObjectPath -----------------------------
(* Instances of ObjectPath for TLC: every object is in one partition. *)
EXTENDS ObjectPath, TLC

MCPartitionOf == [k \in Keys |-> 0]
===============================================================================
