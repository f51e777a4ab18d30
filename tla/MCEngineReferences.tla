-------------------------- MODULE MCEngineReferences --------------------------
(* Instances of EngineReferences for TLC: two addresses in two shards, and  *)
(* threads that are interchangeable when they close.                       *)
EXTENDS EngineReferences, TLC

CONSTANTS a1, a2

MCThreads == {Creator} \cup Closers \cup Observers
MCShardOf == [a \in Keys |-> IF a = a2 THEN 1 ELSE 0]
MCSymmetry == Permutations(Closers)
===============================================================================
