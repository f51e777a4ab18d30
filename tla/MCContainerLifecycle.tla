------------------------- MODULE MCContainerLifecycle -------------------------
(* Instances of ContainerLifecycle for TLC: names, addresses and clients are *)
(* model values, and symmetric where no liveness is checked.                *)
EXTENDS ContainerLifecycle, TLC

MCBucketOf == [n \in Names |-> 0]
MCLastBucket == [n \in Names |-> NumBuckets - 1]
MCSymmetry == Permutations(Names) \cup Permutations(Addresses) \cup Permutations(Clients)
===============================================================================
