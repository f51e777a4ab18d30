----------------------------- MODULE MCCacheShard -----------------------------
(* Data of zero, one, three and five bytes in a shard of four bytes that    *)
(* takes objects of at most three; the count wraps at sixteen.             *)
EXTENDS CacheShard, TLC

CONSTANTS empty, small, medium, large

MCData == {empty, small, medium, large}
MCSizeOf == (empty :> 0) @@ (small :> 1) @@ (medium :> 3) @@ (large :> 5)
===============================================================================
