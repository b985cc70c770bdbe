---------------------------- MODULE MCCacheStore ----------------------------
(* Small instances of CacheStore for TLC. *)
EXTENDS CacheStore, TLC

CONSTANTS k1, k2, k3, shard, shard2

TwoShards == (k1 :> shard) @@ (k2 :> shard2) @@ (k3 :> shard2)
TwoContracts == (k1 :> "c1") @@ (k2 :> "c1") @@ (k3 :> "c2")

Symmetry == Permutations(Procs)
=============================================================================
