---------------------------- MODULE MCShardRecovery ----------------------------
(* Instances of ShardRecovery; its writers are interchangeable. *)
EXTENDS ShardRecovery, TLC

Symmetric == Permutations(Writers)
================================================================================
