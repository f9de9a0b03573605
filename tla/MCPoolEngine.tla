---------------------------- MODULE MCPoolEngine ----------------------------
(* PoolEngine for TLC, with the values of MCPool. *)
EXTENDS PoolEngine, MCPool
=============================================================================
