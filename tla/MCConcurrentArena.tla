-------------------------- MODULE MCConcurrentArena --------------------------
(* Values for ConcurrentArena: two threads, two shards, and requests that a  *)
(* shard, the active slab and a slab of their own serve.                     *)
EXTENDS ConcurrentArena
=============================================================================
