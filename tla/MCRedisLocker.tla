--------------------------- MODULE MCRedisLocker ---------------------------
(***************************************************************************)
(* A small instance of module RedisLocker.  Readers are interchangeable;   *)
(* its writers differ in their order.                                      *)
(***************************************************************************)
EXTENDS RedisLocker, TLC

Symmetry == Permutations(Readers)
=============================================================================
