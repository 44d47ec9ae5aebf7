---------------------------- MODULE MCRedisStream ----------------------------
(***************************************************************************)
(* RedisStream for TLC. The cfg files choose the bounds: a cap smaller     *)
(* than the number of entries, so that trimming overtakes a slow reader,   *)
(* and a batch of two, so that a fault can strand part of a batch.         *)
(***************************************************************************)
EXTENDS RedisStream
=============================================================================
