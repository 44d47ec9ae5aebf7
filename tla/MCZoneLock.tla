----------------------------- MODULE MCZoneLock -----------------------------
(***************************************************************************)
(* ZoneLock for TLC: a cap of two zones, so that three entries overflow    *)
(* it, and prices on both sides of a band of three points.                 *)
(***************************************************************************)
EXTENDS ZoneLock
=============================================================================
