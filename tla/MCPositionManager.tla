-------------------------- MODULE MCPositionManager --------------------------
(***************************************************************************)
(* PositionManager for TLC, both sides: one R is two points, closes from   *)
(* half an R under water to beyond TP2, an ATR that widens and narrows     *)
(* between bars.                                                           *)
(***************************************************************************)
EXTENDS PositionManager

MCPrices == {-4, -2, -1, 1, 2, 4}
MCSwings == {NoLevel, -1, 1}
=============================================================================
