---------------------------- MODULE MCRiskManager ----------------------------
(***************************************************************************)
(* RiskManager for TLC. Days of two ticks and a bar clock one tick ahead,  *)
(* so that the clocks agree in every first half of a day and differ in     *)
(* every second one. Of an equity of 50 the daily cap is one losing trade, *)
(* the weekly cap two; 0 is the boundary of _loss_pct.                     *)
(***************************************************************************)
EXTENDS RiskManager

MCPnls == {-1, 1}
MCEquities == {0, 50}
=============================================================================
