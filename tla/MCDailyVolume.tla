---- MODULE MCDailyVolume ----
(***************************************************************************)
(* The router and its daily volume for TLC: orders are model values that   *)
(* have the same market, and are symmetric.                                *)
(***************************************************************************)
EXTENDS DailyVolume, TLC

Symmetric == Permutations(Orders)

====
