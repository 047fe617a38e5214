---- MODULE MCExecutor ----
(***************************************************************************)
(* The executor for TLC: orders are model values, symmetric wherever they  *)
(* have the same market.                                                   *)
(***************************************************************************)
EXTENDS Executor, TLC

Symmetric == Permutations(Orders)

====
