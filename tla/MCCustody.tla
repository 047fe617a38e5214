---- MODULE MCCustody ----
(***************************************************************************)
(* Custody for TLC: two orders, symmetric since they bet the same side.    *)
(***************************************************************************)
EXTENDS Custody, TLC

Symmetric == Permutations(Orders)

====
