------------------------------ MODULE MCRelease ------------------------------
(* StrategyRelease on small instances. *)
EXTENDS StrategyRelease, TLC

(* The contents of orders are only compared.                               *)
MCSymmetry == Permutations(Bodies)
=============================================================================
