------------------------------ MODULE MCCoordinator ----------------------------
(* Coordinator on a small instance; the configurations give the constants.     *)
EXTENDS Coordinator, TLC

Symmetry == Permutations(Calls)

================================================================================
