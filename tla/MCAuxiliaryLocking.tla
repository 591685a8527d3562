--------------------------- MODULE MCAuxiliaryLocking --------------------------
(* AuxiliaryLocking on small instances; the configurations give the constants. *)
EXTENDS AuxiliaryLocking, TLC

Symmetry == Permutations(Calls)

================================================================================
