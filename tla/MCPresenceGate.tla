----------------------------- MODULE MCPresenceGate ----------------------------
(* PresenceGate on small instances; the configurations give the constants.     *)
EXTENDS PresenceGate, TLC

Symmetry == Permutations(Calls)

================================================================================
