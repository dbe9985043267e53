----------------------------- MODULE MCWriteFile -----------------------------
(* Instance of WriteFile for TLC. *)
EXTENDS WriteFile, TLC

CONSTANTS p1, p2, v1, v2

MCSymmetry == Permutations(Proc) \cup Permutations(Value)
=============================================================================
