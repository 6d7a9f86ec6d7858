--------------------------- MODULE MCRegistration ---------------------------
(* Instances of Registration for TLC. *)
EXTENDS Registration, TLC

UnitSymmetry == Permutations(Units)
=============================================================================
