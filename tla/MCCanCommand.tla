---------------------------- MODULE MCCanCommand ----------------------------
(* Instances of CanCommand for TLC. *)
EXTENDS CanCommand, TLC

\* units, callers and task slots are alike in safety properties
Alike == Permutations(Workers) \cup Permutations(Threads) \cup Permutations(Devices)
=============================================================================
