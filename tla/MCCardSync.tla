----------------------------- MODULE MCCardSync -----------------------------
(* Instances of CardSync for TLC. *)
EXTENDS CardSync
=============================================================================
