------------------------------ MODULE MCHostCan ------------------------------
(* An instance of HostCan for TLC; the constants are in HostCan.cfg. *)
EXTENDS HostCan
=============================================================================
