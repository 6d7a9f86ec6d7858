------------------------------ MODULE MCTcpFlow ------------------------------
(* An instance of TcpFlow for TLC: the timer and the inventory next to the main thread. *)
EXTENDS TcpFlow
=============================================================================
