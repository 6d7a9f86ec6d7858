-------------------------- MODULE MCServerMessages --------------------------
(* An instance of ServerMessages for TLC: a command with a long answer, and *)
(* one that contains a header.                                             *)
EXTENDS ServerMessages

MCPayloads == {<<4, 208>>, <<3, 170, 68>>}
=============================================================================
