------------------------------ MODULE MCCanLink ------------------------------
(* Instances of CanLink for TLC: a card without and one with a prescription. *)
EXTENDS CanLink, TLC

CONSTANTS plain, coded

MCContents == {plain, coded}
MCSize == plain :> 9 @@ coded :> 17
=============================================================================
