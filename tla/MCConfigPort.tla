---------------------------- MODULE MCConfigPort ----------------------------
(* An instance of ConfigPort for TLC: a ring shorter than two commands. *)
EXTENDS ConfigPort

CONSTANT v

TheBlock == <<"ip", "mask">>
TheMenu == {[item |-> "ip", params |-> <<v, v>>], [item |-> "mask", params |-> <<v>>],
            [item |-> "whoami", params |-> <<>>]}
=============================================================================
