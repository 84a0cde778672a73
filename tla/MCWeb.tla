------------------------------- MODULE MCWeb --------------------------------
(* Instances of WebTerminal for TLC. *)
EXTENDS WebTerminal

CONSTANTS o1, o2, ga, gb

GroupSymmetry == Permutations({ga, gb})
AllMessages == DOMAIN Fields
OneMessage == {"Heartbeat"}
FirstPages == <<"a", "b">>
=============================================================================
