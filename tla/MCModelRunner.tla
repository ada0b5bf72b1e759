---------------------------- MODULE MCModelRunner ----------------------------
(* Instances of ModelRunner for TLC. *)
EXTENDS ModelRunner

Lengths == [r \in Req |-> <<2, 1, 3>>[r]]
Limits  == [r \in Req |-> <<1, 3, 2>>[r]]
=============================================================================
