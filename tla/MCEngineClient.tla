---------------------------- MODULE MCEngineClient ----------------------------
(***************************************************************************)
(* Values for the constants of EngineClient.                               *)
(***************************************************************************)
EXTENDS EngineClient

CONSTANTS a, b, c1, c2

TwoIds == [c \in Call |-> IF c = c1 THEN a ELSE b]
OneId  == [c \in Call |-> a]
DeltaAndFinal == [c \in Call |-> IF c = c1 THEN "delta" ELSE "final_only"]
Cumulative == [c \in Call |-> IF c = c1 THEN "cumulative" ELSE "delta"]

ThreeAndOne == [c \in Call |-> IF c = c1 THEN 3 ELSE 1]
OneEach     == [c \in Call |-> 1]
=============================================================================
