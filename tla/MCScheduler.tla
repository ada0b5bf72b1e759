---------------------------- MODULE MCScheduler ----------------------------
(* Instances of Scheduler for TLC. *)
EXTENDS Scheduler, TLC

(* Two prompts that share their first block, and one of its own. *)
SharedPrompt == [r \in Req |-> << <<1, 1, 1>>, <<1, 1, 2>>, <<2, 2, 1>> >>[r]]
LongShort == [r \in Req |-> IF r = 1 THEN [i \in 1 .. 9 |-> 1] ELSE <<2, 1, 1>>]
(* Decoded together, either of the two may be the one that runs out of     *)
(* blocks, and the other may stand before or behind it.                    *)
FourAndThree == [r \in Req |-> IF r = 1 THEN <<1, 1, 1, 1>> ELSE <<2, 1, 1>>]
NoMin     == [r \in Req |-> 0]
ThreeTwo  == [r \in Req |-> IF r = 1 THEN 3 ELSE 2]
Three     == [r \in Req |-> 3]
Four      == [r \in Req |-> 4]
StopAt2   == [r \in Req |-> {2}]
Rising    == [r \in Req |-> 0 - r]
Flat      == [r \in Req |-> 0]
============================================================================
