---------------------------- MODULE MCThreadpool ----------------------------
(* Two submitters, three threads.  Grids: thirteen rows in seven chunks,   *)
(* all but the last of two rows; fewer rows than threads; a single row; a  *)
(* body that throws, also at the last row of a chunk and at the first.     *)
EXTENDS Threadpool, TLC

CONSTANTS a, b

TwoSubmitters ==
    a :> << [nr |-> 13, throws |-> {}], [nr |-> 2, throws |-> {}] >> @@
    b :> << [nr |-> 1, throws |-> {1}], [nr |-> 13, throws |-> {2, 5}] >>
==============================================================================
