--------------------------- MODULE MCHybridKVCache ---------------------------
(* Instances of HybridKVCache for TLC. *)
EXTENDS HybridKVCache

CONSTANTS r1, r2

(* Requests that share their first two blocks. *)
MCToks == r1 :> <<1, 1, 1, 1, 1, 1, 1, 1, 1>> @@ r2 :> <<1, 1, 1, 1, 1, 2>>

MCLayouts == {<<"mamba","chunked","mamba">>, <<"full","sliding","mamba">>, <<"full","sliding","sliding">>}
==============================================================================
