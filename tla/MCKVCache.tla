----------------------------- MODULE MCKVCache -----------------------------
(* Instances of KVCache for TLC. *)
EXTENDS KVCache, TLC

(* Two prompts that share their first block and differ in the second. *)
MCPrompts == {<<1, 1, 1>>, <<1, 1, 2>>}

Interchangeable == Permutations(Req)
============================================================================
