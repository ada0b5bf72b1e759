------------------------------ MODULE InputBatch ------------------------------
(***************************************************************************)
(* InputBatch, the persistent batch of the model runner                    *)
(* (src/vllm/v1/worker/gpu/input_batch.cpp) with its block table           *)
(* (block_table.cpp) and the update the runner makes of it every step      *)
(* (prepare_inputs.cpp), as operators on a record:                         *)
(*                                                                         *)
(*   req_ids   slot -> the request in it, NoReq in a hole                  *)
(*   index     req_id_to_index: request -> slot, 0 for none                *)
(*   removed   the holes left by remove_request                            *)
(*   toks      slot -> token_ids_cpu up to num_tokens_no_spec              *)
(*   out       slot -> req_output_token_ids                                *)
(*   prompt, computed, prefill, last, blocks, params                       *)
(*             slot -> num_prompt_tokens, num_computed_tokens_cpu,         *)
(*             prefill_len, last_sampled_tokens, block table row, and      *)
(*             whose sampling parameters                                   *)
(*   dirty, md the cached sampling metadata and its dirty flag             *)
(*                                                                         *)
(* A token is named by its request and position, <<r, p>>, so that a token *)
(* of another request or position is never taken for it.  As in the code,  *)
(* a slot keeps its old contents until a request takes it over.            *)
(***************************************************************************)
EXTENDS Integers, Sequences, FiniteSets, FiniteSetsExt, SequencesExt

CONSTANTS Req,          \* requests, positive
          MaxNumReqs,   \* max_num_seqs
          Penalised     \* the requests with a penalty in their parameters

NoReq == 0
NoTok == <<0, 0>>       \* a column or entry the code leaves 0
Slots == 1 .. MaxNumReqs

EmptyBatch ==
    [req_ids |-> << >>, index |-> [r \in Req |-> 0], removed |-> {},
     toks |-> [s \in Slots |-> << >>], out |-> [s \in Slots |-> << >>],
     prompt |-> [s \in Slots |-> 0], computed |-> [s \in Slots |-> 0],
     prefill |-> [s \in Slots |-> 0], last |-> [s \in Slots |-> NoTok],
     blocks |-> [s \in Slots |-> << >>], params |-> [s \in Slots |-> NoReq],
     dirty |-> TRUE, md |-> << >>]

InBatch(b)  == {r \in Req : b.index[r] # 0}
num_reqs(b) == Cardinality(InBatch(b))

(* add_request: the lowest hole, else the end.  last_sampled is seeded for *)
(* a request that has computed tokens already.                             *)
add_request(b, q) ==
    LET s == IF b.removed # {} THEN Min(b.removed) ELSE num_reqs(b) + 1
        r == q.req
    IN  [b EXCEPT
           !.req_ids = IF s = Len(@) + 1 THEN Append(@, r) ELSE [@ EXCEPT ![s] = r],
           !.index[r] = s,
           !.removed = @ \ {s},
           !.toks[s] = q.toks,
           !.out[s] = SubSeq(q.toks, q.prompt + 1, Len(q.toks)),
           !.prompt[s] = q.prompt,
           !.computed[s] = q.computed,
           !.prefill[s] = Len(q.toks),
           !.last[s] = IF q.computed > 0 THEN q.toks[q.computed] ELSE NoTok,
           !.blocks[s] = q.blocks,
           !.params[s] = r,
           !.dirty = TRUE]

(* Mutant: a removal does not invalidate the sampling metadata. *)
remove_request_KeepsMetadata(b, r) ==
    IF b.index[r] = 0 THEN b
    ELSE LET s == b.index[r]
         IN  [b EXCEPT !.req_ids[s] = NoReq, !.index[r] = 0, !.removed = @ \cup {s},
                       !.out[s] = << >>, !.blocks[s] = << >>]

remove_request(b, r) ==
    IF b.index[r] = 0 THEN b
    ELSE LET s == b.index[r]
         IN  [b EXCEPT !.req_ids[s] = NoReq, !.index[r] = 0, !.removed = @ \cup {s},
                       !.out[s] = << >>, !.blocks[s] = << >>, !.dirty = TRUE]

(* Slot s takes over what slot from[s] holds, field by field.              *)
(* Mutants: a field of the asynchronous path, or the block table, stays.   *)
TakeOver_KeepsLast(b, from) ==
    [b EXCEPT !.toks = [s \in Slots |-> @[from[s]]], !.out = [s \in Slots |-> @[from[s]]],
              !.prompt = [s \in Slots |-> @[from[s]]],
              !.computed = [s \in Slots |-> @[from[s]]],
              !.prefill = [s \in Slots |-> @[from[s]]],
              !.blocks = [s \in Slots |-> @[from[s]]],
              !.params = [s \in Slots |-> @[from[s]]]]

TakeOver_KeepsBlocks(b, from) ==
    [b EXCEPT !.toks = [s \in Slots |-> @[from[s]]], !.out = [s \in Slots |-> @[from[s]]],
              !.prompt = [s \in Slots |-> @[from[s]]],
              !.computed = [s \in Slots |-> @[from[s]]],
              !.prefill = [s \in Slots |-> @[from[s]]], !.last = [s \in Slots |-> @[from[s]]],
              !.params = [s \in Slots |-> @[from[s]]]]

TakeOver(b, from) ==
    [b EXCEPT !.toks = [s \in Slots |-> @[from[s]]], !.out = [s \in Slots |-> @[from[s]]],
              !.prompt = [s \in Slots |-> @[from[s]]],
              !.computed = [s \in Slots |-> @[from[s]]],
              !.prefill = [s \in Slots |-> @[from[s]]], !.last = [s \in Slots |-> @[from[s]]],
              !.blocks = [s \in Slots |-> @[from[s]]],
              !.params = [s \in Slots |-> @[from[s]]]]

Reindexed(ids) == [r \in Req |-> IF \E s \in DOMAIN ids : ids[s] = r
                                 THEN CHOOSE s \in DOMAIN ids : ids[s] = r ELSE 0]

(* condense: the lowest hole takes over the last request, until the        *)
(* requests are dense.                                                     *)
condense(b) ==
    LET n     == num_reqs(b)
        holes == {s \in b.removed : s <= n}
        tail  == {s \in DOMAIN b.req_ids : s > n /\ b.req_ids[s] # NoReq}
        from  == [s \in Slots |->
                     IF s \notin holes THEN s
                     ELSE CHOOSE t \in tail : Cardinality({u \in tail : u > t})
                                                = Cardinality({h \in holes : h < s})]
        ids   == [s \in 1 .. n |-> b.req_ids[from[s]]]
    IN  IF b.removed = {} THEN b
        ELSE [TakeOver(b, from) EXCEPT !.req_ids = ids, !.index = Reindexed(ids),
                                       !.removed = {}, !.dirty = @ \/ holes # {}]

(* The decode-first reorder: a chain of swap_states that moves the         *)
(* requests out of their region's place, in their order within it.         *)
swap_chain(b, region) ==
    LET n      == Len(b.req_ids)
        Before(s, t) == region[s] < region[t] \/ (region[s] = region[t] /\ s < t)
        Target(s) == CHOOSE c \in 0 .. 3 :
                        /\ Cardinality({t \in 1 .. n : region[t] < c}) < s
                        /\ s <= Cardinality({t \in 1 .. n : region[t] <= c})
        moved  == {s \in 1 .. n : region[s] # Target(s)}
        from   == [s \in Slots |->
                      IF s \notin moved THEN s
                      ELSE CHOOSE t \in moved : Cardinality({u \in moved : Before(u, t)})
                                                  = Cardinality({u \in moved : u < s})]
        ids    == [s \in 1 .. n |-> b.req_ids[from[s]]]
    IN  IF moved = {} THEN b
        ELSE [TakeOver(b, from) EXCEPT !.req_ids = ids, !.index = Reindexed(ids),
                                       !.dirty = TRUE]

(* make_sampling_metadata: rebuilt when the batch changed, or every time   *)
(* while a penalty needs the output tokens.                                *)
no_penalties(b) == InBatch(b) \cap Penalised = {}

(* Mutant: rebuilt only when the batch changed. *)
refresh_metadata_WhenDirty(b) ==
    IF b.dirty
    THEN [b EXCEPT !.dirty = FALSE,
                   !.md = [s \in 1 .. num_reqs(b) |->
                             [params |-> b.params[s],
                              out |-> IF no_penalties(b) THEN << >> ELSE b.out[s]]]]
    ELSE b

refresh_metadata(b) ==
    IF b.dirty \/ ~no_penalties(b)
    THEN [b EXCEPT !.dirty = FALSE,
                   !.md = [s \in 1 .. num_reqs(b) |->
                             [params |-> b.params[s],
                              out |-> IF no_penalties(b) THEN << >> ELSE b.out[s]]]]
    ELSE b

----------------------------------------------------------------------------
(* update_states on a SchedulerOutput                                      *)
(*                                                                         *)
(*   finished   finished_req_ids                                           *)
(*   new        scheduled_new_reqs, in order: [req, toks, prompt,          *)
(*              computed, blocks]                                          *)
(*   cached     scheduled_cached_reqs: request -> [computed, new_blocks]   *)
(*   n          num_scheduled_tokens                                       *)

RemoveAll(b, rs) == FoldSet(LAMBDA r, acc : remove_request(acc, r), b, rs)
AddAll(b, qs)    == FoldLeft(add_request, b, qs)

LeavesBatch(b, so) == so.finished \cup {r \in InBatch(b) : r \notin DOMAIN so.n}

(* The diff of a cached request that is not in the batch is skipped. *)
ApplyDiffs(b, so) ==
    LET there == {r \in DOMAIN so.cached : b.index[r] # 0}
        Of(s) == {r \in there : b.index[r] = s}
        The(s) == CHOOSE r \in Of(s) : TRUE
    IN  [b EXCEPT
           !.computed = [s \in Slots |-> IF Of(s) = {} THEN @[s]
                                         ELSE so.cached[The(s)].computed],
           !.blocks = [s \in Slots |-> IF Of(s) = {} THEN @[s]
                                       ELSE @[s] \o so.cached[The(s)].new_blocks]]

update_states(b, so) ==
    condense(AddAll(ApplyDiffs(RemoveAll(b, LeavesBatch(b, so)), so), so.new))
==============================================================================
