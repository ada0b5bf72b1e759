--------------------------- MODULE KVCacheManager ---------------------------
(***************************************************************************)
(* KVCacheManager (src/vllm/v1/core/kv_cache_manager.cpp) over the unitary *)
(* coordinator and one full-attention group: the block tables of the       *)
(* requests, and the operations the scheduler calls.  Every operation is   *)
(* an operator on a record                                                 *)
(*                                                                         *)
(*   pool              the BlockPool record                                *)
(*   req_to_blocks     request -> its block table                          *)
(*   num_cached_block  request -> how many of its blocks are cached        *)
(*   fault             "none", or the throw an operation ran into          *)
(*                                                                         *)
(* The maps of the code hold an entry for a request exactly while its      *)
(* block table is not empty: an admission adds at least one block.         *)
(***************************************************************************)
EXTENDS BlockPool

CONSTANTS Req,             \* request ids
          MaxModelLen,     \* max_model_len
          WatermarkBlocks  \* watermark_blocks

ASSUME ManagerAssumption ==
    /\ IsFiniteSet(Req)
    /\ MaxModelLen \in Nat \ {0}
    /\ WatermarkBlocks \in Nat

Faults == {"none", "no_free_blocks", "block_already_hashed"}

KVType == [pool : PoolType,
           req_to_blocks : [Req -> Seq(Blocks)],
           num_cached_block : [Req -> Nat],
           fault : Faults]

(* Mutant: the null block is not taken off the free list. *)
InitKV_KeepsNullBlock ==
    [pool |-> [free_block_queue |-> [i \in 1 .. NumGpuBlocks |-> i - 1],
               ref_cnt |-> [b \in Blocks |-> 0],
               block_hash |-> [b \in Blocks |-> NoHash],
               cached_block_hash_to_block |-> {}],
     req_to_blocks |-> [r \in Req |-> << >>],
     num_cached_block |-> [r \in Req |-> 0],
     fault |-> "none"]

InitKV == [pool |-> [free_block_queue |-> [i \in Blocks |-> i],
                     ref_cnt |-> [b \in Blocks |-> 0],
                     block_hash |-> [b \in Blocks |-> NoHash],
                     cached_block_hash_to_block |-> {}],
           req_to_blocks |-> [r \in Req |-> << >>],
           num_cached_block |-> [r \in Req |-> 0],
           fault |-> "none"]

(* Mutant: the division truncates. *)
cdiv_RoundsDown(n, d) == n \div d

cdiv(n, d) == (n + d - 1) \div d
Least(a, b)    == IF a < b THEN a ELSE b
Greatest(a, b) == IF a > b THEN a ELSE b

----------------------------------------------------------------------------
(* Prefix-cache lookup *)

(* The first n hashes of the chain are all cached. *)
HitUpTo(kv, hashes, n) == \A i \in 1 .. n : CachedUnder(kv.pool, hashes[i]) # {}

(* Walk the hash chain left to right and stop at the first miss. *)
find_longest_cache_hit(kv, hashes, max_length) ==
    LET n == Least(max_length \div BlockSize, Len(hashes))
        k == CHOOSE k \in 0 .. n :
                /\ HitUpTo(kv, hashes, k)
                /\ k < n => CachedUnder(kv.pool, hashes[k + 1]) = {}
    IN  [i \in 1 .. k |-> get_cached_block(kv.pool, hashes[i])]

(* The last token is always recomputed, to have its logits. *)
get_computed_blocks(kv, toks) ==
    IF EnableCaching
    THEN find_longest_cache_hit(kv, block_hashes(toks), Len(toks) - 1)
    ELSE << >>

----------------------------------------------------------------------------
(* allocate_slots *)

(* Mutant: the hit blocks that touching takes off the free list are not    *)
(* counted.                                                                *)
get_num_blocks_to_allocate_IgnoresHits(kv, r, num_tokens, hits) ==
    Greatest(cdiv(num_tokens, BlockSize) - (Len(kv.req_to_blocks[r]) + Len(hits)), 0)

(* New blocks a request needs so that num_tokens have a slot.  A first     *)
(* allocation also counts the hit blocks nobody owns: touching them takes  *)
(* them off the free list.                                                 *)
get_num_blocks_to_allocate(kv, r, num_tokens, hits) ==
    LET owned == Len(kv.req_to_blocks[r])
        evictable == {b \in Range(hits) : kv.pool.ref_cnt[b] = 0}
    IN  Greatest(cdiv(num_tokens, BlockSize) - (owned + Len(hits)), 0)
          + Cardinality(evictable)

SlotTokens(num_computed, num_new) == Least(num_computed + num_new, MaxModelLen)

(* The capacity checks of allocate_slots.  full_tokens is the length of    *)
(* the whole sequence when full_sequence_must_fit, else 0; watermark is    *)
(* the headroom asked of a waiting request while others run.               *)
CanAllocate(kv, r, num_computed, num_new, hits, full_tokens, watermark) ==
    /\ get_num_blocks_to_allocate(kv, r, Least(full_tokens, MaxModelLen), hits) + watermark
         <= get_num_free_blocks(kv.pool) \/ full_tokens = 0
    /\ get_num_blocks_to_allocate(kv, r, SlotTokens(num_computed, num_new), hits) + watermark
         <= get_num_free_blocks(kv.pool)

(* A request's first allocation takes ownership of its hit blocks. *)
allocate_new_computed_blocks(kv, r, hits) ==
    [kv EXCEPT !.pool = touch(@, hits),
               !.req_to_blocks[r] = hits,
               !.num_cached_block[r] = Len(hits)]

allocate_new_blocks(kv, r, num_tokens) ==
    LET n == Greatest(cdiv(num_tokens, BlockSize) - Len(kv.req_to_blocks[r]), 0)
    IN  IF n > get_num_free_blocks(kv.pool)
        THEN [kv EXCEPT !.fault = "no_free_blocks"]
        ELSE [kv EXCEPT !.pool = get_new_blocks(@, n),
                        !.req_to_blocks[r] =
                            @ \o popleft_n(kv.pool.free_block_queue, n).taken]

(* Cache the full blocks that hold the first num_tokens of toks. *)
cache_blocks(kv, r, toks, num_tokens) ==
    LET num_cached == kv.num_cached_block[r]
        num_full   == num_tokens \div BlockSize
    IN  IF ~EnableCaching \/ num_cached >= num_full THEN kv
        ELSE IF CacheFullBlocksThrows(kv.pool, kv.req_to_blocks[r], num_cached, num_full)
        THEN [kv EXCEPT !.fault = "block_already_hashed"]
        ELSE [kv EXCEPT !.pool = cache_full_blocks(@, kv.req_to_blocks[r],
                                                   block_hashes(toks), num_cached, num_full),
                        !.num_cached_block[r] = num_full]

(* allocate_slots once its checks have passed.  Only known tokens are      *)
(* cached: the target is capped at Len(toks).                              *)
SlotsGiven(kv, r, toks, num_computed, num_new) ==
    cache_blocks(allocate_new_blocks(kv, r, SlotTokens(num_computed, num_new)),
                 r, toks, Least(num_computed + num_new, Len(toks)))

allocate_slots_running(kv, r, toks, num_computed, num_new) ==
    SlotsGiven(kv, r, toks, num_computed, num_new)

allocate_slots_waiting(kv, r, toks, hits, num_new) ==
    SlotsGiven(allocate_new_computed_blocks(kv, r, hits),
               r, toks, Len(hits) * BlockSize, num_new)

----------------------------------------------------------------------------
(* Mutant: the table is given back first block first. *)
free_HeadFirst(kv, r) ==
    [kv EXCEPT !.pool = free_blocks(@, kv.req_to_blocks[r]),
               !.req_to_blocks[r] = << >>,
               !.num_cached_block[r] = 0]

free(kv, r) ==
    [kv EXCEPT !.pool = free_blocks(@, ReverseOf(kv.req_to_blocks[r])),
               !.req_to_blocks[r] = << >>,
               !.num_cached_block[r] = 0]

(* Blocks at the head of r's table that every request with a table owns.   *)
Owners(kv) == {r \in Req : kv.req_to_blocks[r] # << >>}

(* Mutant: a request does not count itself among those that share. *)
get_num_common_prefix_blocks_Others(kv, r) ==
    Cardinality({i \in DOMAIN kv.req_to_blocks[r] : \A j \in 1 .. i :
        kv.pool.ref_cnt[kv.req_to_blocks[r][j]] >= Cardinality(Owners(kv) \ {r})})

get_num_common_prefix_blocks(kv, r) ==
    Cardinality({i \in DOMAIN kv.req_to_blocks[r] : \A j \in 1 .. i :
        kv.pool.ref_cnt[kv.req_to_blocks[r][j]] = Cardinality(Owners(kv))})
==============================================================================
