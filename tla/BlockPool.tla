------------------------------ MODULE BlockPool ------------------------------
(***************************************************************************)
(* The physical KV-cache block store (src/vllm/v1/core/block_pool.cpp) and *)
(* its intrusive LRU free list (FreeKVCacheBlockQueue in                   *)
(* kv_cache_utils.cpp), as operators on a record                           *)
(*                                                                         *)
(*   free_block_queue            the free list, head (next victim) first   *)
(*   ref_cnt                     block -> number of owners                 *)
(*   block_hash                  block -> hash it is cached under, NoHash  *)
(*   cached_block_hash_to_block  set of <<hash, block>> entries            *)
(*   fault                       the throw or assert the code ran into     *)
(*                                                                         *)
(* A block hash is a SHA chain over the token prefix that ends at the      *)
(* block; hashes are taken to be collision free, so the hash IS that       *)
(* prefix.  Block 0 is the null block: the constructor pops it from the    *)
(* free list, it is never allocated, and a full-attention group never      *)
(* holds it, so Blocks leaves it out.                                      *)
(***************************************************************************)
EXTENDS Integers, Sequences, FiniteSets, Functions

CONSTANTS NumGpuBlocks,   \* num_gpu_blocks, the null block included
          BlockSize,      \* tokens per block
          EnableCaching,  \* enable_caching: prefix caching on or off
          Token           \* the token alphabet

ASSUME PoolAssumption ==
    /\ NumGpuBlocks \in Nat \ {0}
    /\ BlockSize \in Nat \ {0}
    /\ EnableCaching \in BOOLEAN

Blocks == 1 .. NumGpuBlocks - 1
NoHash == << >>

(* A hash stands for the tokens it was made of; where there are several    *)
(* groups, for the number of the group in front of them.                   *)
Hash == Seq(Token \cup Nat)

(* A block table is given back last block first, so that the tail of a     *)
(* sequence is evicted before its head.                                    *)
ReverseOf(s) == [i \in 1 .. Len(s) |-> s[Len(s) + 1 - i]]

(* The sub-sequence of q formed by its elements in S, order kept.  Stated  *)
(* without recursion: the j-th element kept is the one with j-1 kept       *)
(* elements before it.                                                     *)
KeptAt(q, S)    == {i \in DOMAIN q : q[i] \in S}
RankIn(K, i)    == Cardinality({k \in K : k < i})
Keep(q, S) ==
    LET K == KeptAt(q, S)
    IN  [j \in 1 .. Cardinality(K) |-> q[CHOOSE i \in K : RankIn(K, i) = j - 1]]

----------------------------------------------------------------------------
(* FreeKVCacheBlockQueue *)

popleft_n(q, n) == [taken |-> SubSeq(q, 1, n), rest |-> SubSeq(q, n + 1, Len(q))]
remove(q, S)    == Keep(q, Range(q) \ S)
prepend_n(q, s) == s \o q
append_n(q, s)  == q \o s

----------------------------------------------------------------------------
(* BlockPool *)

PoolType == [free_block_queue : Seq(Blocks),
             ref_cnt : [Blocks -> Int],
             block_hash : [Blocks -> Hash],
             cached_block_hash_to_block : SUBSET (Hash \X Blocks)]

(* The hashes Request::update_block_hashes has computed for a request      *)
(* whose known tokens are toks: one per full block, each a chain.          *)
block_hashes(toks) ==
    [i \in 1 .. Len(toks) \div BlockSize |-> SubSeq(toks, 1, i * BlockSize)]

CachedUnder(pool, h) == {b \in Blocks : <<h, b>> \in pool.cached_block_hash_to_block}

(* Of several blocks cached under one hash, the one with the smallest id.  *)
get_cached_block(pool, h) ==
    CHOOSE b \in CachedUnder(pool, h) : \A c \in CachedUnder(pool, h) : b <= c

(* Mutant: the block's own copy of the hash goes, the map entry stays. *)
remove_cached_block_hashes_LeavesEntry(pool, S) ==
    [pool EXCEPT !.block_hash = [b \in Blocks |-> IF b \in S THEN NoHash ELSE @[b]]]

(* Drop the hash of every block of S: the hash map entry and the block's   *)
(* own copy go together.                                                   *)
remove_cached_block_hashes(pool, S) ==
    [pool EXCEPT !.block_hash = [b \in Blocks |-> IF b \in S THEN NoHash ELSE @[b]],
                 !.cached_block_hash_to_block = {e \in @ : e[2] \notin S}]

get_num_free_blocks(pool) == Len(pool.free_block_queue)

(* Mutant: a popped block keeps the hash it was cached under. *)
get_new_blocks_NoEviction(pool, n) ==
    LET taken == Range(popleft_n(pool.free_block_queue, n).taken)
    IN  [pool EXCEPT !.free_block_queue = popleft_n(@, n).rest,
                     !.ref_cnt = [b \in Blocks |-> IF b \in taken THEN @[b] + 1 ELSE @[b]]]

(* Pop the n least recently used blocks; a popped block that was still     *)
(* cached is evicted.  The caller has checked n <= get_num_free_blocks();  *)
(* the throw of the other case is the fault.                               *)
get_new_blocks(pool, n) ==
    LET popped  == popleft_n(pool.free_block_queue, n)
        taken   == Range(popped.taken)
        evicted == IF EnableCaching THEN remove_cached_block_hashes(pool, taken) ELSE pool
    IN  [evicted EXCEPT !.free_block_queue = popped.rest,
                        !.ref_cnt = [b \in Blocks |-> IF b \in taken THEN @[b] + 1 ELSE @[b]]]

(* Mutant: a block that has an owner already does not count the new one. *)
touch_CountsFirstOwner(pool, hits) ==
    LET idle == {b \in Range(hits) : pool.ref_cnt[b] = 0}
    IN  [pool EXCEPT !.free_block_queue = remove(@, idle),
                     !.ref_cnt = [b \in Blocks |-> IF b \in idle THEN 1 ELSE @[b]]]

(* Mutant: a hit block stays in the free list. *)
touch_LeavesFreeList(pool, hits) ==
    [pool EXCEPT !.ref_cnt = [b \in Blocks |-> IF b \in Range(hits) THEN @[b] + 1 ELSE @[b]]]

(* Add an owner to every block of hits; one without owner leaves the free  *)
(* list.                                                                   *)
touch(pool, hits) ==
    LET touched == Range(hits)
    IN  [pool EXCEPT
           !.free_block_queue = remove(@, {b \in touched : pool.ref_cnt[b] = 0}),
           !.ref_cnt = [b \in Blocks |-> IF b \in touched THEN @[b] + 1 ELSE @[b]]]

(* Mutant: every block left without owner goes to the tail. *)
free_blocks_AllToTail(pool, ordered_blocks) ==
    LET freed == Range(ordered_blocks)
    IN  [pool EXCEPT
           !.free_block_queue = @ \o Keep(ordered_blocks, {b \in freed : pool.ref_cnt[b] = 1}),
           !.ref_cnt = [b \in Blocks |-> IF b \in freed THEN @[b] - 1 ELSE @[b]]]

(* Drop an owner of every block of ordered_blocks.  Blocks left without    *)
(* owner return to the free list: those without a hash to its front, those *)
(* with one to its tail, each group in the order given.                    *)
free_blocks(pool, ordered_blocks) ==
    LET freed == Range(ordered_blocks)
        gone  == {b \in freed : pool.ref_cnt[b] = 1}
        blocks_without_hash == Keep(ordered_blocks, {b \in gone : pool.block_hash[b] = NoHash})
        blocks_with_hash    == Keep(ordered_blocks, {b \in gone : pool.block_hash[b] # NoHash})
    IN  [pool EXCEPT
           !.free_block_queue = append_n(prepend_n(@, blocks_without_hash), blocks_with_hash),
           !.ref_cnt = [b \in Blocks |-> IF b \in freed THEN @[b] - 1 ELSE @[b]]]

(* Cache blocks[num_cached+1 .. num_full] under the request's hashes.  A   *)
(* block in that range that already has a hash makes the code throw.       *)
NewFull(num_cached, num_full) == num_cached + 1 .. num_full

cache_full_blocks(pool, blocks, hashes, num_cached, num_full) ==
    LET new == NewFull(num_cached, num_full)
        at(b) == CHOOSE i \in new : blocks[i] = b
        full  == {blocks[i] : i \in new}
    IN  [pool EXCEPT
           !.block_hash = [b \in Blocks |-> IF b \in full THEN hashes[at(b)] ELSE @[b]],
           !.cached_block_hash_to_block = @ \cup {<<hashes[i], blocks[i]>> : i \in new}]

CacheFullBlocksThrows(pool, blocks, num_cached, num_full) ==
    \E i \in NewFull(num_cached, num_full) : pool.block_hash[blocks[i]] # NoHash

(* Mutant: the cache may be cleared while some block is free. *)
CanResetPrefixCache_AnyFree(pool) == get_num_free_blocks(pool) > 0

(* Clear the whole prefix cache; refused while any block has an owner.     *)
CanResetPrefixCache(pool) == NumGpuBlocks - get_num_free_blocks(pool) = 1
reset_prefix_cache(pool)  == remove_cached_block_hashes(pool, Blocks)
==============================================================================
