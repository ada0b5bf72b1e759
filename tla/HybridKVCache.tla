---------------------------- MODULE HybridKVCache ----------------------------
(***************************************************************************)
(* The KV cache of a model whose layers form several KV-cache groups:      *)
(* HybridKVCacheCoordinator (src/vllm/v1/core/kv_cache_coordinator.cpp)    *)
(* over one manager per group (single_type_kv_cache_manager.cpp), as       *)
(* KVCacheManager::allocate_slots and get_computed_blocks drive it, under  *)
(* every client that keeps the scheduler's protocol.                       *)
(*                                                                         *)
(* A group has one of four kinds.  "full" attention reads the whole        *)
(* prefix; "sliding" the last SlidingWindow tokens; "chunked" the tokens   *)
(* of the current chunk; "mamba" (cache mode none) only the state after    *)
(* the last token.  Blocks a group no longer reads are given back and      *)
(* their places in the block table taken by the null block.  A hit of the  *)
(* prefix cache must be usable in every group at once.                     *)
(*                                                                         *)
(* What a block holds is part of the model: the prefix whose last tokens,  *)
(* or whose state, are in it.  A step writes it when the step is executed, *)
(* after the blocks have been cached: allocate_slots caches ahead.         *)
(***************************************************************************)
EXTENDS BlockPool, SequencesExt, FiniteSetsExt, TLC

CONSTANTS Req,               \* request ids
          Layouts,           \* the models: a sequence of kinds, one per group
          SlidingWindow,     \* sliding_window
          ChunkSize,         \* attention_chunk_size
          MaxModelLen,       \* max_model_len
          MaxBatchedTokens,  \* max_num_batched_tokens
          WatermarkBlocks,   \* watermark_blocks
          ReserveFullIsl,    \* scheduler_reserve_full_isl
          Thresholds,        \* values of long_prefill_token_threshold
          toks,              \* request -> its tokens
          MaxAdmissions      \* a bound of the model: admissions in a behaviour

Kinds == {"full", "sliding", "chunked", "mamba"}
Null  == 0

(* Two kinds at least make a layout hybrid.  A window of one token keeps   *)
(* nothing of the past, a chunk is a whole number of blocks, and every     *)
(* sequence ends before the model length.                                  *)
ASSUME HybridAssumption ==
    /\ IsFiniteSet(Req)
    /\ Layouts \subseteq {l \in Seq(Kinds) : Cardinality(Range(l)) > 1}
    /\ EnableCaching
    /\ SlidingWindow \in Nat \ {0, 1}
    /\ ChunkSize \in Nat \ {0} /\ ChunkSize % BlockSize = 0
    /\ {MaxModelLen, MaxBatchedTokens} \subseteq Nat \ {0}
    /\ {WatermarkBlocks, MaxAdmissions} \subseteq Nat
    /\ ReserveFullIsl \in BOOLEAN
    /\ Thresholds \subseteq Nat \ {0}
    /\ toks \in [Req -> Seq(Token) \ {<< >>}]
    /\ \A r \in Req : Len(toks[r]) < MaxModelLen

VARIABLES layout,    \* the groups of the loaded model
          kv,        \* block pool, block tables and what the blocks hold
          computed,  \* request -> num_computed_tokens
          sched,     \* request -> num_scheduled_tokens of the current step
          admissions \* how many there have been

vars == <<layout, kv, computed, sched, admissions>>

Groups == DOMAIN layout

cdiv(n, d) == (n + d - 1) \div d
Least(a, b)    == IF a < b THEN a ELSE b
Greatest(a, b) == IF a > b THEN a ELSE b

(* n steps, each on what the one before has left. *)
Chain(op(_, _), base, n) ==
    LET after[i \in 0 .. n] == IF i = 0 THEN base ELSE op(after[i - 1], i)
    IN  after[n]

(* Hashes are made per group: one prefix, another block in every group.    *)
GroupPrefix(g, tk, n) == <<g>> \o SubSeq(tk, 1, n)
GroupHash(g, tk, i)   == GroupPrefix(g, tk, i * BlockSize)

----------------------------------------------------------------------------
(* What a group reads *)

(* Mutant: the window is one token short. *)
get_num_skipped_tokens_OffByOne(kind, n) ==
    CASE kind = "full"    -> 0
      [] kind = "sliding" -> Greatest(0, n - SlidingWindow + 2)
      [] kind = "chunked" -> (n \div ChunkSize) * ChunkSize
      [] kind = "mamba"   -> Greatest(0, n - 1)

(* get_num_skipped_tokens: of n computed tokens, how many no later token   *)
(* of the group reads.  (MambaManager says -1 for 0, with the effect of 0.) *)
get_num_skipped_tokens(kind, n) ==
    CASE kind = "full"    -> 0
      [] kind = "sliding" -> Greatest(0, n - SlidingWindow + 1)
      [] kind = "chunked" -> (n \div ChunkSize) * ChunkSize
      [] kind = "mamba"   -> Greatest(0, n - 1)

SkippedBlocks(kind, n) == get_num_skipped_tokens(kind, n) \div BlockSize

----------------------------------------------------------------------------
(* Prefix-cache lookup.  A manager's find_longest_cache_hit gives the      *)
(* length of its hit in blocks and which of them are real.                 *)

GroupsOf(kind) == {g \in Groups : layout[g] = kind}

(* get_cached_block: block i of tk is cached for all groups of one spec.   *)
HitAt(kind, tk, i) == \A g \in GroupsOf(kind) : CachedUnder(kv.pool, GroupHash(g, tk, i)) # {}

(* The blocks after the first s that are hit without a gap end here. *)
RunFrom(kind, tk, s, n) ==
    CHOOSE k \in s .. n : /\ \A i \in s + 1 .. k : HitAt(kind, tk, i)
                          /\ k < n => ~HitAt(kind, tk, k + 1)

NoHit == [len |-> 0, real |-> {}]

full_find(tk, n) ==
    LET k == RunFrom("full", tk, 0, n) IN [len |-> k, real |-> 1 .. k]

(* Mutant: the window's blocks are counted as if it began at a block's edge. *)
contiguous_blocks_for_hit_Aligned == (SlidingWindow - 1) \div BlockSize

(* Right to left for enough consecutive blocks to fill the window; failing *)
(* that, what there is from the first block on.                            *)
contiguous_blocks_for_hit == cdiv(SlidingWindow - 1, BlockSize)

sliding_find(tk, n) ==
    LET c    == contiguous_blocks_for_hit
        ends == {e \in c .. n : \A i \in e - c + 1 .. e : HitAt("sliding", tk, i)}
        k    == RunFrom("sliding", tk, 0, n)
    IN  IF ends = {} THEN [len |-> k, real |-> 1 .. k]
        ELSE [len |-> Max(ends), real |-> Max(ends) - c + 1 .. Max(ends)]

(* The blocks before the chunk of max_length are not needed. *)
chunked_find(tk, n, max_length) ==
    LET s == SkippedBlocks("chunked", max_length)
        k == RunFrom("chunked", tk, s, n)
    IN  [len |-> k, real |-> s + 1 .. k]

(* The last cached state will do. *)
mamba_find(tk, n) ==
    LET states == {i \in 1 .. n : HitAt("mamba", tk, i)}
    IN  IF states = {} THEN NoHit ELSE [len |-> Max(states), real |-> {Max(states)}]

find_in(kind, tk, max_length) ==
    LET n == Least(max_length, Len(tk)) \div BlockSize
    IN  CASE kind = "full"    -> full_find(tk, n)
          [] kind = "sliding" -> sliding_find(tk, n)
          [] kind = "chunked" -> chunked_find(tk, n, max_length)
          [] kind = "mamba"   -> mamba_find(tk, n)

(* verify_and_split_kv_cache_groups: the groups of one spec are looked up  *)
(* together, full attention first.                                         *)
attention_groups_of(l) ==
    LET groups == [g \in DOMAIN l |-> g]
        first  == {g \in DOMAIN l : \A h \in 1 .. g - 1 : l[h] # l[g]}
        fulls  == {g \in first : l[g] = "full"}
        order  == Keep(groups, fulls) \o Keep(groups, first \ fulls)
    IN  [i \in DOMAIN order |-> l[order[i]]]

AttentionGroups  == [l \in Layouts |-> attention_groups_of(l)]
attention_groups == AttentionGroups[layout]

is_simple_hybrid == Len(attention_groups) = 2 /\ attention_groups[1] = "full"

(* One pass over the specs, each looked up within the hit of those before. *)
TakeHit(acc, kind, hit) ==
    [length |-> hit.len * BlockSize, hit |-> [acc.hit EXCEPT ![kind] = hit]]

Pass(tk, hit_length) ==
    Chain(LAMBDA acc, i : TakeHit(acc, attention_groups[i],
                                  find_in(attention_groups[i], tk, acc.length)),
          [length |-> hit_length, hit |-> [k \in Kinds |-> NoHit]],
          Len(attention_groups))

(* Mutant: one pass, whatever a later spec has taken away from the first. *)
Settle_OnePass(tk) == Pass(tk, Len(tk) - 1)

(* The passes are repeated until one takes nothing away; with full         *)
(* attention and one other spec the first decides.  Full attention is      *)
(* looked up once and then only trimmed: its hits are downward closed.     *)
Settle(tk) ==
    LET settled[l \in 0 .. Len(tk)] ==
            LET pass == Pass(tk, l)
            IN  IF pass.length >= l \/ is_simple_hybrid THEN pass ELSE settled[pass.length]
    IN  settled[Len(tk) - 1]

(* The hit of every group, the null block where the group reads nothing.   *)
HitBlocks(tk, found) ==
    LET hit(g) == found.hit[layout[g]]
        len(g) == IF layout[g] = "full" THEN Least(hit(g).len, found.length \div BlockSize)
                                        ELSE hit(g).len
    IN  [g \in Groups |->
            [i \in 1 .. len(g) |-> IF i \in hit(g).real
                                   THEN get_cached_block(kv.pool, GroupHash(g, tk, i))
                                   ELSE Null]]

WithBlocks(tk, found) == [length |-> found.length, blocks |-> HitBlocks(tk, found)]

find_longest_cache_hit(tk) == WithBlocks(tk, Settle(tk))

----------------------------------------------------------------------------
(* Capacity *)

(* max_admission_blocks_per_request: what a request can hold at a time. *)
HasCap(kind) == kind \in {"sliding", "chunked"}
max_admission_blocks(kind) ==
    IF kind = "sliding"
    THEN cdiv(Least(SlidingWindow - 1 + MaxBatchedTokens, MaxModelLen), BlockSize) + 1
    ELSE cdiv(Least(ChunkSize + MaxBatchedTokens, MaxModelLen), BlockSize)

num_required_blocks(kind, num_tokens, apply_cap) ==
    IF apply_cap /\ HasCap(kind)
    THEN Least(cdiv(num_tokens, BlockSize), max_admission_blocks(kind))
    ELSE cdiv(num_tokens, BlockSize)

Running == {r \in Req : \E g \in Groups : kv.req_to_blocks[r][g] # << >>}

(* Mutant: a state of this very step is as good as any. *)
blocks_to_allocate_NoDeferral(k, r, g, num_tokens, hits, num_computed, apply_cap) ==
    LET required  == num_required_blocks(layout[g], num_tokens, apply_cap)
        skipped   == SkippedBlocks(layout[g], num_computed)
        evictable == {b \in {hits[i] : i \in {j \in DOMAIN hits : j > skipped}} :
                          b # Null /\ k.pool.ref_cnt[b] = 0}
    IN  IF r \in Running
        THEN Greatest(required - Len(k.req_to_blocks[r][g]), 0)
        ELSE Greatest(required - Greatest(skipped, Len(hits)), 0) + Cardinality(evictable)

(* Mutant: hit blocks nobody owns are taken to cost nothing. *)
blocks_to_allocate_HitsAreFree(k, r, g, num_tokens, hits, num_computed, apply_cap) ==
    LET required == num_required_blocks(layout[g], num_tokens, apply_cap)
        skipped  == SkippedBlocks(layout[g], num_computed)
    IN  IF r \in Running
        THEN Greatest(required - Len(k.req_to_blocks[r][g]), 0)
        ELSE Greatest(required - Greatest(skipped, Len(hits)), 0)

(* One manager's get_num_blocks_to_allocate.  A running request has no     *)
(* hits.  An admission counts, beside the new blocks, the hit blocks that  *)
(* nobody owns, for touching takes them off the free list.  A state that   *)
(* this very step computes cannot be built on yet: the answer is then more *)
(* than there is.                                                          *)
blocks_to_allocate(k, r, g, num_tokens, hits, num_computed, apply_cap) ==
    LET kind      == layout[g]
        required  == num_required_blocks(kind, num_tokens, apply_cap)
        skipped   == SkippedBlocks(kind, num_computed)
        evictable == {b \in {hits[i] : i \in {j \in DOMAIN hits : j > skipped}} :
                          b # Null /\ k.pool.ref_cnt[b] = 0}
    IN  IF kind = "mamba" /\ hits # << >>
           /\ k.pool.block_hash[Last(hits)] \in k.cached_blocks_this_step
        THEN NumGpuBlocks + 1
        ELSE IF r \in Running
        THEN Greatest(required - Len(k.req_to_blocks[r][g]), 0)
        ELSE Greatest(required - Greatest(skipped, Len(hits)), 0) + Cardinality(evictable)

get_num_blocks_to_allocate(k, r, num_tokens, hits, num_computed, apply_cap) ==
    SumFunction([g \in Groups |->
        blocks_to_allocate(k, r, g, num_tokens, hits[g], num_computed, apply_cap)])

NoHits == [g \in Groups |-> << >>]

(* The capacity checks of allocate_slots, as in KVCacheManager. *)
FullSequenceFits(r, hits, num_computed, watermark) ==
    ReserveFullIsl =>
    get_num_blocks_to_allocate(kv, r, Least(Len(toks[r]), MaxModelLen), hits, num_computed, TRUE)
        + watermark <= get_num_free_blocks(kv.pool)

SlotTokens(num_computed, num_new) == Least(num_computed + num_new, MaxModelLen)

SlotsFit(k, r, hits, num_computed, num_new, watermark) ==
    get_num_blocks_to_allocate(k, r, SlotTokens(num_computed, num_new), hits, num_computed, FALSE)
        + watermark <= get_num_free_blocks(k.pool)

----------------------------------------------------------------------------
(* Allocation, one manager after the other *)

Real(s) == Keep(s, Blocks)
InGroups(op(_, _), k) == Chain(op, k, Len(layout))

(* free_blocks leaves the null block alone.  What an uncached block held   *)
(* is forgotten with its last owner.                                       *)
give_back(k, blocks) ==
    LET pool == free_blocks(k.pool, Real(blocks))
    IN  [k EXCEPT !.pool = pool,
                  !.data = [b \in Blocks |-> IF pool.ref_cnt[b] = 0 /\ pool.block_hash[b] = NoHash
                                             THEN NoHash ELSE @[b]]]

(* Mutant: nothing is given back before the end. *)
remove_skipped_in_Never(k, r, g, num_computed) == k

(* Mutant: what is given back stays in the table. *)
remove_skipped_in_KeepsPlace(k, r, g, num_computed) ==
    LET table == k.req_to_blocks[r][g]
        last  == Least(SkippedBlocks(layout[g], num_computed), Len(table))
    IN  give_back(k, ReverseOf(SubSeq(table, 1, last)))

(* remove_skipped_blocks: from the last block not read any more leftwards, *)
(* up to the first that is gone already.                                   *)
remove_skipped_in(k, r, g, num_computed) ==
    LET table == k.req_to_blocks[r][g]
        last  == Least(SkippedBlocks(layout[g], num_computed), Len(table))
        gone  == {i \in 1 .. last : \A j \in i .. last : table[j] # Null}
    IN  [give_back(k, ReverseOf(Keep(SubSeq(table, 1, last), {table[i] : i \in gone})))
           EXCEPT !.req_to_blocks[r][g] = [i \in DOMAIN table |-> IF i \in gone THEN Null
                                                                  ELSE table[i]]]

remove_skipped_blocks(k, r, num_computed) ==
    InGroups(LAMBDA acc, g : remove_skipped_in(acc, r, g, num_computed), k)

(* add_local_computed_blocks: own the hits the group still reads. *)
add_local_computed_in(k, r, g, hits, num_computed) ==
    LET skipped == SkippedBlocks(layout[g], num_computed)
        kept    == SubSeq(hits, skipped + 1, Len(hits))
        table   == [i \in 1 .. skipped |-> Null] \o kept
    IN  [k EXCEPT !.pool = touch(@, Real(kept)),
                  !.req_to_blocks[r][g] = table,
                  !.num_cached_block[r][g] = Len(table)]

allocate_new_computed_blocks(k, r, hits, num_computed) ==
    InGroups(LAMBDA acc, g : add_local_computed_in(acc, r, g, hits[g], num_computed), k)

allocate_new_in(k, r, g, num_tokens) ==
    LET n     == Greatest(cdiv(num_tokens, BlockSize) - Len(k.req_to_blocks[r][g]), 0)
        taken == popleft_n(k.pool.free_block_queue, n).taken
    IN  IF n > get_num_free_blocks(k.pool)
        THEN [k EXCEPT !.fault = "no_free_blocks"]
        ELSE [k EXCEPT !.pool = get_new_blocks(@, n),
                       !.data = [b \in Blocks |-> IF b \in Range(taken) THEN NoHash ELSE @[b]],
                       !.req_to_blocks[r][g] = @ \o taken]

allocate_new_blocks(k, r, num_tokens) ==
    InGroups(LAMBDA acc, g : allocate_new_in(acc, r, g, num_tokens), k)

(* Cache the full blocks that hold the first num_tokens of tk, but for     *)
(* those that are gone; mamba notes the states of this step.               *)
cache_blocks_in(k, r, g, tk, num_tokens) ==
    LET table == k.req_to_blocks[r][g]
        full  == num_tokens \div BlockSize
        new   == {i \in k.num_cached_block[r][g] + 1 .. full : table[i] # Null}
        hashOf(b) == GroupHash(g, tk, CHOOSE i \in new : table[i] = b)
        blocks    == {table[i] : i \in new}
    IN  IF k.num_cached_block[r][g] >= full THEN k
        ELSE IF \E b \in blocks : k.pool.block_hash[b] # NoHash
        THEN [k EXCEPT !.fault = "block_already_hashed"]
        ELSE [k EXCEPT
                !.pool.block_hash = [b \in Blocks |-> IF b \in blocks THEN hashOf(b) ELSE @[b]],
                !.pool.cached_block_hash_to_block = @ \cup {<<hashOf(b), b>> : b \in blocks},
                !.num_cached_block[r][g] = full,
                !.cached_blocks_this_step =
                    IF layout[g] = "mamba" THEN @ \cup {hashOf(b) : b \in blocks} ELSE @]

cache_blocks(k, r, tk, num_tokens) ==
    InGroups(LAMBDA acc, g : cache_blocks_in(acc, r, g, tk, num_tokens), k)

(* Mutant: the blocks are freed and stay in the table. *)
free_in_KeepsTable(k, r, g) == give_back(k, ReverseOf(k.req_to_blocks[r][g]))

free_in(k, r, g) ==
    [give_back(k, ReverseOf(k.req_to_blocks[r][g]))
       EXCEPT !.req_to_blocks[r][g] = << >>, !.num_cached_block[r][g] = 0]

free(k, r) == InGroups(LAMBDA acc, g : free_in(acc, r, g), k)

(* The rest of allocate_slots once its checks have passed. *)
SlotsGiven(k, r, num_computed, num_new) ==
    cache_blocks(allocate_new_blocks(k, r, SlotTokens(num_computed, num_new)),
                 r, toks[r], Least(num_computed + num_new, Len(toks[r])))

----------------------------------------------------------------------------
(* A step's effect on the blocks: every block it computes tokens of then   *)
(* holds the prefix up to the last of them, or up to its own end.          *)
Before(r) == computed[r] - sched[r]

Held(r, g, i, num_tokens) == GroupPrefix(g, toks[r], Least(num_tokens, i * BlockSize))

WrittenBy(r, g) == Before(r) \div BlockSize + 1 .. cdiv(computed[r], BlockSize)

Writes ==
    UNION {{<<kv.req_to_blocks[r][g][i], Held(r, g, i, computed[r])>> : i \in WrittenBy(r, g)} :
             r \in {q \in Req : sched[q] > 0}, g \in Groups}

DataAfterStep ==
    [b \in Blocks |-> IF \E w \in Writes : w[1] = b
                      THEN (CHOOSE w \in Writes : w[1] = b)[2] ELSE kv.data[b]]

----------------------------------------------------------------------------
(* The client.  For the cache a decode is a chunk of one token, so that a  *)
(* request comes with the tokens it will end with.                         *)

Init ==
    /\ layout \in Layouts
    /\ kv = [pool |-> [free_block_queue |-> [i \in Blocks |-> i],
                       ref_cnt |-> [b \in Blocks |-> 0],
                       block_hash |-> [b \in Blocks |-> NoHash],
                       cached_block_hash_to_block |-> {}],
             req_to_blocks |-> [r \in Req |-> [g \in DOMAIN layout |-> << >>]],
             num_cached_block |-> [r \in Req |-> [g \in DOMAIN layout |-> 0]],
             cached_blocks_this_step |-> {},
             data |-> [b \in Blocks |-> NoHash],
             fault |-> "none"]
    /\ computed = [r \in Req |-> 0]
    /\ sched = [r \in Req |-> 0]
    /\ admissions = 0

(* What schedule() asks for: the rest of the sequence, within a threshold  *)
(* and the step's budget.                                                  *)
NewTokens(r, start, threshold) ==
    Least(Least(Len(toks[r]) - start, threshold), MaxBatchedTokens - SumFunction(sched))

(* Waiting loop of schedule(): look up, check, own the hits, allocate.  The *)
(* watermark is kept free while others run.                                 *)
AdmitWith(r, found, t) ==
    LET start     == found.length
        num_new   == NewTokens(r, start, t)
        watermark == IF Running = {} THEN 0 ELSE WatermarkBlocks
    IN  /\ num_new > 0
        /\ admissions < MaxAdmissions
        /\ FullSequenceFits(r, found.blocks, start, watermark)
        /\ SlotsFit(kv, r, found.blocks, start, num_new, watermark)
        /\ kv' = SlotsGiven(allocate_new_computed_blocks(kv, r, found.blocks, start),
                            r, start, num_new)
        /\ computed' = [computed EXCEPT ![r] = start + num_new]
        /\ sched' = [sched EXCEPT ![r] = num_new]
        /\ admissions' = admissions + 1
        /\ UNCHANGED layout

Admit(r) ==
    \E t \in Thresholds : AdmitWith(r, find_longest_cache_hit(toks[r]), t)

(* Running loop: what the request no longer reads is given back before the *)
(* check, and stays given back when the check fails.                       *)
Extend(r) ==
    LET k == remove_skipped_blocks(kv, r, computed[r])
    IN  \E t \in Thresholds :
            LET num_new == NewTokens(r, computed[r], t)
            IN  /\ num_new > 0
                /\ IF SlotsFit(k, r, NoHits, computed[r], num_new, 0)
                   THEN /\ kv' = SlotsGiven(k, r, computed[r], num_new)
                        /\ computed' = [computed EXCEPT ![r] = @ + num_new]
                        /\ sched' = [sched EXCEPT ![r] = num_new]
                   ELSE /\ kv' = k
                        /\ UNCHANGED <<computed, sched>>
                /\ UNCHANGED <<layout, admissions>>

(* The step is executed; new_step_starts opens the next one. *)
Execute ==
    /\ \E r \in Req : sched[r] > 0
    /\ kv' = [kv EXCEPT !.data = DataAfterStep, !.cached_blocks_this_step = {}]
    /\ sched' = [r \in Req |-> 0]
    /\ UNCHANGED <<layout, computed, admissions>>

(* A request finishes, is aborted, or is preempted before its turn. *)
Release(r) ==
    /\ kv' = free(kv, r)
    /\ computed' = [computed EXCEPT ![r] = 0]
    /\ UNCHANGED <<layout, sched, admissions>>

Next ==
    \/ \E r \in Req \ Running : Admit(r)
    \/ \E r \in Running : sched[r] = 0 /\ Extend(r)
    \/ Execute
    \/ \E r \in Running : sched[r] = 0 /\ Release(r)

Spec == Init /\ [][Next]_vars

----------------------------------------------------------------------------
(* Properties *)

TypeInv ==
    /\ layout \in Layouts
    /\ kv.pool.free_block_queue \in Seq(Blocks)
    /\ kv.pool.ref_cnt \in [Blocks -> Nat]
    /\ kv.req_to_blocks \in [Req -> [Groups -> Seq(Blocks \cup {Null})]]
    /\ kv.num_cached_block \in [Req -> [Groups -> Nat]]
    /\ kv.fault \in {"none", "no_free_blocks", "block_already_hashed"}
    /\ computed \in [Req -> Nat] /\ sched \in [Req -> Nat]
    /\ admissions \in 0 .. MaxAdmissions

Table(r, g)  == kv.req_to_blocks[r][g]
OwnersOf(b)  == {q \in Req \X Groups : b \in Range(Table(q[1], q[2]))}
RealAt(r, g) == {i \in DOMAIN Table(r, g) : Table(r, g)[i] # Null}

(* Reference counts, free list and hash map agree with the tables of all   *)
(* groups, whatever has been given back out of the middle of a table: no   *)
(* block leaks, none has an owner and is free, no table holds one twice,   *)
(* and the capacity check leaves no throw reachable.                       *)
RefCountsExact ==
    /\ \A r \in Req, g \in Groups : \A i, j \in RealAt(r, g) :
           Table(r, g)[i] = Table(r, g)[j] => i = j
    /\ \A b \in Blocks : kv.pool.ref_cnt[b] = Cardinality(OwnersOf(b))

FreeListExact ==
    /\ IsInjective(kv.pool.free_block_queue)
    /\ Range(kv.pool.free_block_queue) = {b \in Blocks : kv.pool.ref_cnt[b] = 0}

HashMapExact ==
    kv.pool.cached_block_hash_to_block =
        {<<kv.pool.block_hash[b], b>> : b \in {c \in Blocks : kv.pool.block_hash[c] # NoHash}}

PoolExact == RefCountsExact /\ FreeListExact /\ HashMapExact /\ kv.fault = "none"

(* The positions the token at position n reads, as its group's attention   *)
(* mask or recurrence has it.                                              *)
Reads(kind, n) ==
    {p \in 0 .. n : CASE kind = "full"    -> TRUE
                      [] kind = "sliding" -> n - p < SlidingWindow
                      [] kind = "chunked" -> p \div ChunkSize = n \div ChunkSize
                      [] kind = "mamba"   -> n - p <= 1}

BlocksOf(positions) == {p \div BlockSize + 1 : p \in positions}

BlocksRead(r, g) == BlocksOf(UNION {Reads(layout[g], n) : n \in Before(r) .. computed[r] - 1})

(* What a step reads is what the request computed, or what another one     *)
(* computed of the same prefix: in every group every block that holds a    *)
(* token the group still reads is real and holds it.  Attention sees what  *)
(* the other requests of the step write; a recurrent state is read before. *)
(* No two requests write one block.                                        *)
ReadsOwnPrefix ==
    /\ \A v, w \in Writes : v[1] = w[1] => v = w
    /\ \A r \in {q \in Req : sched[q] > 0}, g \in Groups : \A i \in BlocksRead(r, g) :
           /\ i \in RealAt(r, g)
           /\ IF layout[g] = "mamba"
              THEN i <= cdiv(Before(r), BlockSize) =>
                       kv.data[Table(r, g)[i]] = Held(r, g, i, Before(r))
              ELSE DataAfterStep[Table(r, g)[i]] = Held(r, g, i, computed[r])

(* What its admission was told a request can hold is enough: one that was  *)
(* admitted with room for its whole sequence is refused nothing once it    *)
(* has the pool for itself, because what its groups have stopped reading   *)
(* is given back in time.                                                  *)
AdmissionIsEnough ==
    \A r \in Req : ReserveFullIsl /\ Running = {r} /\ sched[r] = 0 =>
        \A t \in Thresholds :
            SlotsFit(remove_skipped_blocks(kv, r, computed[r]), r, NoHits,
                     computed[r], NewTokens(r, computed[r], t), 0)

WindowsServed == ReadsOwnPrefix /\ AdmissionIsEnough

(* The hit is the longest one every group can use: right in length, real   *)
(* where the group reads, cached under the request's own prefix; and no    *)
(* longer one, short of the whole sequence, would do.                      *)
BlocksHit(g, n) == BlocksOf(Reads(layout[g], n * BlockSize)) \cap 1 .. n

UsableIn(g, tk, n) == \A i \in BlocksHit(g, n) : HitAt(layout[g], tk, i)

HitIsLongest ==
    \A r \in Req \ Running :
        LET hit == find_longest_cache_hit(toks[r])
            n   == hit.length \div BlockSize
        IN  /\ \A g \in Groups :
                   /\ Len(hit.blocks[g]) = n /\ hit.length = n * BlockSize
                   /\ \A i \in BlocksHit(g, n) :
                          <<GroupHash(g, toks[r], i), hit.blocks[g][i]>>
                              \in kv.pool.cached_block_hash_to_block
            /\ \A m \in n + 1 .. (Len(toks[r]) - 1) \div BlockSize :
                   \E g \in Groups : ~UsableIn(g, toks[r], m)
==============================================================================
