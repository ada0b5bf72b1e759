------------------------------- MODULE KVCache -------------------------------
(***************************************************************************)
(* The KV cache manager under every client that keeps the scheduler's      *)
(* protocol: one owner per block table, admissions through a prefix-cache  *)
(* lookup, growth of a running table, late caching of confirmed tokens,    *)
(* release, and reset of the prefix cache, in any order.  The Scheduler    *)
(* module is one such client.                                              *)
(***************************************************************************)
EXTENDS KVCacheManager

CONSTANTS Prompts,   \* the prompts a client may submit
          MaxTokens  \* bound of the model: tokens a request may reach

ASSUME ClientAssumption ==
    /\ Prompts \subseteq Seq(Token) \ {<< >>}
    /\ MaxTokens \in Nat

VARIABLES kv,        \* the manager
          toks,      \* request -> its known tokens, prompt then output
          computed   \* request -> num_computed_tokens

vars == <<kv, toks, computed>>

Init ==
    /\ kv = InitKV
    /\ toks = [r \in Req |-> << >>]
    /\ computed = [r \in Req |-> 0]

(* A request without blocks is submitted, anew or under a used id. *)
Submit(r, p) ==
    /\ r \notin Owners(kv)
    /\ toks' = [toks EXCEPT ![r] = p]
    /\ UNCHANGED <<kv, computed>>

(* Waiting loop of schedule(): look the prefix up, then allocate. *)
Admit(r, num_new, watermark) ==
    LET hits  == get_computed_blocks(kv, toks[r])
        start == Len(hits) * BlockSize
    IN  /\ r \notin Owners(kv)
        /\ toks[r] # << >>
        /\ start + num_new <= Least(Len(toks[r]), MaxModelLen)
        /\ CanAllocate(kv, r, start, num_new, hits, 0, watermark)
        /\ kv' = allocate_slots_waiting(kv, r, toks[r], hits, num_new)
        /\ computed' = [computed EXCEPT ![r] = start + num_new]
        /\ UNCHANGED toks

(* Running loop: num_new more tokens; one of them may still be in flight. *)
Extend(r, num_new) ==
    /\ r \in Owners(kv)
    /\ computed[r] + num_new <= Least(Len(toks[r]) + 1, MaxModelLen)
    /\ CanAllocate(kv, r, computed[r], num_new, << >>, 0, 0)
    /\ kv' = allocate_slots_running(kv, r, toks[r], computed[r], num_new)
    /\ computed' = [computed EXCEPT ![r] = @ + num_new]
    /\ UNCHANGED toks

(* An output token arrives.  The async scheduler then caches the blocks of *)
(* a running request up to its num_cached confirmed tokens; the other one  *)
(* leaves that to the next allocation.                                     *)
Output(r, t, num_cached) ==
    /\ toks[r] # << >>
    /\ Len(toks[r]) < MaxTokens
    /\ toks' = [toks EXCEPT ![r] = Append(@, t)]
    /\ num_cached <= computed[r]
    /\ num_cached <= Len(toks[r]) + 1
    /\ kv' = cache_blocks(kv, r, Append(toks[r], t), num_cached)
    /\ UNCHANGED computed

(* A request finishes, is aborted or is preempted. *)
Release(r) ==
    /\ r \in Owners(kv)
    /\ kv' = free(kv, r)
    /\ computed' = [computed EXCEPT ![r] = 0]
    /\ UNCHANGED toks

Reset ==
    /\ CanResetPrefixCache(kv.pool)
    /\ kv' = [kv EXCEPT !.pool = reset_prefix_cache(@)]
    /\ UNCHANGED <<toks, computed>>

Next ==
    \/ \E r \in Req, p \in Prompts : Submit(r, p)
    \/ \E r \in Req, n \in 1 .. MaxModelLen, w \in {0, WatermarkBlocks} : Admit(r, n, w)
    \/ \E r \in Req, n \in 1 .. MaxModelLen : Extend(r, n)
    \/ \E r \in Req, t \in Token, n \in 0 .. MaxModelLen : Output(r, t, n)
    \/ \E r \in Req : Release(r)
    \/ Reset

Spec == Init /\ [][Next]_vars

----------------------------------------------------------------------------
(* Properties *)

TypeInv ==
    /\ kv \in KVType
    /\ toks \in [Req -> Seq(Token)]
    /\ computed \in [Req -> Nat]

Table(r) == kv.req_to_blocks[r]
OwnersOf(b) == {r \in Req : b \in Range(Table(r))}

(* Every block's ref_cnt is the number of requests whose table holds it,   *)
(* and no table holds a block twice: touch, get_new_blocks and free_blocks *)
(* balance over any history of sharing, preemption and reuse.              *)
RefCountsExact ==
    /\ \A r \in Req : IsInjective(Table(r))
    /\ \A b \in Blocks : kv.pool.ref_cnt[b] = Cardinality(OwnersOf(b))

(* The free list holds exactly the blocks without owner, each once: no     *)
(* block leaks, none is handed out while owned.                            *)
FreeListExact ==
    /\ IsInjective(kv.pool.free_block_queue)
    /\ Range(kv.pool.free_block_queue) = {b \in Blocks : kv.pool.ref_cnt[b] = 0}

(* The hash map and the hashes the blocks carry are the same relation.     *)
HashMapExact ==
    kv.pool.cached_block_hash_to_block =
        {<<kv.pool.block_hash[b], b>> : b \in {c \in Blocks : kv.pool.block_hash[c] # NoHash}}

(* The pool's books balance.                                               *)
PoolExact == RefCountsExact /\ FreeListExact /\ HashMapExact

(* A request's cached blocks are cached under its own prefix, and the rest *)
(* of its table, where its next tokens go, is cached under nothing and     *)
(* owned by nobody else: a write never reaches a block another request     *)
(* reads.                                                                  *)
TablesMatchTokens ==
    \A r \in Req : \A i \in DOMAIN Table(r) :
        IF i <= kv.num_cached_block[r]
        THEN kv.pool.block_hash[Table(r)[i]] = SubSeq(toks[r], 1, i * BlockSize)
        ELSE /\ kv.pool.block_hash[Table(r)[i]] = NoHash
             /\ OwnersOf(Table(r)[i]) = {r}

(* What the attention kernel is told is common to all running requests     *)
(* really is: the counted blocks lead every table.                         *)
CommonPrefixShared ==
    \A r, s \in Owners(kv) : \A i \in 1 .. get_num_common_prefix_blocks(kv, r) :
        i \in DOMAIN Table(s) /\ Table(s)[i] = Table(r)[i]

(* What block tables promise their readers, between each other and to the  *)
(* kernel.                                                                 *)
TablesAgree == TablesMatchTokens /\ CommonPrefixShared

(* Every token a request has computed has a slot in its table. *)
SlotsCoverComputed ==
    \A r \in Owners(kv) : computed[r] <= Len(Table(r)) * BlockSize

(* allocate_slots checks capacity before it touches, pops and caches; the  *)
(* check leaves no throw reachable.                                        *)
NoFault == kv.fault = "none"

(* A cached block is useful only while its prefix is cached too.  Tail     *)
(* first freeing and tail first eviction keep it so: for every cached      *)
(* block some block of the parent prefix is cached and is either owned or  *)
(* evicted later.                                                          *)
FreeAt(b) == CHOOSE i \in DOMAIN kv.pool.free_block_queue : kv.pool.free_block_queue[i] = b
OutlivesInQueue(p, b) ==
    kv.pool.ref_cnt[p] > 0 \/ (kv.pool.ref_cnt[b] = 0 /\ FreeAt(p) > FreeAt(b))

PrefixOutlivesBlock ==
    \A b \in Blocks :
        Len(kv.pool.block_hash[b]) > BlockSize =>
            \E p \in CachedUnder(kv.pool, SubSeq(kv.pool.block_hash[b], 1,
                                                 Len(kv.pool.block_hash[b]) - BlockSize)) :
                OutlivesInQueue(p, b)

(* Blocks no later lookup can hit are reused before cached ones: no cached *)
(* block precedes an uncached one in the free list.                        *)
UncachedReusedFirst ==
    \A i, j \in DOMAIN kv.pool.free_block_queue :
        i < j /\ kv.pool.block_hash[kv.pool.free_block_queue[i]] # NoHash
            => kv.pool.block_hash[kv.pool.free_block_queue[j]] # NoHash

(* What is evicted first is what is needed least, on both counts.          *)
EvictionOrder == PrefixOutlivesBlock /\ UncachedReusedFirst
==============================================================================
