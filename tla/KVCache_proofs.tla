--------------------------- MODULE KVCache_proofs ---------------------------
(***************************************************************************)
(* The invariants of KVCache hold for every pool size, block size, set of  *)
(* requests and prompts, and whatever the watermark.                       *)
(*                                                                         *)
(* The inductive invariant is one conjunction because its parts need each  *)
(* other: a capacity check prevents a throw only if the free list is the   *)
(* set of unowned blocks, which needs exact reference counts, which need   *)
(* tables without repetition; a lookup returns such a table only if the    *)
(* hash map and the blocks agree; and caching finds its blocks unhashed    *)
(* only if every table matches the tokens of its request.                  *)
(***************************************************************************)
EXTENDS KVCache, KVCacheManager_proofs

Slots(r) == computed[r] <= Len(kv.req_to_blocks[r]) * BlockSize

IInv ==
    /\ Consistent(kv, toks)
    /\ kv.fault = "none"
    /\ computed \in [Req -> Nat]
    /\ \A r \in Req : Slots(r)

(* The constructor leaves an empty and consistent manager. *)
LEMMA InitIInv == Init => IInv
<1> SUFFICES ASSUME Init PROVE IInv
  OBVIOUS
<1>1. toks \in [Req -> Seq(Token)] /\ computed \in [Req -> Nat]
  BY DEF Init
<1>2. Consistent(kv, toks) /\ kv.fault = "none"
  BY <1>1, InitConsistent DEF Init
<1>3. ASSUME NEW r \in Req PROVE Slots(r)
  <2>1. kv.req_to_blocks[r] = << >> /\ computed[r] = 0
    BY DEF Init, InitKV
  <2>2. Len(kv.req_to_blocks[r]) = 0 /\ 0 * BlockSize = 0
    BY <2>1, PoolAssumption
  <2> QED  BY <2>1, <2>2 DEF Slots
<1> QED  BY <1>1, <1>2, <1>3 DEF IInv

----------------------------------------------------------------------------
(* One lemma per action *)

(* A new prompt replaces the tokens of a request that owns no block. *)
LEMMA SubmitKeeps ==
  ASSUME IInv, NEW r \in Req, NEW p \in Prompts, Submit(r, p)
  PROVE  IInv'
<1>1. kv.req_to_blocks[r] = << >> /\ p \in Seq(Token)
  BY ClientAssumption DEF Submit, Owners
<1>2. Consistent(kv, [toks EXCEPT ![r] = p])
  BY <1>1, MoreTokensKeeps DEF IInv
<1>3. kv' = kv /\ toks' = [toks EXCEPT ![r] = p] /\ computed' = computed
  BY DEF Submit
<1> QED  BY <1>2, <1>3 DEF IInv, Slots

(* What an allocation of num more tokens, from c on, leaves behind. *)
LEMMA AllocationKeeps ==
  ASSUME IInv, NEW r \in Req, NEW c, NEW num \in Nat,
         toks' = toks, computed' = [computed EXCEPT ![r] = c + num],
         Allocated(kv, kv', toks, r, c, num)
  PROVE  IInv'
<1>0. /\ c \in Nat
      /\ Consistent(kv', toks) /\ kv'.fault = kv.fault
      /\ c + num <= Len(kv'.req_to_blocks[r]) * BlockSize
      /\ \A s \in Req : s # r => kv'.req_to_blocks[s] = kv.req_to_blocks[s]
  BY DEF Allocated
<1>1. computed \in [Req -> Nat] /\ \A s \in Req : Slots(s)
  BY DEF IInv
<1>2. computed' \in [Req -> Nat] /\ computed'[r] = c + num
      /\ \A s \in Req : s # r => computed'[s] = computed[s]
  BY <1>0, <1>1
<1>3. ASSUME NEW s \in Req PROVE Slots(s)'
  BY <1>0, <1>1, <1>2 DEF Slots
<1>4. Consistent(kv, toks)' /\ kv'.fault = "none"
  BY <1>0 DEF IInv
<1> QED  BY <1>2, <1>3, <1>4 DEF IInv

(* An admission takes the cached prefix, then new blocks. *)
LEMMA AdmitKeeps ==
  ASSUME IInv, NEW r \in Req, NEW n \in 1 .. MaxModelLen, NEW w \in {0, WatermarkBlocks},
         Admit(r, n, w)
  PROVE  IInv'
<1> DEFINE hits  == get_computed_blocks(kv, toks[r])
           start == Len(hits) * BlockSize
<1>1. /\ kv.req_to_blocks[r] = << >> /\ toks[r] # << >>
      /\ CanAllocate(kv, r, start, n, hits, 0, w)
      /\ kv' = allocate_slots_waiting(kv, r, toks[r], hits, n)
      /\ computed' = [computed EXCEPT ![r] = start + n]
      /\ toks' = toks
  BY DEF Admit, Owners
<1>2. n \in Nat /\ w \in Nat /\ MaxModelLen \in Nat
  BY ManagerAssumption
<1>3. Consistent(kv, toks) /\ kv.fault = "none"
  BY DEF IInv
<1>4. start \in Nat
  <2>1. /\ toks[r] \in Seq(Token) /\ BlockSize \in Nat /\ kv.pool \in PoolType
        /\ HashMapOK(kv.pool)
    BY <1>3, ManagerFields, PoolAssumption DEF Consistent
  <2>2. hits \in Seq(Blocks)
    BY <1>1, <2>1, LookupFacts
  <2>3. Len(hits) \in Nat
    BY <2>2
  <2> QED  BY <2>1, <2>3, TimesMonotonic
<1>5. start + n <= MaxModelLen
  <2>1. start + n <= Least(Len(toks[r]), MaxModelLen)
    BY DEF Admit
  <2>2. Len(toks[r]) \in Nat
    BY <1>3, ManagerFields
  <2> HIDE DEF start, hits
  <2> QED  BY <1>2, <1>4, <2>1, <2>2 DEF Least
<1> HIDE DEF start
<1>6. start = Len(hits) * BlockSize
  BY DEF start
<1> HIDE DEF hits
<1>7. hits = get_computed_blocks(kv, toks[r])
  BY DEF hits
<1>8. Allocated(kv, kv', toks, r, start, n)
  <2>1. Allocated(kv, allocate_slots_waiting(kv, r, toks[r], hits, n), toks, r, start, n)
    BY <1>1, <1>2, <1>3, <1>5, <1>6, <1>7, WaitingKeeps
  <2> QED  BY <1>1, <2>1
<1> QED  BY <1>1, <1>2, <1>8, AllocationKeeps

(* A running request grows its own table only. *)
LEMMA ExtendKeeps ==
  ASSUME IInv, NEW r \in Req, NEW n \in 1 .. MaxModelLen, Extend(r, n)
  PROVE  IInv'
<1> DEFINE c == computed[r]
<1>1. /\ CanAllocate(kv, r, c, n, << >>, 0, 0)
      /\ kv' = allocate_slots_running(kv, r, toks[r], c, n)
      /\ computed' = [computed EXCEPT ![r] = c + n]
      /\ toks' = toks
  BY DEF Extend, IInv
<1>2. n \in Nat /\ MaxModelLen \in Nat /\ c \in Nat
  BY ManagerAssumption DEF IInv
<1>3. Consistent(kv, toks)
  BY DEF IInv
<1>4. c + n <= MaxModelLen
  <2>1. c + n <= Least(Len(toks[r]) + 1, MaxModelLen) /\ Len(toks[r]) \in Nat
    BY <1>3, ManagerFields DEF Extend
  <2> QED  BY <1>2, <2>1 DEF Least
<1> HIDE DEF c
<1>5. Allocated(kv, kv', toks, r, c, n)
  <2>1. Allocated(kv, allocate_slots_running(kv, r, toks[r], c, n), toks, r, c, n)
    BY <1>1, <1>2, <1>3, <1>4, RunningKeeps
  <2> QED  BY <1>1, <2>1
<1> QED  BY <1>1, <1>2, <1>5, AllocationKeeps

(* A token arrives, and confirmed blocks may be cached. *)
LEMMA OutputKeeps ==
  ASSUME IInv, NEW r \in Req, NEW t \in Token, NEW n \in 0 .. MaxModelLen, Output(r, t, n)
  PROVE  IInv'
<1> DEFINE ts    == Append(toks[r], t)
           toks2 == [toks EXCEPT ![r] = ts]
<1>1. /\ toks' = toks2 /\ kv' = cache_blocks(kv, r, ts, n) /\ computed' = computed
      /\ n <= computed[r] /\ n <= Len(toks[r]) + 1
  BY DEF Output
<1>2. /\ n \in Nat /\ BlockSize \in Nat /\ computed[r] \in Nat
      /\ toks[r] \in Seq(Token) /\ toks \in [Req -> Seq(Token)]
      /\ Len(kv.req_to_blocks[r]) \in Nat
  BY ManagerFields, ManagerAssumption, PoolAssumption DEF IInv
<1>3. /\ ts \in Seq(Token) /\ Len(ts) = Len(toks[r]) + 1 /\ Len(toks[r]) \in Nat
      /\ \A i \in 1 .. Len(toks[r]) : ts[i] = toks[r][i]
  BY <1>2
<1> HIDE DEF ts
<1>4. Consistent(kv, toks2)
  <2>1. Len(toks[r]) <= Len(ts)
    BY <1>3
  <2> QED  BY <1>3, <2>1, MoreTokensKeeps DEF IInv
<1>5. toks2[r] = ts
  BY <1>2
<1> HIDE DEF toks2
<1>6. n <= Len(kv.req_to_blocks[r]) * BlockSize
  <2> DEFINE x == Len(kv.req_to_blocks[r]) * BlockSize
  <2>1. x \in Nat /\ computed[r] <= x
    BY <1>2, TimesMonotonic DEF IInv, Slots
  <2> HIDE DEF x
  <2>2. n <= x
    BY <1>1, <1>2, <2>1
  <2> QED  BY <2>2 DEF x
<1>7. n <= Len(toks2[r])
  BY <1>1, <1>3, <1>5
<1> DEFINE k1 == cache_blocks(kv, r, toks2[r], n)
<1>8. Consistent(k1, toks2)
  BY <1>2, <1>4, <1>6, <1>7, CacheBlocksKeeps
<1>9. k1.fault = kv.fault
  BY <1>2, <1>4, <1>6, <1>7, CacheBlocksKeeps
<1>10. k1.req_to_blocks = kv.req_to_blocks
  BY <1>2, <1>4, <1>6, <1>7, CacheBlocksKeeps
<1>11. kv' = k1
  BY <1>1, <1>5
<1> HIDE DEF k1
<1> QED  BY <1>1, <1>8, <1>9, <1>10, <1>11 DEF IInv, Slots

(* A request gives its blocks back. *)
LEMMA ReleaseKeeps ==
  ASSUME IInv, NEW r \in Req, Release(r)
  PROVE  IInv'
<1>1. kv' = free(kv, r) /\ computed' = [computed EXCEPT ![r] = 0] /\ toks' = toks
  BY DEF Release
<1>2. /\ Consistent(kv', toks) /\ kv'.fault = kv.fault
      /\ kv'.req_to_blocks = [kv.req_to_blocks EXCEPT ![r] = << >>]
  BY <1>1, FreeKeeps DEF IInv
<1>3. kv.req_to_blocks \in [Req -> Seq(Blocks)] /\ computed \in [Req -> Nat]
  BY ManagerFields DEF IInv
<1>4. ASSUME NEW s \in Req PROVE Slots(s)'
  <2>1. CASE s = r
    <3>1. kv'.req_to_blocks[s] = << >> /\ computed'[s] = 0
      BY <1>1, <1>2, <1>3, <2>1
    <3>2. Len(kv'.req_to_blocks[s]) = 0 /\ 0 * BlockSize = 0
      BY <3>1, PoolAssumption
    <3> QED  BY <3>1, <3>2 DEF Slots
  <2>2. CASE s # r
    <3>1. kv'.req_to_blocks[s] = kv.req_to_blocks[s] /\ computed'[s] = computed[s]
      BY <1>1, <1>2, <1>3, <2>2
    <3> QED  BY <3>1 DEF IInv, Slots
  <2> QED  BY <2>1, <2>2
<1> QED  BY <1>1, <1>2, <1>3, <1>4 DEF IInv

(* The prefix cache is dropped while nobody owns a block. *)
LEMMA ResetActionKeeps ==
  ASSUME IInv, Reset
  PROVE  IInv'
<1>1. /\ CanResetPrefixCache(kv.pool)
      /\ kv' = [kv EXCEPT !.pool = reset_prefix_cache(@)]
      /\ toks' = toks /\ computed' = computed
  BY DEF Reset
<1>2. /\ Consistent(kv', toks) /\ kv'.fault = kv.fault
      /\ kv'.req_to_blocks = kv.req_to_blocks
  BY <1>1, ResetKeeps DEF IInv
<1> QED  BY <1>1, <1>2 DEF IInv, Slots

(* Every step keeps the inductive invariant. *)
LEMMA NextIInv == IInv /\ [Next]_vars => IInv'
<1> SUFFICES ASSUME IInv, [Next]_vars PROVE IInv'
  OBVIOUS
<1>1. ASSUME NEW r \in Req, NEW p \in Prompts, Submit(r, p) PROVE IInv'
  BY <1>1, SubmitKeeps
<1>2. ASSUME NEW r \in Req, NEW n \in 1 .. MaxModelLen, NEW w \in {0, WatermarkBlocks},
             Admit(r, n, w)
      PROVE  IInv'
  BY <1>2, AdmitKeeps
<1>3. ASSUME NEW r \in Req, NEW n \in 1 .. MaxModelLen, Extend(r, n) PROVE IInv'
  BY <1>3, ExtendKeeps
<1>4. ASSUME NEW r \in Req, NEW t \in Token, NEW n \in 0 .. MaxModelLen, Output(r, t, n)
      PROVE  IInv'
  BY <1>4, OutputKeeps
<1>5. ASSUME NEW r \in Req, Release(r) PROVE IInv'
  BY <1>5, ReleaseKeeps
<1>6. CASE Reset
  BY <1>6, ResetActionKeeps
<1>7. CASE UNCHANGED vars
  BY <1>7 DEF vars, IInv, Slots
<1> QED  BY <1>1, <1>2, <1>3, <1>4, <1>5, <1>6, <1>7 DEF Next

----------------------------------------------------------------------------
(* Theorems *)

(* Multiplying by the block size keeps order. *)
LEMMA ScaledOrder ==
  ASSUME NEW a \in Nat, NEW c \in Nat
  PROVE  /\ a <= c => a * BlockSize <= c * BlockSize
         /\ a * BlockSize = c * BlockSize => a = c
<1>1. BlockSize \in Nat /\ BlockSize > 0
  BY PoolAssumption
<1>2. ASSUME a < c PROVE a * BlockSize < c * BlockSize
  <2>1. c = a + (c - a) /\ c - a > 0 /\ c - a \in Nat
    BY <1>2
  <2>2. c * BlockSize = a * BlockSize + (c - a) * BlockSize
    BY <1>1, <2>1
  <2>3. (c - a) * BlockSize > 0
    BY <1>1, <2>1
  <2> QED  BY <1>1, <2>2, <2>3
<1>3. ASSUME c < a PROVE c * BlockSize < a * BlockSize
  <2>1. a = c + (a - c) /\ a - c > 0 /\ a - c \in Nat
    BY <1>3
  <2>2. a * BlockSize = c * BlockSize + (a - c) * BlockSize
    BY <1>1, <2>1
  <2>3. (a - c) * BlockSize > 0
    BY <1>1, <2>1
  <2> QED  BY <1>1, <2>2, <2>3
<1>4. a < c \/ a = c \/ c < a
  OBVIOUS
<1>5. a * BlockSize \in Nat /\ c * BlockSize \in Nat
  BY <1>1
<1> QED  BY <1>2, <1>3, <1>4, <1>5

(* The inductive invariant holds in every reachable state. *)
THEOREM Invariance == Spec => []IInv
<1> QED  BY InitIInv, NextIInv, PTL DEF Spec

(* Every field of the manager keeps its type: ids stay ids of the pool,    *)
(* reference counts and cached-block counts never go below zero.           *)
THEOREM TypeCorrect == Spec => []TypeInv
<1>1. IInv => TypeInv
  BY DEF IInv, Consistent, TypeInv
<1> QED  BY <1>1, Invariance, PTL

(* The pool's books balance over any history of touch, get_new_blocks,     *)
(* free_blocks and cache_full_blocks: a block's ref_cnt is the number of   *)
(* requests whose table holds it, the free list is the set of blocks       *)
(* without owner, each once, and the prefix-cache map never names a block  *)
(* that holds something else.                                              *)
THEOREM PoolIsExact == Spec => []PoolExact
<1>1. IInv => RefCountsExact
  BY DEF IInv, Consistent, RefCounts, RefCountsExact, OwnersIn, OwnersOf, Table
<1>2. IInv => FreeListExact
  BY DEF IInv, Consistent, FreeListOK, FreeListExact
<1>3. IInv => HashMapExact
  BY DEF IInv, Consistent, HashMapOK, HashMapExact
<1>4. IInv => PoolExact
  BY <1>1, <1>2, <1>3 DEF PoolExact
<1> QED  BY <1>4, Invariance, PTL

(* A request's cached blocks hold its own prefix, and its next tokens go   *)
(* to blocks nobody else owns and no lookup finds.                         *)
LEMMA InvariantTables == IInv => TablesMatchTokens
<1> QED  BY DEF IInv, Consistent, Tables, EntryMatches, TablesMatchTokens, OwnersIn, OwnersOf, Table

(* The counted blocks are the first ones: the count stops at a block that  *)
(* not every request owns.                                                 *)
LEMMA CountedAreCommon ==
  ASSUME IInv, NEW r \in Req, NEW i \in 1 .. get_num_common_prefix_blocks(kv, r)
  PROVE  /\ i \in DOMAIN kv.req_to_blocks[r]
         /\ kv.pool.ref_cnt[kv.req_to_blocks[r][i]] = Cardinality(Owners(kv))
<1> DEFINE t == kv.req_to_blocks[r]
           S == {n \in DOMAIN t : \A j \in 1 .. n : kv.pool.ref_cnt[t[j]] = Cardinality(Owners(kv))}
<1>1. Len(t) \in Nat /\ DOMAIN t = 1 .. Len(t)
  BY ManagerFields DEF IInv
<1>2. /\ Cardinality(S) = get_num_common_prefix_blocks(kv, r)
      /\ S \subseteq 1 .. Len(t)
  BY <1>1 DEF get_num_common_prefix_blocks
<1>3. IsFiniteSet(1 .. Len(t)) /\ Cardinality(1 .. Len(t)) = Len(t)
  BY <1>1, FS_Interval
<1>4. IsFiniteSet(S) /\ Cardinality(S) \in Nat /\ Cardinality(S) <= Len(t)
  BY <1>2, <1>3, FS_Subset, FS_CardinalityType
<1>5. i \in Nat \ {0} /\ i <= Cardinality(S) /\ i \in DOMAIN t
  <2> DEFINE g == get_num_common_prefix_blocks(kv, r)
  <2>1. i \in 1 .. g /\ Cardinality(S) = g
    BY <1>2
  <2> HIDE DEF S, t, g
  <2> QED  BY <1>1, <1>4, <2>1
<1>6. ASSUME i \notin S PROVE FALSE
  <2>1. \A n \in S : \A j \in 1 .. n : j \in S
    BY <1>1, <1>2
  <2>2. S \subseteq 1 .. (i - 1)
    <3>1. ASSUME NEW n \in S PROVE n \in 1 .. (i - 1)
      <4>1. n \in Nat \ {0} /\ i \notin 1 .. n
        BY <1>1, <1>2, <1>6, <2>1, <3>1
      <4> HIDE DEF S
      <4> QED  BY <1>5, <4>1
    <3> HIDE DEF S
    <3> QED  BY <3>1
  <2>3. IsFiniteSet(1 .. (i - 1)) /\ Cardinality(1 .. (i - 1)) = i - 1
    <3>1. 1 \in Int /\ i - 1 \in Int /\ i - 1 >= 0
      BY <1>5
    <3>2. 1 > i - 1 => i - 1 = 0
      BY <1>5
    <3> HIDE DEF S, t
    <3> QED  BY <3>1, <3>2, FS_Interval
  <2>4. Cardinality(S) <= i - 1
    <3> HIDE DEF S
    <3> QED  BY <2>2, <2>3, FS_Subset
  <2> HIDE DEF S
  <2> QED  BY <1>4, <1>5, <2>4
<1>7. i \in 1 .. i
  BY <1>5
<1> QED  BY <1>5, <1>6, <1>7

(* A block that as many requests own as there are requests with a table is *)
(* in every table, and at the same place: its hash tells how long a prefix *)
(* it ends.                                                                *)
LEMMA InvariantCommonPrefix == IInv => CommonPrefixShared
<1> SUFFICES ASSUME IInv, NEW r \in Owners(kv), NEW s \in Owners(kv),
                    NEW i \in 1 .. get_num_common_prefix_blocks(kv, r)
             PROVE  i \in DOMAIN Table(s) /\ Table(s)[i] = Table(r)[i]
  BY DEF CommonPrefixShared
<1>0. r \in Req /\ s \in Req /\ Owners(kv) \subseteq Req
  BY DEF Owners
<1> DEFINE b == Table(r)[i]
<1>1. i \in DOMAIN Table(r) /\ kv.pool.ref_cnt[b] = Cardinality(Owners(kv))
  BY <1>0, CountedAreCommon DEF Table
<1>2. /\ Table(r) \in Seq(Blocks) /\ Table(s) \in Seq(Blocks)
      /\ toks[r] \in Seq(Token) /\ toks[s] \in Seq(Token)
      /\ kv.num_cached_block \in [Req -> Nat]
  BY <1>0, ManagerFields DEF IInv, Table, Consistent
<1>3. /\ DOMAIN Table(r) = 1 .. Len(Table(r)) /\ DOMAIN Table(s) = 1 .. Len(Table(s))
      /\ Len(Table(r)) \in Nat /\ Len(Table(s)) \in Nat
  BY <1>2
<1>4. b \in Blocks /\ i \in Nat
  BY <1>1, <1>2, <1>3
<1>5. OwnersOf(b) = OwnersIn(kv, b)
  BY DEF OwnersOf, OwnersIn, Table
<1>6. kv.pool.ref_cnt[b] = Cardinality(OwnersOf(b))
  BY <1>4, <1>5 DEF IInv, Consistent, RefCounts
<1>7. OwnersOf(b) \subseteq Owners(kv)
  <2>1. ASSUME NEW q \in OwnersOf(b) PROVE q \in Owners(kv)
    <3>1. q \in Req /\ b \in Range(Table(q))
      BY <2>1 DEF OwnersOf
    <3>2. CASE Table(q) = << >>
      BY <3>1, <3>2 DEF Range
    <3>3. CASE Table(q) # << >>
      BY <3>1, <3>3 DEF Owners, Table
    <3> QED  BY <3>2, <3>3
  <2> QED  BY <2>1
<1>8. IsFiniteSet(Owners(kv))
  BY <1>0, ManagerAssumption, FS_Subset
<1>9. OwnersOf(b) = Owners(kv)
  BY <1>1, <1>6, <1>7, <1>8, FS_Subset
<1>10. PICK j \in DOMAIN Table(s) : Table(s)[j] = b
  BY <1>9 DEF OwnersOf, Range
<1>11. CASE s = r
  BY <1>1, <1>11
<1>12. CASE s # r
  <2>1. OwnersOf(b) # {r} /\ OwnersOf(b) # {s}
    BY <1>9, <1>12
  <2>2. /\ i <= kv.num_cached_block[r]
        /\ kv.pool.block_hash[b] = SubSeq(toks[r], 1, i * BlockSize)
    BY <1>0, <1>1, <2>1, InvariantTables DEF TablesMatchTokens
  <2>3. /\ j <= kv.num_cached_block[s]
        /\ kv.pool.block_hash[b] = SubSeq(toks[s], 1, j * BlockSize)
    BY <1>0, <1>10, <2>1, InvariantTables DEF TablesMatchTokens
  <2>4. ASSUME NEW q \in Req, NEW n \in Nat, n <= kv.num_cached_block[q]
        PROVE  n * BlockSize <= Len(toks[q])
    <3>1. /\ kv.num_cached_block[q] \in Nat
          /\ kv.num_cached_block[q] * BlockSize <= Len(toks[q])
          /\ Len(toks[q]) \in Nat
      BY <1>2, ManagerFields DEF IInv, Consistent, Tables
    <3> QED  BY <2>4, <3>1, PoolAssumption, ScaledOrder
  <2>5. j \in Nat
    BY <1>3
  <2>6. i * BlockSize <= Len(toks[r]) /\ j * BlockSize <= Len(toks[s])
    BY <1>0, <1>4, <2>2, <2>3, <2>4, <2>5
  <2>7. i * BlockSize \in Nat /\ j * BlockSize \in Nat
    BY <1>4, <2>5, PoolAssumption
  <2>8. /\ Len(SubSeq(toks[r], 1, i * BlockSize)) = i * BlockSize
        /\ Len(SubSeq(toks[s], 1, j * BlockSize)) = j * BlockSize
    BY <1>2, <2>6, <2>7
  <2>9. i * BlockSize = j * BlockSize
    BY <2>2, <2>3, <2>8
  <2>10. i = j
    BY <1>4, <2>5, <2>9, PoolAssumption, ScaledOrder
  <2> QED  BY <1>10, <2>10
<1> QED  BY <1>11, <1>12

(* What a table says it holds, what its readers share and what the kernel  *)
(* is told they share agree.                                               *)
THEOREM TablesAlwaysAgree == Spec => []TablesAgree
<1>1. IInv => TablesAgree
  BY InvariantTables, InvariantCommonPrefix DEF TablesAgree
<1> QED  BY <1>1, Invariance, PTL

(* A request never has more tokens computed than slots in its table. *)
THEOREM SlotsAlwaysCoverComputed == Spec => []SlotsCoverComputed
<1>1. IInv => SlotsCoverComputed
  BY DEF IInv, Slots, SlotsCoverComputed, Table, Owners
<1> QED  BY <1>1, Invariance, PTL

(* The capacity check of allocate_slots makes every throw behind it        *)
(* unreachable: enough free blocks, and no block cached twice.             *)
THEOREM NeverFaults == Spec => []NoFault
<1>1. IInv => NoFault
  BY DEF IInv, NoFault
<1> QED  BY <1>1, Invariance, PTL
(* The place of a free block in the free list. *)
LEMMA FreePlace ==
  ASSUME IInv, NEW b \in Blocks, kv.pool.ref_cnt[b] = 0
  PROVE  LET q == kv.pool.free_block_queue
         IN  FreeAt(b) \in 1 .. Len(q) /\ q[FreeAt(b)] = b
<1>1. /\ kv.pool.free_block_queue \in Seq(Blocks)
      /\ Range(kv.pool.free_block_queue) = {c \in Blocks : kv.pool.ref_cnt[c] = 0}
  BY ManagerFields, PoolFields DEF IInv, Consistent, FreeListOK
<1>2. b \in Range(kv.pool.free_block_queue)
  BY <1>1
<1>3. \E i \in DOMAIN kv.pool.free_block_queue : kv.pool.free_block_queue[i] = b
  BY <1>2 DEF Range
<1>4. FreeAt(b) \in DOMAIN kv.pool.free_block_queue /\ kv.pool.free_block_queue[FreeAt(b)] = b
  BY <1>3 DEF FreeAt
<1> QED  BY <1>1, <1>4

(* Cached blocks are evicted after all others, and none before the blocks  *)
(* that continue it: for every cached block some block of its parent       *)
(* prefix is owned or is evicted later.  A prefix that a lookup can still  *)
(* use is so never lost to a block that it makes useless.                  *)
THEOREM EvictionIsOrdered == Spec => []EvictionOrder
<1> DEFINE q == kv.pool.free_block_queue
           hash == kv.pool.block_hash
           ref == kv.pool.ref_cnt
<1>1. ASSUME IInv
      PROVE  /\ q \in Seq(Blocks) /\ DOMAIN q = 1 .. Len(q) /\ Len(q) \in Nat
             /\ IsInjective(q) /\ Range(q) = {c \in Blocks : ref[c] = 0}
             /\ hash \in [Blocks -> Hash] /\ \A b \in Blocks : ref[b] \in Nat
             /\ kv.pool.cached_block_hash_to_block =
                  {<<hash[b], b>> : b \in {c \in Blocks : hash[c] # NoHash}}
  BY <1>1, ManagerFields, PoolFields DEF IInv, Consistent, FreeListOK, HashMapOK
<1>2. ASSUME IInv, NEW i \in DOMAIN q, NEW j \in DOMAIN q, i < j, hash[q[i]] # NoHash
      PROVE  hash[q[j]] # NoHash
  <2>1. q[i] \in Blocks /\ q[j] \in Blocks
    BY <1>1, <1>2
  <2>2. Behind(q, q[i], q[j])
    BY <1>2 DEF Behind
  <2> QED  BY <1>2, <2>1, <2>2 DEF IInv, Consistent, Evicting, Bare
<1>3. ASSUME IInv, NEW b \in Blocks, Len(hash[b]) > BlockSize
      PROVE  \E p \in CachedUnder(kv.pool, ParentOf(hash[b])) : OutlivesInQueue(p, b)
  <2>1. ParentOf(hash[b]) # NoHash
    BY <1>1, <1>3, ParentHash
  <2>2. \A p \in Blocks : hash[p] = ParentOf(hash[b]) => p \in CachedUnder(kv.pool, ParentOf(hash[b]))
    BY <1>1, <1>3, <2>1 DEF CachedUnder
  <2>3. CASE ref[b] = 0
    <3>1. PICK p \in Blocks : hash[p] = ParentOf(hash[b]) /\ (ref[p] > 0 \/ Behind(q, b, p))
      BY <1>3, <2>3 DEF IInv, Consistent, Evicting, Heads
    <3>2. CASE ref[p] > 0
      BY <2>2, <3>1, <3>2 DEF OutlivesInQueue
    <3>3. CASE Behind(q, b, p)
      <4>1. PICK i \in DOMAIN q : \E j \in DOMAIN q : i < j /\ q[i] = b /\ q[j] = p
        BY <3>3 DEF Behind
      <4>2. PICK j \in DOMAIN q : i < j /\ q[i] = b /\ q[j] = p
        BY <4>1
      <4>3. ref[p] = 0
        BY <1>1, <1>3, <3>3, BehindInList
      <4>4. FreeAt(b) \in 1 .. Len(q) /\ q[FreeAt(b)] = b /\ FreeAt(p) \in 1 .. Len(q) /\ q[FreeAt(p)] = p
        BY <1>3, <2>3, <4>3, FreePlace
      <4>5. FreeAt(b) = i /\ FreeAt(p) = j
        BY <1>1, <1>3, <4>2, <4>4 DEF IsInjective
      <4>6. FreeAt(p) > FreeAt(b)
        BY <1>1, <1>3, <4>2, <4>5
      <4> QED  BY <2>2, <2>3, <3>1, <4>6 DEF OutlivesInQueue
    <3> QED  BY <3>1, <3>2, <3>3
  <2>4. CASE ref[b] # 0
    <3>1. OwnersIn(kv, b) # {}
      <4>1. ref[b] = Cardinality(OwnersIn(kv, b))
        BY <1>3 DEF IInv, Consistent, RefCounts
      <4> QED  BY <2>4, <4>1, FS_EmptySet
    <3>2. PICK r \in Req : b \in Range(kv.req_to_blocks[r])
      BY <3>1 DEF OwnersIn
    <3>3. PICK p \in Range(kv.req_to_blocks[r]) : hash[p] = ParentOf(hash[b])
      BY <1>3, <3>2, PrefixBefore DEF IInv
    <3>4. p \in Blocks /\ ref[p] > 0
      BY <1>3, ManagerFields DEF IInv
    <3> QED  BY <2>2, <3>3, <3>4 DEF OutlivesInQueue
  <2> QED  BY <2>3, <2>4
<1>4. IInv => EvictionOrder
  <2>1. ASSUME IInv PROVE UncachedReusedFirst
    BY <1>2, <2>1 DEF UncachedReusedFirst
  <2>2. ASSUME IInv PROVE PrefixOutlivesBlock
    BY <1>3, <2>2 DEF PrefixOutlivesBlock, ParentOf
  <2> QED  BY <2>1, <2>2 DEF EvictionOrder
<1> QED  BY <1>4, Invariance, PTL
=============================================================================
