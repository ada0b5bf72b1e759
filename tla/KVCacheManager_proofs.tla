------------------------ MODULE KVCacheManager_proofs ------------------------
(***************************************************************************)
(* Every operation of the KV cache manager keeps the manager consistent.   *)
(* The state of the manager is a parameter here; KVCache_proofs puts the   *)
(* operations together into a theorem about every history.                 *)
(***************************************************************************)
EXTENDS KVCacheManager, BlockPool_proofs, SequenceTheorems

OwnersIn(k, b) == {r \in Req : b \in Range(k.req_to_blocks[r])}

RefCounts(k) ==
    /\ \A r \in Req : IsInjective(k.req_to_blocks[r])
    /\ \A b \in Blocks : k.pool.ref_cnt[b] = Cardinality(OwnersIn(k, b))

(* A block holds the tokens its owner's table says it holds. *)
EntryMatches(k, toks, r, i) ==
    LET b == k.req_to_blocks[r][i]
    IN  IF i <= k.num_cached_block[r]
        THEN k.pool.block_hash[b] = SubSeq(toks[r], 1, i * BlockSize)
        ELSE k.pool.block_hash[b] = NoHash /\ OwnersIn(k, b) = {r}

Tables(k, toks) ==
    \A r \in Req :
        /\ k.num_cached_block[r] <= Len(k.req_to_blocks[r])
        /\ k.num_cached_block[r] * BlockSize <= Len(toks[r])
        /\ \A i \in DOMAIN k.req_to_blocks[r] : EntryMatches(k, toks, r, i)

Consistent(k, toks) ==
    /\ k \in KVType
    /\ toks \in [Req -> Seq(Token)]
    /\ RefCounts(k)
    /\ FreeListOK(k.pool)
    /\ HashMapOK(k.pool)
    /\ Tables(k, toks)
    /\ Evicting(k.pool)

----------------------------------------------------------------------------
(* A block has finitely many owners, so ref_cnt can count them. *)
LEMMA OwnersFinite ==
  ASSUME NEW k, NEW b
  PROVE  IsFiniteSet(OwnersIn(k, b)) /\ Cardinality(OwnersIn(k, b)) \in Nat
<1>1. OwnersIn(k, b) \in SUBSET Req
  BY DEF OwnersIn
<1> QED  BY <1>1, ManagerAssumption, FS_Subset, FS_CardinalityType

----------------------------------------------------------------------------
(* What consistency says of each field of the manager. *)
LEMMA ManagerFields ==
  ASSUME NEW k, NEW toks, Consistent(k, toks)
  PROVE  /\ k.pool \in PoolType /\ k.fault \in Faults
         /\ k.req_to_blocks \in [Req -> Seq(Blocks)]
         /\ k.num_cached_block \in [Req -> Nat]
         /\ toks \in [Req -> Seq(Token)]
         /\ \A r \in Req : IsInjective(k.req_to_blocks[r])
         /\ \A b \in Blocks : k.pool.ref_cnt[b] \in Nat
         /\ \A r \in Req : \A b \in Range(k.req_to_blocks[r]) :
              b \in Blocks /\ k.pool.ref_cnt[b] > 0
<1>1. /\ k.pool \in PoolType /\ k.fault \in Faults
      /\ k.req_to_blocks \in [Req -> Seq(Blocks)]
      /\ k.num_cached_block \in [Req -> Nat]
      /\ toks \in [Req -> Seq(Token)]
  BY DEF Consistent, KVType
<1>2. \A r \in Req : IsInjective(k.req_to_blocks[r])
  BY DEF Consistent, RefCounts
<1>3. \A b \in Blocks : k.pool.ref_cnt[b] \in Nat
  BY OwnersFinite DEF Consistent, RefCounts
<1>4. ASSUME NEW r \in Req, NEW b \in Range(k.req_to_blocks[r])
      PROVE  b \in Blocks /\ k.pool.ref_cnt[b] > 0
  <2>1. b \in Blocks
    BY <1>1 DEF Range
  <2>2. r \in OwnersIn(k, b)
    BY DEF OwnersIn
  <2>3. Cardinality(OwnersIn(k, b)) # 0
    BY <2>2, OwnersFinite, FS_EmptySet
  <2> QED  BY <1>3, <2>1, <2>3 DEF Consistent, RefCounts
<1> QED  BY <1>1, <1>2, <1>3, <1>4

----------------------------------------------------------------------------
(* In a table a cached block follows one of its parent prefix, so given    *)
(* back in reverse it comes before it.                                     *)
LEMMA PrefixBefore ==
  ASSUME NEW k, NEW toks, Consistent(k, toks), NEW r \in Req,
         NEW b \in Range(k.req_to_blocks[r]), Len(k.pool.block_hash[b]) > BlockSize
  PROVE  \E p \in Range(k.req_to_blocks[r]) :
             /\ k.pool.block_hash[p] = ParentOf(k.pool.block_hash[b])
             /\ Behind(ReverseOf(k.req_to_blocks[r]), b, p)
<1> DEFINE t == k.req_to_blocks[r]
           l == Len(t)
           m == k.num_cached_block[r]
           ts == toks[r]
           hash == k.pool.block_hash
           size == m * BlockSize
<1>1. /\ t \in Seq(Blocks) /\ l \in Nat /\ DOMAIN t = 1 .. l /\ m \in Nat
      /\ ts \in Seq(Token) /\ Len(ts) \in Nat /\ BlockSize \in Nat \ {0}
      /\ m <= l /\ size <= Len(ts)
  BY ManagerFields, PoolAssumption DEF Consistent, Tables
<1>2. ReverseOf(t) = [i \in 1 .. l |-> t[l + 1 - i]]
  BY DEF ReverseOf
<1>3. \A i \in 1 .. l : IF i <= m THEN hash[t[i]] = SubSeq(ts, 1, i * BlockSize)
                                 ELSE hash[t[i]] = NoHash
  <2>1. \A i \in DOMAIN t : EntryMatches(k, toks, r, i)
    BY DEF Consistent, Tables
  <2> QED  BY <1>1, <2>1 DEF EntryMatches
<1>4. PICK i \in 1 .. l : t[i] = b
  BY <1>1 DEF Range
<1>5. hash[b] # NoHash
  <2>1. Len(NoHash) = 0
    BY DEF NoHash
  <2> QED  BY <1>1, <2>1
<1>6. i <= m /\ hash[b] = SubSeq(ts, 1, i * BlockSize)
  <2> HIDE DEF hash, t, l, m, ts
  <2> QED  BY <1>3, <1>4, <1>5
<1>7. Len(hash[b]) > BlockSize
  OBVIOUS
<1> HIDE DEF hash, t, l, m, ts, size
<1> DEFINE x == i * BlockSize
           y == (i - 1) * BlockSize
<1>8. x \in Nat /\ x <= Len(ts)
  <2>1. i \in Nat /\ x <= size /\ x \in Nat /\ size \in Nat
    BY <1>1, <1>6, TimesMonotonic DEF size
  <2> HIDE DEF x
  <2> QED  BY <1>1, <2>1
<1>9. y = x - BlockSize
  BY <1>1
<1> HIDE DEF x, y
<1>10. Len(hash[b]) = x
  <2>1. Len(SubSeq(ts, 1, x)) = x
    BY <1>1, <1>8
  <2> QED  BY <1>6, <2>1 DEF x
<1>11. x > BlockSize /\ y \in Nat /\ y > 0 /\ y <= x
  BY <1>1, <1>7, <1>8, <1>9, <1>10
<1>12. i - 1 \in 1 .. l /\ i - 1 <= m
  <2>1. i # 1
    <3>1. 1 * BlockSize = BlockSize
      BY <1>1
    <3> QED  BY <1>1, <1>11, <3>1 DEF x
  <2> QED  BY <1>1, <1>6, <2>1
<1>13. hash[t[i - 1]] = ParentOf(hash[b])
  <2>1. hash[t[i - 1]] = SubSeq(ts, 1, y)
    BY <1>3, <1>12 DEF y
  <2>2. SubSeq(SubSeq(ts, 1, x), 1, y) = SubSeq(ts, 1, y)
    <3>1. SubSeq(ts, 1, x) \in Seq(Token) /\ Len(SubSeq(ts, 1, x)) = x
          /\ \A j \in 1 .. x : SubSeq(ts, 1, x)[j] = ts[j]
      BY <1>1, <1>8
    <3> DEFINE u == SubSeq(ts, 1, x)
    <3> HIDE DEF u
    <3>2. u \in Seq(Token) /\ Len(u) = x /\ \A j \in 1 .. x : u[j] = ts[j]
      BY <3>1 DEF u
    <3>3. \A j \in 1 .. y : u[j] = ts[j]
      BY <1>8, <1>11, <3>2
    <3>4. SubSeq(u, 1, y) = [j \in 1 .. y |-> u[j]] /\ SubSeq(ts, 1, y) = [j \in 1 .. y |-> ts[j]]
      BY <1>1, <1>8, <1>11, <3>2
    <3> QED  BY <3>3, <3>4 DEF u
  <2>3. ParentOf(hash[b]) = SubSeq(hash[b], 1, y)
    BY <1>9, <1>10 DEF ParentOf
  <2> QED  BY <1>6, <2>1, <2>2, <2>3 DEF x
<1>14. Behind(ReverseOf(t), b, t[i - 1])
  <2>1. /\ l + 1 - i \in 1 .. l /\ l + 1 - (l + 1 - i) = i
        /\ l + 2 - i \in 1 .. l /\ l + 1 - (l + 2 - i) = i - 1
        /\ l + 1 - i < l + 2 - i
    BY <1>1, <1>12
  <2> DEFINE v == ReverseOf(t)
  <2>2. DOMAIN v = 1 .. l /\ v[l + 1 - i] = t[i] /\ v[l + 2 - i] = t[i - 1]
    <3>1. v = [j \in 1 .. l |-> t[l + 1 - j]]
      BY <1>2
    <3> HIDE DEF v
    <3> QED  BY <2>1, <3>1
  <2> HIDE DEF v
  <2>3. Behind(v, b, t[i - 1])
    BY <1>4, <2>1, <2>2 DEF Behind
  <2> QED  BY <2>3 DEF v
<1>15. t[i - 1] \in Range(t)
  BY <1>1, <1>12 DEF Range
<1> QED  BY <1>13, <1>14, <1>15 DEF hash, t

----------------------------------------------------------------------------
(* free takes a request off the owners of its blocks and disturbs no other *)
(* table.                                                                  *)
LEMMA FreeKeeps ==
  ASSUME NEW k, NEW toks, Consistent(k, toks), NEW r \in Req
  PROVE  /\ Consistent(free(k, r), toks)
         /\ free(k, r).fault = k.fault
         /\ free(k, r).req_to_blocks = [k.req_to_blocks EXCEPT ![r] = << >>]
<1> DEFINE t == k.req_to_blocks[r]
           P == free_blocks(k.pool, ReverseOf(t))
           k1 == free(k, r)
<1>1. /\ k \in KVType /\ k.pool \in PoolType /\ k.fault \in Faults /\ t \in Seq(Blocks)
      /\ k.req_to_blocks \in [Req -> Seq(Blocks)]
      /\ k.num_cached_block \in [Req -> Nat]
      /\ toks \in [Req -> Seq(Token)]
  BY ManagerFields DEF Consistent
<1>2. /\ P \in PoolType /\ FreeListOK(P)
      /\ P.ref_cnt = [b \in Blocks |-> IF b \in Range(t) THEN k.pool.ref_cnt[b] - 1
                                                      ELSE k.pool.ref_cnt[b]]
      /\ P.block_hash = k.pool.block_hash
      /\ P.cached_block_hash_to_block = k.pool.cached_block_hash_to_block
  <2>1. /\ ReverseOf(t) \in Seq(Blocks) /\ Range(ReverseOf(t)) = Range(t)
        /\ IsInjective(ReverseOf(t))
    BY <1>1, ManagerFields, ReverseFacts
  <2>2. \A b \in Range(ReverseOf(t)) : k.pool.ref_cnt[b] > 0
    BY <2>1, ManagerFields
  <2>3. FreeListOK(k.pool)
    BY DEF Consistent
  <2> DEFINE v == ReverseOf(t)
  <2> HIDE DEF t, v
  <2>4. LET p == free_blocks(k.pool, v)
        IN  /\ p \in PoolType
            /\ FreeListOK(p)
            /\ p.ref_cnt = [b \in Blocks |-> IF b \in Range(v) THEN k.pool.ref_cnt[b] - 1
                                                             ELSE k.pool.ref_cnt[b]]
            /\ p.block_hash = k.pool.block_hash
            /\ p.cached_block_hash_to_block = k.pool.cached_block_hash_to_block
    BY <1>1, <2>1, <2>2, <2>3, FreeBlocksPool DEF v
  <2>5. Range(v) = Range(t)
    BY <2>1 DEF v
  <2> QED  BY <2>4, <2>5 DEF v
<1> HIDE DEF P
<1>3. /\ k1.pool = P
      /\ k1.req_to_blocks = [k.req_to_blocks EXCEPT ![r] = << >>]
      /\ k1.num_cached_block = [k.num_cached_block EXCEPT ![r] = 0]
      /\ k1.fault = k.fault
      /\ k1 \in KVType
  <2> DEFINE T2 == [k.req_to_blocks EXCEPT ![r] = << >>]
             N2 == [k.num_cached_block EXCEPT ![r] = 0]
  <2>1. k1 = [k EXCEPT !.pool = P, !.req_to_blocks = T2, !.num_cached_block = N2]
    BY <1>1 DEF free, P, KVType
  <2>2. T2 \in [Req -> Seq(Blocks)] /\ N2 \in [Req -> Nat]
    BY <1>1
  <2> HIDE DEF k1, T2, N2
  <2>3. /\ k1.pool = P /\ k1.req_to_blocks = T2 /\ k1.num_cached_block = N2
        /\ k1.fault = k.fault /\ k1 \in KVType
    BY <1>1, <1>2, <2>1, <2>2 DEF KVType
  <2> QED  BY <2>3 DEF T2, N2
<1> HIDE DEF k1
<1>4. ASSUME NEW b \in Blocks
      PROVE  OwnersIn(k1, b) = OwnersIn(k, b) \ {r}
  <2>1. Range(k1.req_to_blocks[r]) = {}
    BY <1>1, <1>3 DEF Range
  <2>2. \A s \in Req : s # r => k1.req_to_blocks[s] = k.req_to_blocks[s]
    BY <1>1, <1>3
  <2> QED  BY <2>1, <2>2 DEF OwnersIn
<1>5. RefCounts(k1)
  <2>1. \A s \in Req : IsInjective(k1.req_to_blocks[s])
    <3>1. IsInjective(<< >>)
      BY DEF IsInjective
    <3> QED  BY <1>1, <1>3, <3>1, ManagerFields
  <2>2. ASSUME NEW b \in Blocks
        PROVE  k1.pool.ref_cnt[b] = Cardinality(OwnersIn(k1, b))
    <3>1. b \in Range(t) <=> r \in OwnersIn(k, b)
      BY DEF OwnersIn
    <3>2. k.pool.ref_cnt[b] = Cardinality(OwnersIn(k, b))
      BY DEF Consistent, RefCounts
    <3>3. Cardinality(OwnersIn(k, b) \ {r}) = IF r \in OwnersIn(k, b)
                                             THEN Cardinality(OwnersIn(k, b)) - 1
                                             ELSE Cardinality(OwnersIn(k, b))
      BY OwnersFinite, FS_RemoveElement
    <3> QED  BY <1>2, <1>3, <1>4, <3>1, <3>2, <3>3
  <2> QED  BY <2>1, <2>2 DEF RefCounts
<1>6. HashMapOK(k1.pool)
  BY <1>2, <1>3 DEF Consistent, HashMapOK
<1>7. Tables(k1, toks)
  <2> SUFFICES ASSUME NEW s \in Req
               PROVE  /\ k1.num_cached_block[s] <= Len(k1.req_to_blocks[s])
                      /\ k1.num_cached_block[s] * BlockSize <= Len(toks[s])
                      /\ \A i \in DOMAIN k1.req_to_blocks[s] : EntryMatches(k1, toks, s, i)
    BY DEF Tables
  <2>1. CASE s = r
    <3>1. k1.req_to_blocks[s] = << >> /\ k1.num_cached_block[s] = 0
      BY <1>1, <1>3, <2>1
    <3>2. 0 * BlockSize = 0 /\ Len(toks[s]) \in Nat
      BY <1>1, PoolAssumption
    <3> QED  BY <3>1, <3>2
  <2>2. CASE s # r
    <3>1. /\ k1.req_to_blocks[s] = k.req_to_blocks[s]
          /\ k1.num_cached_block[s] = k.num_cached_block[s]
      BY <1>1, <1>3, <2>2
    <3>2. /\ k.num_cached_block[s] <= Len(k.req_to_blocks[s])
          /\ k.num_cached_block[s] * BlockSize <= Len(toks[s])
      BY DEF Consistent, Tables
    <3>3. ASSUME NEW i \in DOMAIN k.req_to_blocks[s]
          PROVE  EntryMatches(k1, toks, s, i)
      <4>1. EntryMatches(k, toks, s, i)
        BY DEF Consistent, Tables
      <4>2. k.req_to_blocks[s][i] \in Blocks
        BY <1>1
      <4>3. k1.pool.block_hash = k.pool.block_hash
        BY <1>2, <1>3
      <4>4. OwnersIn(k, k.req_to_blocks[s][i]) = {s}
              => OwnersIn(k1, k.req_to_blocks[s][i]) = {s}
        BY <1>4, <2>2, <4>2
      <4> QED  BY <3>1, <4>1, <4>3, <4>4 DEF EntryMatches
    <3> QED  BY <3>1, <3>2, <3>3
  <2> QED  BY <2>1, <2>2
<1>8. Evicting(P)
  <2> DEFINE v == ReverseOf(t)
  <2>1. /\ v \in Seq(Blocks) /\ Range(v) = Range(t) /\ IsInjective(v)
        /\ \A b \in Range(v) : k.pool.ref_cnt[b] > 0
    BY <1>1, ManagerFields, ReverseFacts
  <2>2. \A b \in Range(t) : Len(k.pool.block_hash[b]) > BlockSize =>
            \E p \in Range(t) : /\ k.pool.block_hash[p] = ParentOf(k.pool.block_hash[b])
                                /\ Behind(v, b, p)
    BY PrefixBefore
  <2>3. \A b \in Blocks : k.pool.ref_cnt[b] >= 0
    BY ManagerFields
  <2> HIDE DEF v
  <2> QED  BY <1>1, <2>1, <2>2, <2>3, FreeBlocksEvicts DEF Consistent, P, v
<1> QED  BY <1>1, <1>2, <1>3, <1>5, <1>6, <1>7, <1>8 DEF Consistent, k1

----------------------------------------------------------------------------
(* A lookup returns distinct blocks, cached under the prefixes of the      *)
(* request, that leave at least one token to compute.                      *)
LEMMA LookupFacts ==
  ASSUME NEW k, k.pool \in PoolType, HashMapOK(k.pool),
         NEW ts \in Seq(Token), ts # << >>
  PROVE  LET hits == get_computed_blocks(k, ts)
         IN  /\ hits \in Seq(Blocks) /\ IsInjective(hits)
             /\ Len(hits) * BlockSize < Len(ts)
             /\ \A i \in 1 .. Len(hits) :
                  /\ k.pool.block_hash[hits[i]] = SubSeq(ts, 1, i * BlockSize)
                  /\ k.pool.block_hash[hits[i]] # NoHash
<1> DEFINE hashes == block_hashes(ts)
           max == (Len(ts) - 1) \div BlockSize
           n == Least(max, Len(hashes))
           Longest(m) == /\ HitUpTo(k, hashes, m)
                         /\ m < n => CachedUnder(k.pool, hashes[m + 1]) = {}
           len == CHOOSE m \in 0 .. n : Longest(m)
           hits == get_computed_blocks(k, ts)
<1>1. Len(ts) \in Nat /\ Len(ts) > 0 /\ BlockSize \in Nat \ {0}
  BY PoolAssumption
<1>2. CASE ~EnableCaching
  <2>1. hits = << >>
    BY <1>2 DEF get_computed_blocks
  <2>2. Len(hits) * BlockSize = 0
    BY <1>1, <2>1
  <2> HIDE DEF hits
  <2> QED  BY <1>1, <2>1, <2>2 DEF IsInjective, hits
<1>3. CASE EnableCaching
  <2>1. /\ hashes \in Seq(Hash) /\ Len(hashes) = Len(ts) \div BlockSize
        /\ \A i \in 1 .. Len(ts) \div BlockSize :
             /\ hashes[i] = SubSeq(ts, 1, i * BlockSize)
             /\ Len(hashes[i]) = i * BlockSize
             /\ hashes[i] # NoHash
    BY BlockHashes
  <2>2. max \in Nat /\ max * BlockSize <= Len(ts) - 1
    BY <1>1, DivBounds
  <2>3. n \in Nat /\ n <= max /\ n <= Len(hashes) /\ Len(hashes) \in Nat
    BY <2>1, <2>2 DEF Least
  <2> HIDE DEF hashes, max, n
  <2>4. \E m \in 0 .. n : Longest(m)
    <3> DEFINE Missing == {m \in 1 .. n : CachedUnder(k.pool, hashes[m]) = {}}
    <3>1. CASE Missing = {}
      <4>1. HitUpTo(k, hashes, n)
        BY <3>1 DEF HitUpTo
      <4> QED  BY <2>3, <4>1
    <3>2. CASE Missing # {}
      <4>1. PICK m \in Missing : \A x \in Missing : m <= x
        BY <2>3, <3>2, LeastNatural, Missing \subseteq Nat
      <4>2. m \in 1 .. n /\ m - 1 \in 0 .. n /\ (m - 1) + 1 = m
        BY <2>3, <4>1
      <4>3. HitUpTo(k, hashes, m - 1)
        <5> SUFFICES ASSUME NEW i \in 1 .. m - 1 PROVE CachedUnder(k.pool, hashes[i]) # {}
          BY DEF HitUpTo
        <5>1. i \in 1 .. n /\ ~(m <= i)
          BY <2>3, <4>2
        <5> QED  BY <4>1, <5>1
      <4>4. CachedUnder(k.pool, hashes[m]) = {}
        BY <4>1
      <4> QED  BY <4>2, <4>3, <4>4
    <3> QED  BY <3>1, <3>2
  <2>5. len \in 0 .. n /\ HitUpTo(k, hashes, len)
    BY <2>4
  <2>6. hits = [i \in 1 .. len |-> get_cached_block(k.pool, hashes[i])]
    BY <1>3 DEF get_computed_blocks, find_longest_cache_hit, hashes, max, n
  <2> HIDE DEF len, hits
  <2>7. ASSUME NEW i \in 1 .. len
        PROVE  /\ hits[i] \in Blocks
               /\ k.pool.block_hash[hits[i]] = hashes[i]
    <3>1. CachedUnder(k.pool, hashes[i]) # {}
      BY <2>5 DEF HitUpTo
    <3>2. hits[i] \in CachedUnder(k.pool, hashes[i])
      BY <2>6, <3>1, CachedBlock
    <3>3. hits[i] \in Blocks /\ <<hashes[i], hits[i]>> \in k.pool.cached_block_hash_to_block
      BY <3>2 DEF CachedUnder
    <3> QED  BY <3>3 DEF HashMapOK
  <2>8. hits \in Seq(Blocks) /\ Len(hits) = len /\ DOMAIN hits = 1 .. len
    BY <2>3, <2>5, <2>6, <2>7
  <2>9. \A i \in 1 .. len : /\ i \in 1 .. Len(ts) \div BlockSize /\ i \in Nat
                            /\ hashes[i] = SubSeq(ts, 1, i * BlockSize)
                            /\ Len(hashes[i]) = i * BlockSize
                            /\ hashes[i] # NoHash
    BY <2>1, <2>3, <2>5
  <2>10. IsInjective(hits)
    <3> SUFFICES ASSUME NEW i \in 1 .. len, NEW j \in 1 .. len, hits[i] = hits[j]
                 PROVE  i = j
      BY <2>8 DEF IsInjective
    <3>1. i * BlockSize = j * BlockSize
      BY <2>7, <2>9
    <3>2. i <= j /\ j <= i
      <4>1. i \in Nat /\ j \in Nat /\ i * BlockSize \in Nat /\ j * BlockSize \in Nat
        BY <1>1, <2>9
      <4> QED  BY <1>1, <3>1, <4>1, TimesCancels
    <3> QED  BY <2>9, <3>2
  <2>11. len * BlockSize < Len(ts)
    <3>1. len \in Nat /\ len <= max
      BY <2>2, <2>3, <2>5
    <3>2. len * BlockSize \in Nat /\ len * BlockSize <= max * BlockSize
      BY <1>1, <2>2, <3>1, TimesMonotonic
    <3>3. max * BlockSize \in Nat
      BY <1>1, <2>2, TimesMonotonic
    <3> QED  BY <1>1, <2>2, <3>2, <3>3
  <2> QED  BY <2>7, <2>8, <2>9, <2>10, <2>11 DEF hits
<1> QED  BY <1>2, <1>3

----------------------------------------------------------------------------
(* A request without blocks takes over the blocks its lookup hit.          *)
LEMMA TakeHitsKeeps ==
  ASSUME NEW k, NEW toks, Consistent(k, toks), NEW r \in Req, k.req_to_blocks[r] = << >>,
         NEW hits \in Seq(Blocks), IsInjective(hits), Len(hits) * BlockSize <= Len(toks[r]),
         \A i \in 1 .. Len(hits) :
            /\ k.pool.block_hash[hits[i]] = SubSeq(toks[r], 1, i * BlockSize)
            /\ k.pool.block_hash[hits[i]] # NoHash
  PROVE  LET k1 == allocate_new_computed_blocks(k, r, hits)
             idle == {b \in Range(hits) : k.pool.ref_cnt[b] = 0}
         IN  /\ Consistent(k1, toks)
             /\ k1.fault = k.fault
             /\ k1.req_to_blocks = [k.req_to_blocks EXCEPT ![r] = hits]
             /\ Len(k1.pool.free_block_queue)
                  = Len(k.pool.free_block_queue) - Cardinality(idle)
<1> DEFINE P == touch(k.pool, hits)
           k1 == allocate_new_computed_blocks(k, r, hits)
           idle == {b \in Range(hits) : k.pool.ref_cnt[b] = 0}
<1>1. /\ k \in KVType /\ k.pool \in PoolType /\ k.fault \in Faults
      /\ k.req_to_blocks \in [Req -> Seq(Blocks)]
      /\ k.num_cached_block \in [Req -> Nat]
      /\ toks \in [Req -> Seq(Token)]
      /\ \A b \in Blocks : k.pool.ref_cnt[b] \in Nat
  BY ManagerFields DEF Consistent
<1>2. /\ P \in PoolType /\ FreeListOK(P)
      /\ P.ref_cnt = [b \in Blocks |-> IF b \in Range(hits) THEN k.pool.ref_cnt[b] + 1
                                                         ELSE k.pool.ref_cnt[b]]
      /\ P.block_hash = k.pool.block_hash
      /\ P.cached_block_hash_to_block = k.pool.cached_block_hash_to_block
      /\ Len(P.free_block_queue) = Len(k.pool.free_block_queue) - Cardinality(idle)
  <2>1. \A b \in Blocks : k.pool.ref_cnt[b] >= 0
    BY <1>1
  <2>2. FreeListOK(k.pool)
    BY DEF Consistent
  <2> QED  BY <1>1, <2>1, <2>2, TouchPool
<1> HIDE DEF P
<1>3. /\ k1.pool = P
      /\ k1.req_to_blocks = [k.req_to_blocks EXCEPT ![r] = hits]
      /\ k1.num_cached_block = [k.num_cached_block EXCEPT ![r] = Len(hits)]
      /\ k1.fault = k.fault
      /\ k1 \in KVType
  <2> DEFINE T2 == [k.req_to_blocks EXCEPT ![r] = hits]
             N2 == [k.num_cached_block EXCEPT ![r] = Len(hits)]
  <2>1. k1 = [k EXCEPT !.pool = P, !.req_to_blocks = T2, !.num_cached_block = N2]
    BY <1>1 DEF allocate_new_computed_blocks, P, KVType
  <2>2. T2 \in [Req -> Seq(Blocks)] /\ N2 \in [Req -> Nat]
    BY <1>1
  <2> HIDE DEF k1, T2, N2
  <2>3. /\ k1.pool = P /\ k1.req_to_blocks = T2 /\ k1.num_cached_block = N2
        /\ k1.fault = k.fault /\ k1 \in KVType
    BY <1>1, <1>2, <2>1, <2>2 DEF KVType
  <2> QED  BY <2>3 DEF T2, N2
<1> HIDE DEF k1
<1>4. /\ k1.req_to_blocks[r] = hits /\ k1.num_cached_block[r] = Len(hits)
      /\ \A s \in Req : s # r => /\ k1.req_to_blocks[s] = k.req_to_blocks[s]
                                /\ k1.num_cached_block[s] = k.num_cached_block[s]
  BY <1>1, <1>3
<1>5. ASSUME NEW b \in Blocks
      PROVE  OwnersIn(k1, b) = IF b \in Range(hits) THEN OwnersIn(k, b) \cup {r}
                                                   ELSE OwnersIn(k, b)
  <2>1. Range(k.req_to_blocks[r]) = {}
    BY DEF Range
  <2> QED  BY <1>4, <2>1 DEF OwnersIn
<1>6. RefCounts(k1)
  <2>1. \A s \in Req : IsInjective(k1.req_to_blocks[s])
    BY <1>4, ManagerFields
  <2>2. ASSUME NEW b \in Blocks
        PROVE  k1.pool.ref_cnt[b] = Cardinality(OwnersIn(k1, b))
    <3>1. r \notin OwnersIn(k, b)
      BY DEF OwnersIn, Range
    <3>2. k.pool.ref_cnt[b] = Cardinality(OwnersIn(k, b))
      BY DEF Consistent, RefCounts
    <3>3. Cardinality(OwnersIn(k, b) \cup {r}) = Cardinality(OwnersIn(k, b)) + 1
      BY <3>1, OwnersFinite, FS_AddElement
    <3> QED  BY <1>2, <1>3, <1>5, <3>2, <3>3
  <2> QED  BY <2>1, <2>2 DEF RefCounts
<1>7. HashMapOK(k1.pool)
  BY <1>2, <1>3 DEF Consistent, HashMapOK
<1>8. Tables(k1, toks)
  <2> SUFFICES ASSUME NEW s \in Req
               PROVE  /\ k1.num_cached_block[s] <= Len(k1.req_to_blocks[s])
                      /\ k1.num_cached_block[s] * BlockSize <= Len(toks[s])
                      /\ \A i \in DOMAIN k1.req_to_blocks[s] : EntryMatches(k1, toks, s, i)
    BY DEF Tables
  <2>1. CASE s = r
    <3>1. Len(hits) \in Nat /\ DOMAIN hits = 1 .. Len(hits)
      OBVIOUS
    <3>2. ASSUME NEW i \in 1 .. Len(hits) PROVE EntryMatches(k1, toks, r, i)
      BY <1>2, <1>3, <1>4, <3>1 DEF EntryMatches
    <3> QED  BY <1>4, <2>1, <3>1, <3>2
  <2>2. CASE s # r
    <3>1. /\ k.num_cached_block[s] <= Len(k.req_to_blocks[s])
          /\ k.num_cached_block[s] * BlockSize <= Len(toks[s])
      BY DEF Consistent, Tables
    <3>2. ASSUME NEW i \in DOMAIN k.req_to_blocks[s]
          PROVE  EntryMatches(k1, toks, s, i)
      <4> DEFINE b == k.req_to_blocks[s][i]
      <4>1. EntryMatches(k, toks, s, i)
        BY DEF Consistent, Tables
      <4>2. b \in Blocks
        BY <1>1
      <4>3. k1.pool.block_hash = k.pool.block_hash
        BY <1>2, <1>3
      <4>4. k.pool.block_hash[b] = NoHash => b \notin Range(hits)
        BY DEF Range
      <4>5. k.pool.block_hash[b] = NoHash => OwnersIn(k1, b) = OwnersIn(k, b)
        BY <1>5, <4>2, <4>4
      <4> QED  BY <1>4, <2>2, <4>1, <4>3, <4>5 DEF EntryMatches
    <3> QED  BY <1>4, <2>2, <3>1, <3>2
  <2> QED  BY <2>1, <2>2
<1>9. Evicting(P)
  <2>1. \A b \in Blocks : k.pool.ref_cnt[b] >= 0
    BY <1>1
  <2> QED  BY <1>1, <2>1, TouchEvicts DEF Consistent, P
<1> QED  BY <1>1, <1>2, <1>3, <1>6, <1>7, <1>8, <1>9 DEF Consistent, k1

----------------------------------------------------------------------------
(* A request gets the blocks it lacks: free ones, nobody else's, without   *)
(* hash.                                                                   *)
LEMMA NewBlocksKeeps ==
  ASSUME NEW k, NEW toks, Consistent(k, toks), NEW r \in Req, NEW num_tokens \in Nat,
         NEW n, n = Greatest(cdiv(num_tokens, BlockSize) - Len(k.req_to_blocks[r]), 0),
         n \in Nat, n <= Len(k.pool.free_block_queue)
  PROVE  LET k1 == allocate_new_blocks(k, r, num_tokens)
         IN  /\ Consistent(k1, toks)
             /\ k1.fault = k.fault
             /\ Len(k1.req_to_blocks[r]) = Len(k.req_to_blocks[r]) + n
             /\ Len(k1.pool.free_block_queue) = Len(k.pool.free_block_queue) - n
             /\ \A s \in Req : s # r => k1.req_to_blocks[s] = k.req_to_blocks[s]
             /\ k1.num_cached_block = k.num_cached_block
<1> DEFINE t == k.req_to_blocks[r]
           new == popleft_n(k.pool.free_block_queue, n).taken
           P == get_new_blocks(k.pool, n)
           k1 == allocate_new_blocks(k, r, num_tokens)
<1>1. /\ k \in KVType /\ k.pool \in PoolType /\ k.fault \in Faults /\ t \in Seq(Blocks)
      /\ k.req_to_blocks \in [Req -> Seq(Blocks)]
      /\ k.num_cached_block \in [Req -> Nat]
      /\ toks \in [Req -> Seq(Token)]
      /\ FreeListOK(k.pool) /\ HashMapOK(k.pool)
  BY ManagerFields DEF Consistent
<1>2. /\ P \in PoolType /\ FreeListOK(P) /\ HashMapOK(P)
      /\ new \in Seq(Blocks) /\ Len(new) = n /\ IsInjective(new)
      /\ Len(P.free_block_queue) = Len(k.pool.free_block_queue) - n
      /\ \A b \in Range(new) : k.pool.ref_cnt[b] = 0
      /\ P.ref_cnt = [b \in Blocks |-> IF b \in Range(new) THEN k.pool.ref_cnt[b] + 1
                                                        ELSE k.pool.ref_cnt[b]]
      /\ P.block_hash = [b \in Blocks |-> IF b \in Range(new) THEN NoHash
                                                           ELSE k.pool.block_hash[b]]
  <2>1. Len(k.pool.free_block_queue) \in Nat
    BY <1>1, PoolFields
  <2>2. n \in 0 .. Len(k.pool.free_block_queue)
    BY <2>1
  <2> QED  BY <1>1, <2>2, GetNewBlocksPool
<1> HIDE DEF P
<1>3. /\ k1.pool = P
      /\ k1.req_to_blocks = [k.req_to_blocks EXCEPT ![r] = t \o new]
      /\ k1.num_cached_block = k.num_cached_block
      /\ k1.fault = k.fault
      /\ k1 \in KVType
  <2> DEFINE T2 == [k.req_to_blocks EXCEPT ![r] = t \o new]
  <2>1. ~(n > get_num_free_blocks(k.pool))
    <3>1. Len(k.pool.free_block_queue) \in Nat
      BY <1>1, PoolFields
    <3> QED  BY <3>1 DEF get_num_free_blocks
  <2>2. k1 = [k EXCEPT !.pool = P, !.req_to_blocks = T2]
    BY <1>1, <2>1 DEF allocate_new_blocks, P, KVType
  <2>3. t \o new \in Seq(Blocks)
    BY <1>1, <1>2
  <2>4. T2 \in [Req -> Seq(Blocks)]
    BY <1>1, <2>3
  <2> HIDE DEF k1, T2
  <2>5. /\ k1.pool = P /\ k1.req_to_blocks = T2 /\ k1.num_cached_block = k.num_cached_block
        /\ k1.fault = k.fault /\ k1 \in KVType
    BY <1>1, <1>2, <2>2, <2>4 DEF KVType
  <2> QED  BY <2>5 DEF T2
<1> HIDE DEF k1, new
<1>4. /\ k1.req_to_blocks[r] = t \o new
      /\ \A s \in Req : s # r => k1.req_to_blocks[s] = k.req_to_blocks[s]
  BY <1>1, <1>3
<1>5. /\ Range(t \o new) = Range(t) \cup Range(new)
      /\ Range(t) \cap Range(new) = {}
      /\ IsInjective(t \o new)
      /\ Range(new) \subseteq Blocks
      /\ Len(t \o new) = Len(t) + n
      /\ DOMAIN (t \o new) = 1 .. Len(t) + n
      /\ \A i \in 1 .. Len(t) + n :
           (t \o new)[i] = IF i <= Len(t) THEN t[i] ELSE new[i - Len(t)]
  <2>1. Range(t) \cap Range(new) = {}
    <3>1. ASSUME NEW b \in Range(t), b \in Range(new) PROVE FALSE
      <4>1. k.pool.ref_cnt[b] > 0
        BY ManagerFields
      <4> QED  BY <1>2, <3>1, <4>1
    <3> QED  BY <3>1
  <2>2. IsInjective(t)
    BY ManagerFields
  <2>3. Range(new) \subseteq Blocks
    BY <1>2 DEF Range
  <2>4. /\ Len(t \o new) = Len(t) + n
        /\ DOMAIN (t \o new) = 1 .. Len(t) + n
        /\ \A i \in 1 .. Len(t) + n :
             (t \o new)[i] = IF i <= Len(t) THEN t[i] ELSE new[i - Len(t)]
    <3>1. t \in Seq(Blocks) /\ new \in Seq(Blocks) /\ Len(new) = n
      BY <1>1, <1>2
    <3> HIDE DEF t
    <3> QED  BY <3>1
  <2> HIDE DEF t
  <2> QED  BY <1>1, <1>2, <2>1, <2>2, <2>3, <2>4, ConcatFacts
<1>6. ASSUME NEW b \in Blocks
      PROVE  /\ OwnersIn(k1, b) = IF b \in Range(new) THEN OwnersIn(k, b) \cup {r}
                                                     ELSE OwnersIn(k, b)
             /\ b \in Range(new) => OwnersIn(k, b) = {}
  <2>1. b \in Range(new) => OwnersIn(k, b) = {}
    <3>1. ASSUME b \in Range(new), NEW s \in OwnersIn(k, b) PROVE FALSE
      <4>1. s \in Req /\ b \in Range(k.req_to_blocks[s])
        BY <3>1 DEF OwnersIn
      <4>2. k.pool.ref_cnt[b] > 0
        BY <4>1, ManagerFields
      <4> QED  BY <1>2, <3>1, <4>2
    <3> QED  BY <3>1
  <2>2. r \in OwnersIn(k1, b) <=> b \in Range(t) \cup Range(new)
    BY <1>4, <1>5 DEF OwnersIn
  <2>3. r \in OwnersIn(k, b) <=> b \in Range(t)
    BY DEF OwnersIn
  <2>4. \A s \in Req : s # r => (s \in OwnersIn(k1, b) <=> s \in OwnersIn(k, b))
    BY <1>4 DEF OwnersIn
  <2>5. OwnersIn(k1, b) \subseteq Req /\ OwnersIn(k, b) \subseteq Req
    BY DEF OwnersIn
  <2> HIDE DEF t
  <2>6. CASE b \in Range(new)
    <3>1. \A s \in Req : s \in OwnersIn(k1, b) <=> s \in OwnersIn(k, b) \cup {r}
      BY <2>2, <2>4, <2>6
    <3>2. OwnersIn(k1, b) = OwnersIn(k, b) \cup {r}
      BY <2>5, <3>1
    <3> QED  BY <2>1, <2>6, <3>2
  <2>7. CASE b \notin Range(new)
    <3>1. \A s \in Req : s \in OwnersIn(k1, b) <=> s \in OwnersIn(k, b)
      BY <2>2, <2>3, <2>4, <2>7
    <3>2. OwnersIn(k1, b) = OwnersIn(k, b)
      BY <2>5, <3>1
    <3> QED  BY <2>7, <3>2
  <2> QED  BY <2>6, <2>7
<1>7. RefCounts(k1)
  <2>1. \A s \in Req : IsInjective(k1.req_to_blocks[s])
    BY <1>4, <1>5, ManagerFields
  <2>2. ASSUME NEW b \in Blocks
        PROVE  k1.pool.ref_cnt[b] = Cardinality(OwnersIn(k1, b))
    <3>1. k.pool.ref_cnt[b] = Cardinality(OwnersIn(k, b))
      BY DEF Consistent, RefCounts
    <3>2. r \notin OwnersIn(k, b)
            => Cardinality(OwnersIn(k, b) \cup {r}) = Cardinality(OwnersIn(k, b)) + 1
      BY OwnersFinite, FS_AddElement
    <3> QED  BY <1>2, <1>3, <1>6, <3>1, <3>2
  <2> QED  BY <2>1, <2>2 DEF RefCounts
<1>8. Tables(k1, toks)
  <2> SUFFICES ASSUME NEW s \in Req
               PROVE  /\ k1.num_cached_block[s] <= Len(k1.req_to_blocks[s])
                      /\ k1.num_cached_block[s] * BlockSize <= Len(toks[s])
                      /\ \A i \in DOMAIN k1.req_to_blocks[s] : EntryMatches(k1, toks, s, i)
    BY DEF Tables
  <2>1. /\ k.num_cached_block[s] <= Len(k.req_to_blocks[s])
        /\ k.num_cached_block[s] * BlockSize <= Len(toks[s])
    BY DEF Consistent, Tables
  <2>2. ASSUME NEW i \in DOMAIN k.req_to_blocks[s],
               k1.req_to_blocks[s][i] = k.req_to_blocks[s][i]
        PROVE  EntryMatches(k1, toks, s, i)
    <3> DEFINE b == k.req_to_blocks[s][i]
    <3>1. EntryMatches(k, toks, s, i)
      BY DEF Consistent, Tables
    <3>2. b \in Blocks /\ b \in Range(k.req_to_blocks[s])
      BY <1>1 DEF Range
    <3>3. b \notin Range(new)
      <4>1. k.pool.ref_cnt[b] > 0
        BY <3>2, ManagerFields
      <4> QED  BY <1>2, <4>1
    <3>4. OwnersIn(k1, b) = OwnersIn(k, b) /\ k1.pool.block_hash[b] = k.pool.block_hash[b]
      BY <1>2, <1>3, <1>6, <3>2, <3>3
    <3> QED  BY <1>3, <2>2, <3>1, <3>4 DEF EntryMatches
  <2>3. CASE s # r
    <3>1. k1.req_to_blocks[s] = k.req_to_blocks[s]
      BY <1>4, <2>3
    <3> QED  BY <1>3, <2>1, <2>2, <3>1
  <2>4. CASE s = r
    <3>1. Len(t) \in Nat /\ DOMAIN t = 1 .. Len(t) /\ k.num_cached_block[r] \in Nat
      BY <1>1
    <3>2. k1.num_cached_block[r] <= Len(k1.req_to_blocks[r])
      BY <1>3, <1>4, <1>5, <2>1, <2>4, <3>1
    <3>3. ASSUME NEW i \in 1 .. Len(t) + n PROVE EntryMatches(k1, toks, r, i)
      <4>1. CASE i <= Len(t)
        <5>1. i \in DOMAIN t /\ k1.req_to_blocks[r][i] = t[i]
          BY <1>4, <1>5, <3>1, <4>1
        <5> QED  BY <2>2, <2>4, <5>1
      <4>2. CASE i > Len(t)
        <5> DEFINE b == new[i - Len(t)]
        <5>1. i - Len(t) \in 1 .. n /\ DOMAIN new = 1 .. n
          BY <1>2, <3>1, <4>2
        <5>2. b \in Blocks /\ b \in Range(new)
          <6>1. new \in Seq(Blocks) /\ i - Len(t) \in DOMAIN new
            BY <1>2, <5>1
          <6> QED  BY <6>1 DEF Range
        <5>3. k1.req_to_blocks[r][i] = b
          BY <1>4, <1>5, <3>1, <4>2
        <5>4. OwnersIn(k1, b) = {r} /\ k1.pool.block_hash[b] = NoHash
          BY <1>2, <1>3, <1>6, <5>2
        <5>5. ~(i <= k1.num_cached_block[r])
          BY <1>3, <2>1, <2>4, <3>1, <4>2
        <5> HIDE DEF b
        <5> QED  BY <5>3, <5>4, <5>5 DEF EntryMatches
      <4> QED  BY <3>1, <4>1, <4>2
    <3> QED  BY <1>3, <1>4, <1>5, <2>1, <2>4, <3>2, <3>3
  <2> QED  BY <2>3, <2>4
<1>9. Evicting(P)
  <2>1. Len(k.pool.free_block_queue) \in Nat
    BY <1>1, PoolFields
  <2>2. n \in 0 .. Len(k.pool.free_block_queue)
    BY <2>1
  <2> QED  BY <1>1, <2>2, GetNewBlocksEvicts DEF Consistent, P
<1> QED  BY <1>1, <1>2, <1>3, <1>4, <1>5, <1>7, <1>8, <1>9 DEF Consistent, k1

----------------------------------------------------------------------------
(* Caching takes nothing off the free list. *)
LEMMA CachingTakesNothing ==
  ASSUME NEW k \in KVType, NEW r \in Req, NEW ts, NEW num_tokens
  PROVE  cache_blocks(k, r, ts, num_tokens).pool.free_block_queue = k.pool.free_block_queue
<1> DEFINE m == k.num_cached_block[r]
           n == num_tokens \div BlockSize
           P == cache_full_blocks(k.pool, k.req_to_blocks[r], block_hashes(ts), m, n)
           k1 == cache_blocks(k, r, ts, num_tokens)
<1>1. P.free_block_queue = k.pool.free_block_queue
  BY DEF cache_full_blocks, KVType, PoolType
<1> HIDE DEF P
<1>2. \/ k1 = k
      \/ k1 = [k EXCEPT !.fault = "block_already_hashed"]
      \/ k1 = [k EXCEPT !.pool = P, !.num_cached_block[r] = n]
  BY DEF cache_blocks, P, KVType
<1> HIDE DEF k1, n
<1>3. k1.pool = k.pool \/ k1.pool = P
  BY <1>2 DEF KVType
<1> QED  BY <1>1, <1>3 DEF k1

(* Caching never throws, and caches a request's blocks under its prefix:   *)
(* the blocks not cached yet have no hash and no other owner.              *)
LEMMA CacheBlocksKeeps ==
  ASSUME NEW k, NEW toks, Consistent(k, toks), NEW r \in Req, NEW num_tokens \in Nat,
         num_tokens <= Len(toks[r]), num_tokens <= Len(k.req_to_blocks[r]) * BlockSize
  PROVE  LET k1 == cache_blocks(k, r, toks[r], num_tokens)
         IN  /\ Consistent(k1, toks)
             /\ k1.fault = k.fault
             /\ k1.req_to_blocks = k.req_to_blocks
<1> DEFINE t == k.req_to_blocks[r]
           m == k.num_cached_block[r]
           n == num_tokens \div BlockSize
           hashes == block_hashes(toks[r])
           P == cache_full_blocks(k.pool, t, hashes, m, n)
           k1 == cache_blocks(k, r, toks[r], num_tokens)
<1>1. /\ k \in KVType /\ k.pool \in PoolType /\ k.fault \in Faults
      /\ k.req_to_blocks \in [Req -> Seq(Blocks)]
      /\ k.num_cached_block \in [Req -> Nat]
      /\ toks \in [Req -> Seq(Token)]
      /\ t \in Seq(Blocks) /\ IsInjective(t) /\ toks[r] \in Seq(Token) /\ m \in Nat
      /\ FreeListOK(k.pool) /\ HashMapOK(k.pool) /\ RefCounts(k) /\ Tables(k, toks)
  BY ManagerFields DEF Consistent
<1>2. CASE ~EnableCaching \/ m >= n
  <2>1. k1 = k
    BY <1>2 DEF cache_blocks
  <2> HIDE DEF k1
  <2> QED  BY <2>1 DEF k1
<1>3. CASE EnableCaching /\ ~(m >= n)
  <2>1. /\ n \in Nat /\ n * BlockSize <= num_tokens /\ n * BlockSize \in Nat
        /\ n <= Len(t) /\ n <= Len(toks[r]) \div BlockSize
    <3>1. BlockSize \in Nat \ {0} /\ Len(t) \in Nat /\ Len(toks[r]) \in Nat
      BY <1>1, PoolAssumption
    <3>2. n \in Nat /\ n * BlockSize <= num_tokens
      BY <3>1, DivBounds
    <3>3. n * BlockSize \in Nat
      BY <3>1, <3>2, TimesMonotonic
    <3>4. n <= Len(t)
      <4>1. Len(t) * BlockSize \in Nat
        BY <3>1, TimesMonotonic
      <4> DEFINE l == Len(t)
      <4>2. num_tokens <= l * BlockSize
        OBVIOUS
      <4> HIDE DEF n, l
      <4>3. n * BlockSize < l * BlockSize + BlockSize
        BY <3>1, <3>2, <3>3, <4>1, <4>2 DEF l
      <4> QED  BY <3>1, <3>2, <4>3, TimesCancels DEF l
    <3>5. n <= Len(toks[r]) \div BlockSize
      <4> DEFINE d == Len(toks[r]) \div BlockSize
      <4>1. d \in Nat /\ Len(toks[r]) < d * BlockSize + BlockSize
        BY <3>1, DivBounds
      <4> HIDE DEF n, d
      <4>2. d * BlockSize \in Nat
        BY <3>1, <4>1, TimesMonotonic
      <4>3. n * BlockSize < d * BlockSize + BlockSize
        BY <3>1, <3>2, <3>3, <4>1, <4>2
      <4>4. n <= d
        BY <3>1, <3>2, <4>1, <4>3, TimesCancels
      <4> QED  BY <4>4 DEF d
    <3> QED  BY <3>2, <3>3, <3>4, <3>5
  <2> HIDE DEF n
  <2>2. /\ hashes \in Seq(Hash) /\ n <= Len(hashes)
        /\ \A i \in 1 .. n : hashes[i] # NoHash /\ hashes[i] = SubSeq(toks[r], 1, i * BlockSize)
    <3>1. /\ hashes \in Seq(Hash) /\ Len(hashes) = Len(toks[r]) \div BlockSize
          /\ \A i \in 1 .. Len(toks[r]) \div BlockSize :
               hashes[i] = SubSeq(toks[r], 1, i * BlockSize) /\ hashes[i] # NoHash
      BY <1>1, BlockHashes
    <3>2. Len(toks[r]) \div BlockSize \in Nat
      <4>1. Len(toks[r]) \in Nat /\ BlockSize \in Nat \ {0}
        BY <1>1, PoolAssumption
      <4> QED  BY <4>1, DivBounds
    <3> QED  BY <2>1, <3>1, <3>2
  <2>3. DOMAIN t = 1 .. Len(t) /\ Len(t) \in Nat
    BY <1>1
  <2>4. ASSUME NEW i \in m + 1 .. n
        PROVE  /\ i \in DOMAIN t /\ t[i] \in Blocks
               /\ k.pool.block_hash[t[i]] = NoHash
               /\ OwnersIn(k, t[i]) = {r}
    <3>1. i \in DOMAIN t /\ ~(i <= m)
      BY <1>1, <2>1, <2>3
    <3>2. EntryMatches(k, toks, r, i)
      BY <1>1, <3>1 DEF Tables
    <3> QED  BY <1>1, <3>1, <3>2 DEF EntryMatches
  <2>5. ~CacheFullBlocksThrows(k.pool, t, m, n)
    BY <2>4 DEF CacheFullBlocksThrows, NewFull
  <2>6. /\ P \in PoolType /\ FreeListOK(P) /\ HashMapOK(P)
        /\ P.ref_cnt = k.pool.ref_cnt
        /\ \A i \in m + 1 .. n : P.block_hash[t[i]] = hashes[i]
        /\ \A b \in Blocks : (\A i \in m + 1 .. n : b # t[i])
                               => P.block_hash[b] = k.pool.block_hash[b]
    <3>1. \A i \in 1 .. n : hashes[i] # NoHash
      BY <2>2
    <3>2. k.pool \in PoolType /\ FreeListOK(k.pool) /\ HashMapOK(k.pool) /\ EnableCaching
      BY <1>1, <1>3
    <3>3. t \in Seq(Blocks) /\ IsInjective(t) /\ hashes \in Seq(Hash)
      BY <1>1, <2>2
    <3>4. m \in Nat /\ n \in Nat /\ n <= Len(t) /\ n <= Len(hashes)
      BY <1>1, <2>1, <2>2
    <3> DEFINE pool == k.pool
    <3>5. /\ pool \in PoolType /\ FreeListOK(pool) /\ HashMapOK(pool)
          /\ ~CacheFullBlocksThrows(pool, t, m, n)
      BY <2>5, <3>2
    <3> HIDE DEF t, m, hashes, pool
    <3> DEFINE p == cache_full_blocks(pool, t, hashes, m, n)
    <3>6. p \in PoolType
      BY <3>1, <3>2, <3>3, <3>4, <3>5, CacheFullBlocksPool
    <3>7. FreeListOK(p)
      BY <3>1, <3>2, <3>3, <3>4, <3>5, CacheFullBlocksPool
    <3>8. HashMapOK(p)
      BY <3>1, <3>2, <3>3, <3>4, <3>5, CacheFullBlocksPool
    <3>9. p.ref_cnt = pool.ref_cnt
      BY <3>1, <3>2, <3>3, <3>4, <3>5, CacheFullBlocksPool
    <3>10. \A i \in m + 1 .. n : p.block_hash[t[i]] = hashes[i]
      BY <3>1, <3>2, <3>3, <3>4, <3>5, CacheFullBlocksPool
    <3>11. ASSUME NEW b \in Blocks, \A i \in m + 1 .. n : b # t[i]
           PROVE  p.block_hash[b] = pool.block_hash[b]
      BY <3>1, <3>2, <3>3, <3>4, <3>5, <3>11, CacheFullBlocksPool
    <3> QED  BY <3>6, <3>7, <3>8, <3>9, <3>10, <3>11 DEF pool, t, m, hashes
  <2> HIDE DEF P
  <2>7. /\ k1.pool = P
        /\ k1.req_to_blocks = k.req_to_blocks
        /\ k1.num_cached_block = [k.num_cached_block EXCEPT ![r] = n]
        /\ k1.fault = k.fault
        /\ k1 \in KVType
    <3> DEFINE N2 == [k.num_cached_block EXCEPT ![r] = n]
    <3>1. k1 = [k EXCEPT !.pool = P, !.num_cached_block = N2]
      BY <1>1, <1>3, <2>5 DEF cache_blocks, P, n, KVType
    <3>2. N2 \in [Req -> Nat]
      BY <1>1, <2>1
    <3> HIDE DEF k1, N2
    <3>3. /\ k1.pool = P /\ k1.req_to_blocks = k.req_to_blocks /\ k1.num_cached_block = N2
          /\ k1.fault = k.fault /\ k1 \in KVType
      BY <1>1, <2>6, <3>1, <3>2 DEF KVType
    <3> QED  BY <3>3 DEF N2
  <2> HIDE DEF k1
  <2>8. \A b : OwnersIn(k1, b) = OwnersIn(k, b)
    BY <2>7 DEF OwnersIn
  <2>9. RefCounts(k1)
    BY <1>1, <2>6, <2>7, <2>8 DEF RefCounts
  <2>10. ASSUME NEW s \in Req, NEW i \in DOMAIN k.req_to_blocks[s],
                s # r \/ i <= m \/ i > n
         PROVE  k1.pool.block_hash[k.req_to_blocks[s][i]]
                  = k.pool.block_hash[k.req_to_blocks[s][i]]
    <3> DEFINE b == k.req_to_blocks[s][i]
    <3>1. b \in Blocks
      BY <1>1
    <3>2. ASSUME NEW j \in m + 1 .. n, b = t[j] PROVE FALSE
      <4>1. CASE s # r
        <5>1. s \in OwnersIn(k, b)
          BY DEF OwnersIn, Range
        <5>2. OwnersIn(k, b) = {r}
          <6>1. OwnersIn(k, t[j]) = {r}
            BY <2>4
          <6> HIDE DEF b, t
          <6> QED  BY <3>2, <6>1
        <5> HIDE DEF b
        <5> QED  BY <4>1, <5>1, <5>2
      <4>2. CASE s = r
        <5>1. i = j
          BY <1>1, <2>4, <3>2, <4>2 DEF IsInjective
        <5> QED  BY <1>1, <2>1, <2>10, <4>2, <5>1
      <4> QED  BY <4>1, <4>2
    <3> HIDE DEF b
    <3>3. P.block_hash[b] = k.pool.block_hash[b]
      BY <2>6, <3>1, <3>2
    <3> QED  BY <2>7, <3>3 DEF b
  <2>11. Tables(k1, toks)
    <3> SUFFICES ASSUME NEW s \in Req
                 PROVE  /\ k1.num_cached_block[s] <= Len(k1.req_to_blocks[s])
                        /\ k1.num_cached_block[s] * BlockSize <= Len(toks[s])
                        /\ \A i \in DOMAIN k1.req_to_blocks[s] : EntryMatches(k1, toks, s, i)
      BY DEF Tables
    <3>1. /\ k.num_cached_block[s] <= Len(k.req_to_blocks[s])
          /\ k.num_cached_block[s] * BlockSize <= Len(toks[s])
          /\ \A i \in DOMAIN k.req_to_blocks[s] : EntryMatches(k, toks, s, i)
      BY <1>1 DEF Tables
    <3>2. CASE s # r
      <4>1. k1.num_cached_block[s] = k.num_cached_block[s]
        BY <1>1, <2>7, <3>2
      <4>2. ASSUME NEW i \in DOMAIN k.req_to_blocks[s] PROVE EntryMatches(k1, toks, s, i)
        <5> DEFINE b == k.req_to_blocks[s][i]
        <5>1. EntryMatches(k, toks, s, i)
          BY <3>1
        <5>2. k1.pool.block_hash[b] = k.pool.block_hash[b] /\ OwnersIn(k1, b) = OwnersIn(k, b)
          BY <2>8, <2>10, <3>2
        <5> QED  BY <2>7, <4>1, <5>1, <5>2 DEF EntryMatches
      <4> QED  BY <2>7, <3>1, <4>1, <4>2
    <3>3. CASE s = r
      <4>1. k1.num_cached_block[r] = n
        BY <1>1, <2>7
      <4>2. n * BlockSize <= Len(toks[r])
        <5>1. Len(toks[r]) \in Nat
          BY <1>1
        <5> QED  BY <2>1, <5>1
      <4>3. ASSUME NEW i \in DOMAIN t PROVE EntryMatches(k1, toks, r, i)
        <5>1. EntryMatches(k, toks, r, i) /\ i \in Nat
          BY <2>3, <3>1, <3>3
        <5>2. CASE i <= m
          <6>1. i <= n
            BY <1>1, <1>3, <2>1, <5>1, <5>2
          <6>2. k1.pool.block_hash[t[i]] = k.pool.block_hash[t[i]]
            BY <2>10, <5>2
          <6> QED  BY <2>7, <4>1, <5>1, <5>2, <6>1, <6>2 DEF EntryMatches
        <5>3. CASE i > n
          <6>1. ~(i <= m) /\ ~(i <= n)
            BY <1>1, <1>3, <2>1, <5>1, <5>3
          <6>2. k1.pool.block_hash[t[i]] = k.pool.block_hash[t[i]]
            BY <2>10, <5>3
          <6> QED  BY <2>7, <2>8, <4>1, <5>1, <6>1, <6>2 DEF EntryMatches
        <5>4. CASE i \in m + 1 .. n
          <6>1. i \in 1 .. n /\ i <= n
            BY <1>1, <2>1, <5>4
          <6>2. k1.pool.block_hash[t[i]] = SubSeq(toks[r], 1, i * BlockSize)
            BY <2>2, <2>6, <2>7, <5>4, <6>1
          <6> QED  BY <2>7, <4>1, <6>1, <6>2 DEF EntryMatches
        <5> QED  BY <1>1, <2>1, <5>1, <5>2, <5>3, <5>4
      <4> QED  BY <2>1, <2>7, <3>3, <4>1, <4>2, <4>3
    <3> QED  BY <3>2, <3>3
  <2>12. Evicting(P)
    <3>1. P.free_block_queue = k.pool.free_block_queue
      BY <1>1 DEF P, cache_full_blocks, PoolType
    <3>2. ASSUME NEW b \in Blocks
          PROVE  \/ P.block_hash[b] = k.pool.block_hash[b]
                 \/ (k.pool.ref_cnt[b] > 0 /\ k.pool.block_hash[b] = NoHash)
      <4>1. CASE \A i \in m + 1 .. n : b # t[i]
        BY <2>6, <4>1
      <4>2. CASE \E i \in m + 1 .. n : b = t[i]
        <5>1. PICK i \in m + 1 .. n : b = t[i]
          BY <4>2
        <5>2. b \in Range(t) /\ k.pool.block_hash[b] = NoHash
          BY <2>4, <5>1 DEF Range
        <5> QED  BY <5>2, ManagerFields
      <4> QED  BY <4>1, <4>2
    <3> QED  BY <1>1, <2>6, <3>1, <3>2, CachedEvicts DEF Consistent
  <2> QED  BY <1>1, <2>6, <2>7, <2>9, <2>11, <2>12 DEF Consistent, k1
<1> QED  BY <1>2, <1>3

----------------------------------------------------------------------------
(* allocate_slots *)

(* So many blocks hold all the tokens asked for. *)
LEMMA CdivCovers ==
  ASSUME NEW a \in Nat, NEW d \in Nat \ {0}
  PROVE  cdiv(a, d) \in Nat /\ a <= cdiv(a, d) * d
<1> DEFINE q == (a + d - 1) \div d
<1>1. a + d - 1 \in Nat
  OBVIOUS
<1>2. q \in Nat /\ a + d - 1 < q * d + d
  BY <1>1, DivBounds
<1> HIDE DEF q
<1>3. q * d \in Nat
  BY <1>2, TimesMonotonic
<1>4. a <= q * d
  BY <1>2, <1>3
<1> QED  BY <1>2, <1>4 DEF cdiv, q

(* From k to k1 no block is taken out of a table, and the only blocks that *)
(* get a hash are those of the first n tokens of r.                        *)
Grows(k, k1, r, n) ==
    /\ \A s \in Req : \A i \in DOMAIN k.req_to_blocks[s] :
         i \in DOMAIN k1.req_to_blocks[s] /\ k1.req_to_blocks[s][i] = k.req_to_blocks[s][i]
    /\ \A b \in Blocks :
         \/ k1.pool.block_hash[b] \in {k.pool.block_hash[b], NoHash}
         \/ \E i \in DOMAIN k1.req_to_blocks[r] :
                i * BlockSize <= n /\ k1.req_to_blocks[r][i] = b

(* One operation after the other. *)
LEMMA GrowsTwice ==
  ASSUME NEW k \in KVType, NEW k1 \in KVType, NEW k2 \in KVType, NEW r \in Req,
         NEW n \in Nat, NEW m \in Nat, m <= n, Grows(k, k1, r, n), Grows(k1, k2, r, m)
  PROVE  Grows(k, k2, r, n)
<1>1. \A s \in Req : \A i \in DOMAIN k.req_to_blocks[s] :
        i \in DOMAIN k2.req_to_blocks[s] /\ k2.req_to_blocks[s][i] = k.req_to_blocks[s][i]
  BY DEF Grows
<1>2. ASSUME NEW b \in Blocks
      PROVE  \/ k2.pool.block_hash[b] \in {k.pool.block_hash[b], NoHash}
             \/ \E i \in DOMAIN k2.req_to_blocks[r] :
                    i * BlockSize <= n /\ k2.req_to_blocks[r][i] = b
  <2>1. CASE k2.pool.block_hash[b] \in {k1.pool.block_hash[b], NoHash}
    BY <2>1 DEF Grows
  <2>2. CASE \E i \in DOMAIN k2.req_to_blocks[r] :
               i * BlockSize <= m /\ k2.req_to_blocks[r][i] = b
    <3>1. PICK i \in DOMAIN k2.req_to_blocks[r] :
              i * BlockSize <= m /\ k2.req_to_blocks[r][i] = b
      BY <2>2
    <3>2. i \in Nat
      BY DEF KVType
    <3>3. i * BlockSize \in Nat
      BY <3>2, PoolAssumption, TimesMonotonic
    <3> DEFINE x == i * BlockSize
    <3>4. x \in Nat /\ x <= m
      BY <3>1, <3>3
    <3> HIDE DEF x
    <3>5. x <= n
      BY <3>4
    <3> QED  BY <3>1, <3>5 DEF x
  <2> QED  BY <2>1, <2>2 DEF Grows
<1> QED  BY <1>1, <1>2 DEF Grows

(* New blocks come behind those of the table, and lose their hash.         *)
LEMMA NewBlocksGrow ==
  ASSUME NEW k, NEW toks, Consistent(k, toks), NEW r \in Req, NEW num_tokens \in Nat, NEW m
  PROVE  Grows(k, allocate_new_blocks(k, r, num_tokens), r, m)
<1> DEFINE t == k.req_to_blocks[r]
           n == Greatest(cdiv(num_tokens, BlockSize) - Len(t), 0)
           new == popleft_n(k.pool.free_block_queue, n).taken
           P == get_new_blocks(k.pool, n)
           k1 == allocate_new_blocks(k, r, num_tokens)
<1>1. /\ k \in KVType /\ k.pool \in PoolType /\ t \in Seq(Blocks)
      /\ k.req_to_blocks \in [Req -> Seq(Blocks)]
      /\ FreeListOK(k.pool) /\ HashMapOK(k.pool)
      /\ Len(k.pool.free_block_queue) \in Nat
  BY ManagerFields, PoolFields DEF Consistent
<1>2. n \in Nat
  <2>1. cdiv(num_tokens, BlockSize) \in Nat /\ Len(t) \in Nat
    <3>1. BlockSize \in Nat \ {0}
      BY PoolAssumption
    <3>2. cdiv(num_tokens, BlockSize) \in Nat
      BY <3>1, CdivCovers
    <3>3. Len(t) \in Nat
      <4> HIDE DEF t
      <4> QED  BY <1>1
    <3> QED  BY <3>2, <3>3
  <2> QED  BY <2>1 DEF Greatest
<1>3. CASE n > get_num_free_blocks(k.pool)
  <2>1. k1.req_to_blocks = k.req_to_blocks /\ k1.pool = k.pool
    BY <1>1, <1>3 DEF allocate_new_blocks, KVType
  <2> QED  BY <2>1 DEF Grows
<1>4. CASE ~(n > get_num_free_blocks(k.pool))
  <2> DEFINE T2 == [k.req_to_blocks EXCEPT ![r] = t \o new]
  <2>1. k1 = [k EXCEPT !.pool = P, !.req_to_blocks = T2]
    BY <1>1, <1>4 DEF allocate_new_blocks, P, KVType
  <2>2. k1.pool = P /\ k1.req_to_blocks = T2
    <3> HIDE DEF k1, P, T2
    <3> QED  BY <1>1, <2>1 DEF KVType
  <2>3. n \in 0 .. Len(k.pool.free_block_queue)
    BY <1>1, <1>2, <1>4 DEF get_num_free_blocks
  <2>4. /\ new \in Seq(Blocks)
        /\ P.block_hash = [b \in Blocks |-> IF b \in Range(new) THEN NoHash
                                                             ELSE k.pool.block_hash[b]]
    <3> HIDE DEF n
    <3> QED  BY <1>1, <2>3, GetNewBlocksPool
  <2> HIDE DEF k1, P, n, new
  <2>5. \A i \in DOMAIN t : i \in DOMAIN (t \o new) /\ (t \o new)[i] = t[i]
    BY <1>1, <2>4
  <2>6. ASSUME NEW s \in Req, NEW i \in DOMAIN k.req_to_blocks[s]
        PROVE  i \in DOMAIN k1.req_to_blocks[s]
               /\ k1.req_to_blocks[s][i] = k.req_to_blocks[s][i]
    <3>1. CASE s = r
      BY <1>1, <2>2, <2>5, <2>6, <3>1
    <3>2. CASE s # r
      BY <1>1, <2>2, <2>6, <3>2
    <3> QED  BY <3>1, <3>2
  <2>7. \A b \in Blocks : k1.pool.block_hash[b] \in {k.pool.block_hash[b], NoHash}
    BY <2>2, <2>4
  <2>8. Grows(k, k1, r, m)
    BY <2>6, <2>7 DEF Grows
  <2> QED  BY <2>8 DEF k1
<1> QED  BY <1>3, <1>4

(* Caching gives a hash to full blocks within the tokens cached.           *)
LEMMA CachingGrows ==
  ASSUME NEW k \in KVType, NEW r \in Req, NEW ts, NEW num_tokens \in Nat,
         num_tokens <= Len(k.req_to_blocks[r]) * BlockSize
  PROVE  /\ Grows(k, cache_blocks(k, r, ts, num_tokens), r, num_tokens)
         /\ cache_blocks(k, r, ts, num_tokens).req_to_blocks = k.req_to_blocks
<1> DEFINE t == k.req_to_blocks[r]
           m == k.num_cached_block[r]
           n == num_tokens \div BlockSize
           P == cache_full_blocks(k.pool, t, block_hashes(ts), m, n)
           k1 == cache_blocks(k, r, ts, num_tokens)
<1>1. /\ t \in Seq(Blocks) /\ Len(t) \in Nat /\ DOMAIN t = 1 .. Len(t)
      /\ m \in Nat /\ k.pool \in PoolType /\ BlockSize \in Nat \ {0}
  BY PoolAssumption DEF KVType
<1>2. n \in Nat /\ n <= Len(t) /\ n * BlockSize <= num_tokens
  <2>1. n \in Nat /\ n * BlockSize <= num_tokens
    BY <1>1, DivBounds
  <2>2. n * BlockSize \in Nat /\ Len(t) * BlockSize \in Nat
    BY <1>1, <2>1, TimesMonotonic
  <2> DEFINE a == n * BlockSize
             b == Len(t) * BlockSize
             l == Len(t)
  <2>3. a <= num_tokens /\ num_tokens <= b /\ a \in Nat /\ b \in Nat
    BY <2>1, <2>2
  <2> HIDE DEF n
  <2>4. a < b + BlockSize
    <3> HIDE DEF a, b
    <3> QED  BY <1>1, <2>3
  <2>5. l \in Nat
    BY <1>1
  <2> HIDE DEF l, t
  <2>6. n * BlockSize < l * BlockSize + BlockSize
    BY <2>4 DEF l
  <2>7. n <= l
    BY <1>1, <2>1, <2>5, <2>6, TimesCancels
  <2> QED  BY <2>1, <2>7 DEF l
<1>3. \/ k1.pool = k.pool
      \/ k1.pool = P
  <2> HIDE DEF P
  <2>1. \/ k1 = k
        \/ k1 = [k EXCEPT !.fault = "block_already_hashed"]
        \/ k1 = [k EXCEPT !.pool = P, !.num_cached_block[r] = n]
    BY DEF cache_blocks, P, KVType
  <2> HIDE DEF k1, n
  <2> QED  BY <2>1 DEF KVType
<1>4. k1.req_to_blocks = k.req_to_blocks
  <2> HIDE DEF P
  <2>1. \/ k1 = k
        \/ k1 = [k EXCEPT !.fault = "block_already_hashed"]
        \/ k1 = [k EXCEPT !.pool = P, !.num_cached_block[r] = n]
    BY DEF cache_blocks, P, KVType
  <2> HIDE DEF k1, n
  <2> QED  BY <2>1 DEF KVType
<1>5. \A b \in Blocks : (\A i \in m + 1 .. n : b # t[i]) => P.block_hash[b] = k.pool.block_hash[b]
  BY DEF cache_full_blocks, NewFull, PoolType
<1> HIDE DEF P, k1, n
<1>6. ASSUME NEW b \in Blocks
      PROVE  \/ k1.pool.block_hash[b] \in {k.pool.block_hash[b], NoHash}
             \/ \E i \in DOMAIN t : i * BlockSize <= num_tokens /\ t[i] = b
  <2>1. ASSUME NEW i \in m + 1 .. n PROVE i \in DOMAIN t /\ i * BlockSize <= num_tokens
    <3>1. i \in Nat /\ i <= n /\ i \in DOMAIN t
      BY <1>1, <1>2
    <3>2. i * BlockSize \in Nat /\ n * BlockSize \in Nat /\ i * BlockSize <= n * BlockSize
      BY <1>1, <1>2, <3>1, TimesMonotonic
    <3> DEFINE x == i * BlockSize
               y == n * BlockSize
    <3>3. x \in Nat /\ y \in Nat /\ x <= y /\ y <= num_tokens
      BY <1>2, <3>2
    <3> HIDE DEF x, y
    <3>4. x <= num_tokens
      BY <3>3
    <3> QED  BY <3>1, <3>4 DEF x
  <2> QED  BY <1>3, <1>5, <2>1
<1>7. Grows(k, k1, r, num_tokens)
  BY <1>4, <1>6 DEF Grows
<1> QED  BY <1>4, <1>7 DEF k1, n

(* n blocks of the free list went to the table of r. *)
Takes(k, k1, r, n) ==
    /\ Len(k1.req_to_blocks[r]) = Len(k.req_to_blocks[r]) + n
    /\ Len(k1.pool.free_block_queue) = Len(k.pool.free_block_queue) - n

(* Once its checks have passed, an allocation leaves the request a slot    *)
(* for every token it is to compute, and touches no other table: it takes  *)
(* the blocks that are missing, and no more.                               *)
LEMMA SlotsGivenKeeps ==
  ASSUME NEW k, NEW toks, Consistent(k, toks), NEW r \in Req,
         NEW c \in Nat, NEW num \in Nat, c + num <= MaxModelLen,
         Greatest(cdiv(c + num, BlockSize) - Len(k.req_to_blocks[r]), 0)
           <= Len(k.pool.free_block_queue)
  PROVE  LET k1 == SlotsGiven(k, r, toks[r], c, num)
         IN  /\ Consistent(k1, toks)
             /\ k1.fault = k.fault
             /\ c + num <= Len(k1.req_to_blocks[r]) * BlockSize
             /\ \A s \in Req : s # r => k1.req_to_blocks[s] = k.req_to_blocks[s]
             /\ Takes(k, k1, r, Greatest(cdiv(c + num, BlockSize) - Len(k.req_to_blocks[r]), 0))
             /\ Grows(k, k1, r, c + num)
<1> DEFINE n == Greatest(cdiv(c + num, BlockSize) - Len(k.req_to_blocks[r]), 0)
           k2 == allocate_new_blocks(k, r, c + num)
           goal == Least(c + num, Len(toks[r]))
<1>1. /\ BlockSize \in Nat \ {0} /\ MaxModelLen \in Nat /\ c + num \in Nat
      /\ k.req_to_blocks[r] \in Seq(Blocks) /\ Len(k.req_to_blocks[r]) \in Nat
      /\ toks[r] \in Seq(Token) /\ Len(toks[r]) \in Nat
  BY ManagerFields, PoolAssumption, ManagerAssumption
<1>2. SlotTokens(c, num) = c + num
  BY <1>1 DEF SlotTokens, Least
<1>3. /\ cdiv(c + num, BlockSize) \in Nat
      /\ c + num <= cdiv(c + num, BlockSize) * BlockSize
  BY <1>1, CdivCovers
<1>4. n \in Nat /\ cdiv(c + num, BlockSize) <= Len(k.req_to_blocks[r]) + n
  BY <1>1, <1>3 DEF Greatest
<1>5. /\ Consistent(k2, toks)
      /\ k2.fault = k.fault
      /\ Len(k2.req_to_blocks[r]) = Len(k.req_to_blocks[r]) + n
      /\ Len(k2.pool.free_block_queue) = Len(k.pool.free_block_queue) - n
      /\ \A s \in Req : s # r => k2.req_to_blocks[s] = k.req_to_blocks[s]
  BY <1>1, <1>4, NewBlocksKeeps
<1>b. Grows(k, k2, r, c + num)
  BY <1>1, NewBlocksGrow
<1> HIDE DEF n, k2
<1>6. c + num <= Len(k2.req_to_blocks[r]) * BlockSize
  <2> DEFINE d == cdiv(c + num, BlockSize)
             l == Len(k2.req_to_blocks[r])
  <2>a. d \in Nat /\ c + num <= d * BlockSize
    BY <1>3
  <2>b. d <= Len(k.req_to_blocks[r]) + n
    BY <1>4
  <2>c. l = Len(k.req_to_blocks[r]) + n
    BY <1>5
  <2> HIDE DEF d, l
  <2>1. d \in Nat /\ l \in Nat /\ d <= l /\ c + num <= d * BlockSize
    BY <1>1, <1>4, <2>a, <2>b, <2>c
  <2>2. /\ d * BlockSize \in Nat /\ l * BlockSize \in Nat
        /\ d * BlockSize <= l * BlockSize
    BY <1>1, <2>1, TimesMonotonic
  <2> DEFINE given == d * BlockSize
             slots == l * BlockSize
             asked == c + num
  <2>3. asked \in Nat /\ given \in Nat /\ slots \in Nat
    BY <1>1, <2>2
  <2>4. asked <= given /\ given <= slots
    BY <2>1, <2>2
  <2> HIDE DEF given, slots, asked
  <2>5. asked <= slots
    BY <2>3, <2>4
  <2> QED  BY <2>5 DEF l, slots, asked
<1>7. /\ goal \in Nat /\ goal <= Len(toks[r]) /\ goal <= c + num
      /\ goal <= Len(k2.req_to_blocks[r]) * BlockSize
  <2> DEFINE slots == Len(k2.req_to_blocks[r]) * BlockSize
  <2>1. slots \in Nat
    <3>1. Len(k2.req_to_blocks[r]) \in Nat
      BY <1>1, <1>4, <1>5
    <3> QED  BY <1>1, <3>1, TimesMonotonic
  <2>2. c + num <= slots
    BY <1>6
  <2> HIDE DEF slots
  <2>3. goal \in Nat /\ goal <= Len(toks[r]) /\ goal <= c + num /\ goal <= slots
    BY <1>1, <2>1, <2>2 DEF Least
  <2> QED  BY <2>3 DEF slots
<1> HIDE DEF goal
<1> DEFINE k1 == cache_blocks(k2, r, toks[r], goal)
<1>8. /\ Consistent(k1, toks)
      /\ k1.fault = k2.fault
      /\ k1.req_to_blocks = k2.req_to_blocks
  BY <1>5, <1>7, CacheBlocksKeeps
<1>a. k1.pool.free_block_queue = k2.pool.free_block_queue
  BY <1>5, CachingTakesNothing DEF Consistent
<1>c. Grows(k, k1, r, c + num)
  <2>1. Grows(k2, k1, r, goal)
    BY <1>5, <1>7, CachingGrows DEF Consistent
  <2>2. k2 \in KVType
    BY <1>5 DEF Consistent
  <2> HIDE DEF k1
  <2>3. k1 \in KVType
    BY <1>8 DEF Consistent
  <2>4. k \in KVType
    BY DEF Consistent
  <2> DEFINE e == c + num
  <2>5. e \in Nat /\ goal \in Nat /\ goal <= e /\ Grows(k, k2, r, e) /\ Grows(k2, k1, r, goal)
    BY <1>1, <1>7, <1>b, <2>1
  <2> HIDE DEF e
  <2>6. Grows(k, k1, r, e)
    BY <2>2, <2>3, <2>4, <2>5, GrowsTwice
  <2> QED  BY <2>6 DEF e
<1>9. SlotsGiven(k, r, toks[r], c, num) = k1
  BY <1>2 DEF SlotsGiven, k2, goal
<1> HIDE DEF k1
<1>10. Takes(k, k1, r, n)
  BY <1>5, <1>8, <1>a DEF Takes
<1> QED  BY <1>5, <1>6, <1>8, <1>9, <1>10, <1>c DEF n

(* What an allocation promises: k1 is k with slots for the c + num first   *)
(* tokens of r, and the tables of the others as they were.                 *)
Allocated(k, k1, toks, r, c, num) ==
    /\ Consistent(k1, toks)
    /\ k1.fault = k.fault
    /\ c \in Nat
    /\ c + num <= Len(k1.req_to_blocks[r]) * BlockSize
    /\ \A s \in Req : s # r => k1.req_to_blocks[s] = k.req_to_blocks[s]
    /\ Grows(k, k1, r, c + num)

(* An admission takes what was estimated: what it takes off the free list  *)
(* is what get_num_blocks_to_allocate counted, and the table has no block  *)
(* that its tokens and its hits do not need.                               *)
AsEstimated(k, k1, r, tokens, hits) ==
    /\ get_num_free_blocks(k1.pool)
         = get_num_free_blocks(k.pool) - get_num_blocks_to_allocate(k, r, tokens, hits)
    /\ Len(k1.req_to_blocks[r]) = Greatest(cdiv(tokens, BlockSize), Len(hits))

(* The table of r begins with the hits, cached under its prefixes.         *)
HitsLead(k, k1, toks, r, hits) ==
    \A i \in 1 .. Len(hits) :
        /\ k1.req_to_blocks[r][i] \in Blocks
        /\ k.pool.block_hash[k1.req_to_blocks[r][i]] = SubSeq(toks[r], 1, i * BlockSize)
        /\ k.pool.block_hash[k1.req_to_blocks[r][i]] # NoHash

(* The running loop's allocation. *)
LEMMA RunningKeeps ==
  ASSUME NEW k, NEW toks, Consistent(k, toks), NEW r \in Req,
         NEW c \in Nat, NEW num \in Nat, c + num <= MaxModelLen,
         NEW f, CanAllocate(k, r, c, num, << >>, f, 0)
  PROVE  Allocated(k, allocate_slots_running(k, r, toks[r], c, num), toks, r, c, num)
<1> DEFINE need == Greatest(cdiv(c + num, BlockSize) - Len(k.req_to_blocks[r]), 0)
<1>1. /\ c + num \in Nat /\ MaxModelLen \in Nat /\ BlockSize \in Nat \ {0}
      /\ Len(k.req_to_blocks[r]) \in Nat /\ Len(k.pool.free_block_queue) \in Nat
  BY ManagerFields, PoolFields, PoolAssumption, ManagerAssumption
<1>2. SlotTokens(c, num) = c + num
  BY <1>1 DEF SlotTokens, Least
<1>3. cdiv(c + num, BlockSize) \in Nat
  BY <1>1, CdivCovers
<1>4. need \in Nat
  BY <1>1, <1>3 DEF Greatest
<1>5. Len(<< >>) = 0 /\ Cardinality({b \in Range(<< >>) : k.pool.ref_cnt[b] = 0}) = 0
  <2>1. {b \in Range(<< >>) : k.pool.ref_cnt[b] = 0} = {}
    BY DEF Range
  <2> QED  BY <2>1, FS_EmptySet
<1>6. get_num_blocks_to_allocate(k, r, c + num, << >>) = need
  <2>1. Len(k.req_to_blocks[r]) + Len(<< >>) = Len(k.req_to_blocks[r])
    BY <1>1, <1>5
  <2> QED  BY <1>4, <1>5, <2>1 DEF get_num_blocks_to_allocate
<1>7. need <= Len(k.pool.free_block_queue)
  <2>1. need + 0 <= Len(k.pool.free_block_queue)
    BY <1>2, <1>6 DEF CanAllocate, get_num_free_blocks
  <2> QED  BY <1>1, <1>4, <2>1
<1> HIDE DEF need
<1>8. Greatest(cdiv(c + num, BlockSize) - Len(k.req_to_blocks[r]), 0)
        <= Len(k.pool.free_block_queue)
  BY <1>7 DEF need
<1> QED  BY <1>8, SlotsGivenKeeps DEF allocate_slots_running, Allocated

(* An admission: the blocks a lookup hit, then new ones.  Each of the hits *)
(* is cached under the prefix it is to hold.                               *)
LEMMA WaitingKeeps ==
  ASSUME NEW k, NEW toks, Consistent(k, toks), NEW r \in Req,
         k.req_to_blocks[r] = << >>, toks[r] # << >>,
         NEW hits, hits = get_computed_blocks(k, toks[r]),
         NEW c, c = Len(hits) * BlockSize,
         NEW num \in Nat, c + num <= MaxModelLen,
         NEW f, NEW w \in Nat, CanAllocate(k, r, c, num, hits, f, w)
  PROVE  LET k1 == allocate_slots_waiting(k, r, toks[r], hits, num)
         IN  /\ Allocated(k, k1, toks, r, c, num)
             /\ AsEstimated(k, k1, r, c + num, hits)
             /\ HitsLead(k, k1, toks, r, hits)
<1> DEFINE k2 == allocate_new_computed_blocks(k, r, hits)
           idle == {b \in Range(hits) : k.pool.ref_cnt[b] = 0}
           need == Greatest(cdiv(c + num, BlockSize) - Len(hits), 0)
<1>1. /\ k.pool \in PoolType /\ HashMapOK(k.pool) /\ toks[r] \in Seq(Token)
      /\ k.req_to_blocks \in [Req -> Seq(Blocks)]
      /\ BlockSize \in Nat \ {0} /\ MaxModelLen \in Nat
      /\ Len(k.pool.free_block_queue) \in Nat
  BY ManagerFields, PoolFields, PoolAssumption, ManagerAssumption DEF Consistent
<1>2. /\ hits \in Seq(Blocks) /\ IsInjective(hits)
      /\ Len(hits) * BlockSize < Len(toks[r])
      /\ \A i \in 1 .. Len(hits) :
           /\ k.pool.block_hash[hits[i]] = SubSeq(toks[r], 1, i * BlockSize)
           /\ k.pool.block_hash[hits[i]] # NoHash
  BY <1>1, LookupFacts
<1>3. Len(hits) \in Nat /\ c \in Nat /\ c <= Len(toks[r])
  <2>1. Len(hits) \in Nat /\ Len(toks[r]) \in Nat
    BY <1>1, <1>2
  <2>2. Len(hits) * BlockSize \in Nat
    BY <1>1, <2>1, TimesMonotonic
  <2> QED  BY <1>2, <2>1, <2>2
<1>4. /\ Consistent(k2, toks)
      /\ k2.fault = k.fault
      /\ k2.req_to_blocks = [k.req_to_blocks EXCEPT ![r] = hits]
      /\ Len(k2.pool.free_block_queue) = Len(k.pool.free_block_queue) - Cardinality(idle)
  <2>1. /\ Len(hits) * BlockSize <= Len(toks[r])
        /\ \A i \in 1 .. Len(hits) :
             k.pool.block_hash[hits[i]] = SubSeq(toks[r], 1, i * BlockSize)
             /\ k.pool.block_hash[hits[i]] # NoHash
    BY <1>2, <1>3
  <2>2. hits \in Seq(Blocks) /\ IsInjective(hits)
    BY <1>2
  <2>3. Consistent(k2, toks)
    BY <2>1, <2>2, TakeHitsKeeps
  <2>4. k2.fault = k.fault /\ k2.req_to_blocks = [k.req_to_blocks EXCEPT ![r] = hits]
        /\ k2.pool = touch(k.pool, hits)
    <3>1. k \in KVType
      BY DEF Consistent
    <3> QED  BY <3>1 DEF allocate_new_computed_blocks, KVType
  <2>6. Len(k2.pool.free_block_queue) = Len(k.pool.free_block_queue) - Cardinality(idle)
    <3>1. FreeListOK(k.pool) /\ \A b \in Blocks : k.pool.ref_cnt[b] >= 0
      BY ManagerFields DEF Consistent
    <3>2. Len(touch(k.pool, hits).free_block_queue)
            = Len(k.pool.free_block_queue) - Cardinality(idle)
      BY <1>1, <2>2, <3>1, TouchPool
    <3> HIDE DEF k2
    <3> QED  BY <2>4, <3>2
  <2> QED  BY <2>3, <2>4, <2>6
<1>5. cdiv(c + num, BlockSize) \in Nat /\ c + num \in Nat
  <2>1. c + num \in Nat /\ BlockSize \in Nat \ {0}
    BY <1>1, <1>3
  <2> QED  BY <2>1, CdivCovers
<1>6. need \in Nat
  BY <1>3, <1>5 DEF Greatest
<1>7. Cardinality(idle) \in Nat
  <2>1. IsFiniteSet(Range(hits)) /\ idle \in SUBSET Range(hits)
    BY <1>2, InjectiveLen
  <2> QED  BY <2>1, FS_Subset, FS_CardinalityType
<1>a. get_num_blocks_to_allocate(k, r, c + num, hits) = need + Cardinality(idle)
  <2>1. Len(k.req_to_blocks[r]) + Len(hits) = Len(hits)
    BY <1>3
  <2> QED  BY <2>1 DEF get_num_blocks_to_allocate
<1>8. need + Cardinality(idle) + w <= Len(k.pool.free_block_queue)
  <2>1. SlotTokens(c, num) = c + num
    BY <1>1, <1>5 DEF SlotTokens, Least
  <2> QED  BY <1>a, <2>1 DEF CanAllocate, get_num_free_blocks
<1>b. Grows(k, k2, r, c + num)
  <2>1. k2.req_to_blocks = [k.req_to_blocks EXCEPT ![r] = hits]
    BY <1>4
  <2>2. k2.pool.block_hash = k.pool.block_hash
    <3>1. k2.pool = touch(k.pool, hits)
      BY DEF allocate_new_computed_blocks, Consistent, KVType
    <3> HIDE DEF k2
    <3> QED  BY <1>1, <3>1 DEF touch, PoolType
  <2> HIDE DEF k2
  <2>3. \A s \in Req : \A i \in DOMAIN k.req_to_blocks[s] :
          i \in DOMAIN k2.req_to_blocks[s] /\ k2.req_to_blocks[s][i] = k.req_to_blocks[s][i]
    BY <1>1, <2>1
  <2> QED  BY <2>2, <2>3 DEF Grows
<1> HIDE DEF k2
<1>9. k2.req_to_blocks[r] = hits
      /\ \A s \in Req : s # r => k2.req_to_blocks[s] = k.req_to_blocks[s]
  BY <1>1, <1>4
<1>10. need <= Len(k2.pool.free_block_queue)
  <2> HIDE DEF need, idle
  <2> QED  BY <1>1, <1>4, <1>6, <1>7, <1>8
<1> DEFINE k1 == SlotsGiven(k2, r, toks[r], c, num)
<1>11. /\ Consistent(k1, toks)
       /\ k1.fault = k2.fault
       /\ c + num <= Len(k1.req_to_blocks[r]) * BlockSize
       /\ \A s \in Req : s # r => k1.req_to_blocks[s] = k2.req_to_blocks[s]
       /\ Takes(k2, k1, r, need)
       /\ Grows(k2, k1, r, c + num)
  <2>1. Greatest(cdiv(c + num, BlockSize) - Len(k2.req_to_blocks[r]), 0)
          <= Len(k2.pool.free_block_queue)
    BY <1>9, <1>10
  <2>2. c \in Nat /\ Consistent(k2, toks)
    BY <1>3, <1>4
  <2>3. need = Greatest(cdiv(c + num, BlockSize) - Len(k2.req_to_blocks[r]), 0)
    BY <1>9
  <2> HIDE DEF k1, idle, need
  <2> QED  BY <2>1, <2>2, <2>3, SlotsGivenKeeps DEF k1
<1>12. allocate_slots_waiting(k, r, toks[r], hits, num) = k1
  BY DEF allocate_slots_waiting, k2
<1> HIDE DEF k1
<1>c. Grows(k, k1, r, c + num)
  <2>1. k \in KVType /\ k1 \in KVType /\ k2 \in KVType
    BY <1>4, <1>11 DEF Consistent
  <2> DEFINE e == c + num
  <2>2. e \in Nat /\ Grows(k, k2, r, e) /\ Grows(k2, k1, r, e)
    BY <1>5, <1>11, <1>b
  <2> HIDE DEF e
  <2>3. e <= e
    BY <2>2
  <2>4. Grows(k, k1, r, e)
    BY <2>1, <2>2, <2>3, GrowsTwice
  <2> QED  BY <2>4 DEF e
<1>13. Allocated(k, k1, toks, r, c, num)
  BY <1>3, <1>4, <1>9, <1>11, <1>c DEF Allocated
<1>15. HitsLead(k, k1, toks, r, hits)
  <2>1. \A i \in 1 .. Len(hits) : hits[i] \in Blocks /\ k1.req_to_blocks[r][i] = hits[i]
    BY <1>2, <1>9, <1>11 DEF Grows
  <2> QED  BY <1>2, <2>1 DEF HitsLead
<1>14. AsEstimated(k, k1, r, c + num, hits)
  <2>1. get_num_free_blocks(k1.pool)
          = get_num_free_blocks(k.pool) - get_num_blocks_to_allocate(k, r, c + num, hits)
    <3>1. Len(k1.pool.free_block_queue) = Len(k2.pool.free_block_queue) - need
      BY <1>11 DEF Takes
    <3> HIDE DEF need, idle
    <3> QED  BY <1>1, <1>4, <1>6, <1>7, <1>a, <3>1 DEF get_num_free_blocks
  <2>2. Len(k1.req_to_blocks[r]) = Len(hits) + need
    BY <1>9, <1>11 DEF Takes
  <2>3. Len(hits) + need = Greatest(cdiv(c + num, BlockSize), Len(hits))
    BY <1>3, <1>5 DEF Greatest
  <2> QED  BY <2>1, <2>2, <2>3 DEF AsEstimated
<1> QED  BY <1>12, <1>13, <1>14, <1>15

(* Resetting the prefix cache. *)
LEMMA ResetKeeps ==
  ASSUME NEW k, NEW toks, Consistent(k, toks), CanResetPrefixCache(k.pool)
  PROVE  LET k1 == [k EXCEPT !.pool = reset_prefix_cache(@)]
         IN  /\ Consistent(k1, toks)
             /\ k1.fault = k.fault
             /\ k1.req_to_blocks = k.req_to_blocks
<1> DEFINE P == reset_prefix_cache(k.pool)
           k1 == [k EXCEPT !.pool = P]
<1>1. /\ k \in KVType /\ k.pool \in PoolType
      /\ k.req_to_blocks \in [Req -> Seq(Blocks)]
      /\ FreeListOK(k.pool) /\ HashMapOK(k.pool) /\ RefCounts(k) /\ Tables(k, toks)
      /\ toks \in [Req -> Seq(Token)]
  BY ManagerFields DEF Consistent
<1>2. /\ P \in PoolType /\ HashMapOK(P)
      /\ P.free_block_queue = k.pool.free_block_queue /\ P.ref_cnt = k.pool.ref_cnt
      /\ \A b \in Blocks : P.block_hash[b] = NoHash
  <2> DEFINE pool == k.pool
             p == remove_cached_block_hashes(pool, Blocks)
  <2>1. P = p /\ pool \in PoolType /\ HashMapOK(pool)
    BY <1>1 DEF reset_prefix_cache
  <2> HIDE DEF P, pool
  <2>2. /\ p \in PoolType /\ HashMapOK(p)
        /\ p.free_block_queue = pool.free_block_queue /\ p.ref_cnt = pool.ref_cnt
        /\ p.block_hash = [b \in Blocks |-> IF b \in Blocks THEN NoHash ELSE pool.block_hash[b]]
    BY <2>1, RemoveHashesPool
  <2> HIDE DEF p
  <2>3. \A b \in Blocks : p.block_hash[b] = NoHash
    BY <2>2
  <2> QED  BY <2>1, <2>2, <2>3 DEF pool
<1> HIDE DEF P
<1>3. /\ k1.pool = P /\ k1.req_to_blocks = k.req_to_blocks
      /\ k1.num_cached_block = k.num_cached_block /\ k1.fault = k.fault
      /\ k1 \in KVType
  BY <1>1, <1>2 DEF KVType
<1> HIDE DEF k1
<1>4. \A r \in Req : k.req_to_blocks[r] = << >>
  <2> SUFFICES ASSUME NEW r \in Req, k.req_to_blocks[r] # << >> PROVE FALSE
    OBVIOUS
  <2>1. k.req_to_blocks[r][1] \in Range(k.req_to_blocks[r])
    <3>1. k.req_to_blocks[r] \in Seq(Blocks)
      BY <1>1
    <3>2. 1 \in DOMAIN k.req_to_blocks[r]
      BY <3>1
    <3> QED  BY <3>2 DEF Range
  <2>2. /\ k.req_to_blocks[r][1] \in Blocks
        /\ k.pool.ref_cnt[k.req_to_blocks[r][1]] > 0
    BY <2>1, ManagerFields
  <2> QED  BY <1>1, <2>2, ResetAllFree
<1>5. RefCounts(k1)
  BY <1>1, <1>2, <1>3 DEF RefCounts, OwnersIn
<1>6. Tables(k1, toks)
  BY <1>1, <1>3, <1>4 DEF Tables
<1>7. FreeListOK(k1.pool) /\ HashMapOK(k1.pool)
  BY <1>1, <1>2, <1>3 DEF FreeListOK
<1>8. Evicting(P)
  BY <1>2, UncachedEvicts
<1> QED  BY <1>1, <1>3, <1>5, <1>6, <1>7, <1>8 DEF Consistent, k1, P

(* Tokens may be added to a request, and exchanged while it has no blocks. *)
LEMMA MoreTokensKeeps ==
  ASSUME NEW k, NEW toks, Consistent(k, toks), NEW r \in Req, NEW ts \in Seq(Token),
         \/ k.req_to_blocks[r] = << >>
         \/ Len(toks[r]) <= Len(ts) /\ \A i \in 1 .. Len(toks[r]) : ts[i] = toks[r][i]
  PROVE  Consistent(k, [toks EXCEPT ![r] = ts])
<1> DEFINE toks2 == [toks EXCEPT ![r] = ts]
<1>1. /\ k.req_to_blocks \in [Req -> Seq(Blocks)] /\ k.num_cached_block \in [Req -> Nat]
      /\ toks \in [Req -> Seq(Token)] /\ toks2 \in [Req -> Seq(Token)]
      /\ Tables(k, toks)
      /\ BlockSize \in Nat \ {0}
  BY ManagerFields, PoolAssumption DEF Consistent
<1>2. toks2[r] = ts /\ \A s \in Req : s # r => toks2[s] = toks[s]
  BY <1>1
<1> HIDE DEF toks2
<1>3. ASSUME NEW s \in Req
      PROVE  /\ k.num_cached_block[s] <= Len(k.req_to_blocks[s])
             /\ k.num_cached_block[s] * BlockSize <= Len(toks2[s])
             /\ \A i \in DOMAIN k.req_to_blocks[s] : EntryMatches(k, toks2, s, i)
  <2> DEFINE m == k.num_cached_block[s]
  <2>1. /\ m \in Nat /\ m <= Len(k.req_to_blocks[s]) /\ m * BlockSize <= Len(toks[s])
        /\ Len(toks[s]) \in Nat /\ Len(ts) \in Nat
        /\ \A i \in DOMAIN k.req_to_blocks[s] : EntryMatches(k, toks, s, i)
    BY <1>1 DEF Tables
  <2>2. CASE s # r
    <3>1. toks2[s] = toks[s]
      BY <1>2, <2>2
    <3> QED  BY <2>1, <3>1 DEF EntryMatches
  <2>3. CASE s = r /\ k.req_to_blocks[r] = << >>
    <3>1. k.req_to_blocks[s] = << >>
      BY <2>3
    <3>2. m = 0
      <4> HIDE DEF m
      <4> QED  BY <2>1, <3>1
    <3>3. m * BlockSize = 0 /\ 0 <= Len(toks2[s])
      <4>1. 0 * BlockSize = 0
        BY <1>1
      <4> QED  BY <1>2, <2>1, <2>3, <3>2, <4>1
    <3>4. DOMAIN k.req_to_blocks[s] = {}
      BY <3>1
    <3> HIDE DEF m
    <3> QED  BY <2>1, <3>3, <3>4 DEF m
  <2>4. CASE s = r /\ k.req_to_blocks[r] # << >>
    <3>1. Len(toks[r]) <= Len(ts) /\ \A i \in 1 .. Len(toks[r]) : ts[i] = toks[r][i]
      BY <2>4
    <3>2. m * BlockSize \in Nat
      BY <1>1, <2>1, TimesMonotonic
    <3>3. ASSUME NEW i \in DOMAIN k.req_to_blocks[r] PROVE EntryMatches(k, toks2, r, i)
      <4>1. EntryMatches(k, toks, r, i) /\ i \in Nat
        BY <1>1, <2>1, <2>4
      <4>2. ASSUME i <= m
            PROVE  SubSeq(toks[r], 1, i * BlockSize) = SubSeq(ts, 1, i * BlockSize)
        <5> DEFINE e == i * BlockSize
        <5>1. e \in Nat /\ e <= m * BlockSize
          <6> HIDE DEF m
          <6> QED  BY <1>1, <2>1, <4>1, <4>2, TimesMonotonic
        <5>2. e <= Len(toks[r]) /\ e <= Len(ts)
          <6> DEFINE x == m * BlockSize
          <6>1. x \in Nat /\ x <= Len(toks[r]) /\ e <= x
            BY <2>1, <2>4, <3>2, <5>1
          <6> HIDE DEF x, e
          <6> QED  BY <2>1, <2>4, <3>1, <5>1, <6>1
        <5> HIDE DEF e
        <5>3. toks[r] \in Seq(Token) /\ Len(toks[r]) \in Nat /\ Len(ts) \in Nat
          BY <1>1
        <5>4. \A j \in 1 .. e : j \in 1 .. Len(toks[r])
          BY <5>1, <5>2, <5>3
        <5>5. SubSeq(toks[r], 1, e) = [j \in 1 .. e |-> toks[r][j]]
          BY <5>1, <5>2, <5>3
        <5>6. SubSeq(ts, 1, e) = [j \in 1 .. e |-> ts[j]]
          BY <5>1, <5>2, <5>3
        <5> QED  BY <3>1, <5>4, <5>5, <5>6 DEF e
      <4>3. CASE i <= m
        <5>1. SubSeq(toks2[r], 1, i * BlockSize) = SubSeq(toks[r], 1, i * BlockSize)
          BY <1>2, <4>2, <4>3
        <5>2. i <= k.num_cached_block[r]
          BY <2>4, <4>3
        <5> QED  BY <4>1, <5>1, <5>2 DEF EntryMatches
      <4>4. CASE ~(i <= m)
        <5>1. ~(i <= k.num_cached_block[r])
          BY <2>4, <4>4
        <5> QED  BY <4>1, <5>1 DEF EntryMatches
      <4> QED  BY <4>3, <4>4
    <3>4. m * BlockSize <= Len(ts)
      <4> DEFINE x == m * BlockSize
      <4>1. x \in Nat /\ x <= Len(toks[r])
        BY <2>1, <2>4, <3>2
      <4> HIDE DEF x
      <4>2. x <= Len(ts)
        BY <2>1, <2>4, <3>1, <4>1
      <4> QED  BY <4>2 DEF x
    <3> QED  BY <1>2, <2>1, <2>4, <3>3, <3>4
  <2> QED  BY <2>2, <2>3, <2>4
<1>4. Tables(k, toks2)
  BY <1>3 DEF Tables
<1>5. Consistent(k, toks2)
  BY <1>1, <1>4 DEF Consistent
<1> QED  BY <1>5 DEF toks2

(* The manager the constructor leaves is consistent. *)
LEMMA InitConsistent ==
  ASSUME NEW toks \in [Req -> Seq(Token)]
  PROVE  Consistent(InitKV, toks) /\ InitKV.fault = "none"
<1> DEFINE q == [i \in Blocks |-> i]
           n == NumGpuBlocks - 1
<1>1. n \in Nat /\ BlockSize \in Nat
  BY PoolAssumption
<1>2. q \in Seq(Blocks) /\ IsInjective(q) /\ Range(q) = Blocks
  <2>1. q = [i \in 1 .. n |-> i] /\ Blocks = 1 .. n
    BY DEF Blocks
  <2> HIDE DEF n
  <2>2. [i \in 1 .. n |-> i] \in Seq(1 .. n)
    BY <1>1
  <2> QED  BY <2>1, <2>2 DEF IsInjective, Range
<1> HIDE DEF q
<1>3. /\ InitKV.pool.free_block_queue = q
      /\ InitKV.pool.ref_cnt = [b \in Blocks |-> 0]
      /\ InitKV.pool.block_hash = [b \in Blocks |-> NoHash]
      /\ InitKV.pool.cached_block_hash_to_block = {}
      /\ InitKV.req_to_blocks = [r \in Req |-> << >>]
      /\ InitKV.num_cached_block = [r \in Req |-> 0]
      /\ InitKV.fault = "none"
  BY DEF InitKV, q
<1>4. InitKV \in KVType
  <2>1. NoHash \in Hash
    BY DEF NoHash, Hash
  <2>2. InitKV.pool \in PoolType
    BY <1>2, <2>1 DEF InitKV, PoolType, q
  <2> QED  BY <2>2 DEF InitKV, KVType, Faults
<1>5. \A r \in Req : InitKV.req_to_blocks[r] = << >> /\ InitKV.num_cached_block[r] = 0
  BY <1>3
<1>6. RefCounts(InitKV)
  <2>1. IsInjective(<< >>)
    BY DEF IsInjective
  <2>2. \A b : OwnersIn(InitKV, b) = {}
    BY <1>5 DEF OwnersIn, Range
  <2> QED  BY <1>3, <1>5, <2>1, <2>2, FS_EmptySet DEF RefCounts
<1>7. FreeListOK(InitKV.pool) /\ HashMapOK(InitKV.pool)
  BY <1>2, <1>3 DEF FreeListOK, HashMapOK
<1>8. Tables(InitKV, toks)
  <2>1. 0 * BlockSize = 0 /\ \A r \in Req : Len(toks[r]) \in Nat
    BY <1>1
  <2> QED  BY <1>5, <2>1 DEF Tables
<1>9. Evicting(InitKV.pool)
  BY <1>3, UncachedEvicts
<1> QED  BY <1>3, <1>4, <1>6, <1>7, <1>8, <1>9 DEF Consistent

----------------------------------------------------------------------------
(* What the cells of the blocks hold.  c gives the content of each cell, F *)
(* the places <<request, position>> the step under way is about to fill, T *)
(* the tokens of each request, known or in flight.                         *)

(* The block and the offset of position p of r.                            *)
BlockAt(k, r, p) == k.req_to_blocks[r][((p - 1) \div BlockSize) + 1]
OffsetAt(p)      == ((p - 1) % BlockSize) + 1

(* A place is about to be filled with the prefix that ends there.          *)
FilledWith(k, F, T, b, o, x) ==
    \E e \in F : /\ BlockAt(k, e[1], e[2]) = b /\ OffsetAt(e[2]) = o
                 /\ SubSeq(T[e[1]], 1, e[2]) = x

(* The cell holds x, or will when the step is executed.                    *)
Has(k, c, F, T, b, o, x) == c[b][o] = x \/ FilledWith(k, F, T, b, o, x)

ComputedHeld(k, c, F, T, r, n) ==
    \A p \in 1 .. n : Has(k, c, F, T, BlockAt(k, r, p), OffsetAt(p), SubSeq(T[r], 1, p))

CachedHeld(k, c, F, T) ==
    \A b \in Blocks : LET h == k.pool.block_hash[b] IN
        h # NoHash => \A o \in 1 .. BlockSize :
            Has(k, c, F, T, b, o, SubSeq(h, 1, Len(h) - BlockSize + o))

(* The places have slots, and t is the first of the tokens in u.           *)
InSlots(k, F) ==
    \A e \in F : /\ e[1] \in Req /\ e[2] \in Nat \ {0}
                 /\ e[2] <= Len(k.req_to_blocks[e[1]]) * BlockSize
Begins(t, u) == Len(t) <= Len(u) /\ \A i \in 1 .. Len(t) : u[i] = t[i]

(* The position is at its offset in its block. *)
LEMMA Placed ==
  ASSUME NEW p \in Nat \ {0}
  PROVE  LET i == ((p - 1) \div BlockSize) + 1
         IN  /\ i \in Nat \ {0} /\ OffsetAt(p) \in 1 .. BlockSize
             /\ p = (i * BlockSize - BlockSize) + OffsetAt(p)
             /\ i * BlockSize \in Nat /\ p <= i * BlockSize
             /\ \A n \in Nat : p <= n * BlockSize => i <= n
<1> DEFINE q == (p - 1) \div BlockSize
           d == BlockSize
           m == (p - 1) % BlockSize
           i == q + 1
<1>1. p - 1 \in Nat /\ d \in Nat \ {0}
  BY PoolAssumption
<1>2. q \in Nat /\ q * d \in Nat /\ m \in 0 .. d - 1 /\ p - 1 = q * d + m
  <2> HIDE DEF d
  <2>1. (p - 1) \div d \in Nat /\ (p - 1) % d \in 0 .. d - 1
    BY <1>1
  <2>2. p - 1 = d * ((p - 1) \div d) + ((p - 1) % d)
    BY <1>1
  <2>3. d * ((p - 1) \div d) = ((p - 1) \div d) * d /\ ((p - 1) \div d) * d \in Nat
    BY <1>1, <2>1
  <2> QED  BY <2>1, <2>2, <2>3 DEF d
<1> HIDE DEF q, m, d
<1>3. i * d = q * d + d
  BY <1>1, <1>2
<1>4. i \in Nat \ {0} /\ p = (i * d - d) + (m + 1) /\ i * d \in Nat /\ p <= i * d
      /\ m + 1 \in 1 .. d
  <2> DEFINE a == q * d
             x == i * d
  <2>1. a \in Nat /\ x = a + d /\ p - 1 = a + m
    BY <1>2, <1>3
  <2> HIDE DEF a, x
  <2>2. p = (x - d) + (m + 1) /\ x \in Nat /\ p <= x
    BY <1>1, <1>2, <2>1
  <2> QED  BY <1>1, <1>2, <2>2 DEF x
<1>5. ASSUME NEW n \in Nat, p <= n * d PROVE i <= n
  <2>1. n * d \in Nat
    BY <1>1
  <2> DEFINE a == q * d
             x == n * d
  <2>2. a \in Nat /\ x \in Nat /\ p - 1 = a + m /\ p <= x
    BY <1>2, <1>5, <2>1
  <2> HIDE DEF a, x
  <2>3. a < x
    BY <1>1, <1>2, <2>2
  <2>4. q < n
    BY <1>1, <1>2, <2>3 DEF a, x
  <2> QED  BY <1>2, <2>4
<1> QED  BY <1>4, <1>5 DEF OffsetAt, q, d, m

(* ... and it is the only one. *)
LEMMA PlacedAt ==
  ASSUME NEW i \in Nat \ {0}, NEW o \in 1 .. BlockSize
  PROVE  LET p == (i * BlockSize - BlockSize) + o
         IN  /\ p \in Nat \ {0} /\ p <= i * BlockSize
             /\ ((p - 1) \div BlockSize) + 1 = i /\ OffsetAt(p) = o
<1> DEFINE d == BlockSize
           j == i - 1
           p == (i * d - d) + o
<1>1. d \in Nat \ {0} /\ j \in Nat
  BY PoolAssumption
<1>2. i * d = j * d + d /\ j * d \in Nat
  <2> HIDE DEF d
  <2> QED  BY <1>1
<1>3. p - 1 = j * d + (o - 1) /\ p - 1 \in Nat /\ p \in Nat \ {0} /\ p <= i * d
  <2> DEFINE a == j * d
             x == i * d
  <2>1. x = a + d /\ a \in Nat /\ o \in 1 .. d /\ p = (x - d) + o
    BY <1>2
  <2> HIDE DEF a, x, d, p, j
  <2>2. p - 1 = a + (o - 1) /\ p - 1 \in Nat /\ p \in Nat \ {0} /\ p <= x
    BY <1>1, <2>1
  <2> QED  BY <2>2 DEF a, x
<1> DEFINE q == (p - 1) \div d
           m == (p - 1) % d
<1>4. q \in Nat /\ m \in 0 .. d - 1 /\ p - 1 = q * d + m /\ q * d \in Nat
  <2> HIDE DEF p, d
  <2>1. (p - 1) \div d \in Nat /\ (p - 1) % d \in 0 .. d - 1
    BY <1>1, <1>3
  <2>2. p - 1 = d * ((p - 1) \div d) + ((p - 1) % d)
    BY <1>1, <1>3
  <2>3. d * ((p - 1) \div d) = ((p - 1) \div d) * d /\ ((p - 1) \div d) * d \in Nat
    BY <1>1, <2>1
  <2> QED  BY <2>1, <2>2, <2>3
<1>5. q = j /\ m = o - 1
  <2>1. o - 1 \in 0 .. d - 1 /\ q * d + m = j * d + (o - 1)
    BY <1>1, <1>3, <1>4
  <2> HIDE DEF q, m, d, j
  <2> DEFINE a == j * d
             x == q * d
  <2>2. a \in Nat /\ x \in Nat /\ x + m = a + (o - 1)
    BY <1>2, <1>4, <2>1
  <2>3. x < a + d /\ a < x + d
    <3> HIDE DEF a, x
    <3> QED  BY <1>1, <1>4, <2>1, <2>2
  <2>4. q <= j /\ j <= q
    BY <1>1, <1>4, <2>3, TimesCancels
  <2>5. q = j
    BY <1>1, <1>4, <2>4
  <2> QED  BY <1>1, <1>4, <2>1, <2>2, <2>5
<1> HIDE DEF p, q, m, j
<1>6. q + 1 = i /\ m + 1 = o
  BY <1>1, <1>5 DEF j
<1> QED  BY <1>3, <1>6 DEF OffsetAt, p, q, m, d

(* A prefix of a prefix. *)
LEMMA Prefixes ==
  ASSUME NEW E, NEW u \in Seq(E), NEW n \in Nat, n <= Len(u), NEW p \in 1 .. n
  PROVE  /\ Len(SubSeq(u, 1, n)) = n
         /\ SubSeq(SubSeq(u, 1, n), 1, p) = SubSeq(u, 1, p)
<1> DEFINE w == SubSeq(u, 1, n)
<1>1. w \in Seq(E) /\ Len(w) = n /\ \A i \in 1 .. n : w[i] = u[i]
  OBVIOUS
<1>2. SubSeq(w, 1, p) \in Seq(E) /\ Len(SubSeq(w, 1, p)) = p
      /\ \A i \in 1 .. p : SubSeq(w, 1, p)[i] = w[i]
  <2> HIDE DEF w
  <2> QED  BY <1>1
<1>3. SubSeq(u, 1, p) \in Seq(E) /\ Len(SubSeq(u, 1, p)) = p
      /\ \A i \in 1 .. p : SubSeq(u, 1, p)[i] = u[i]
  OBVIOUS
<1>4. \A i \in 1 .. p : SubSeq(w, 1, p)[i] = SubSeq(u, 1, p)[i]
  <2> HIDE DEF w
  <2> QED  BY <1>1, <1>2, <1>3
<1>5. SubSeq(w, 1, p) = SubSeq(u, 1, p)
  <2> DEFINE x == SubSeq(w, 1, p)
             y == SubSeq(u, 1, p)
  <2>1. x \in Seq(E) /\ y \in Seq(E) /\ Len(x) = Len(y) /\ \A i \in 1 .. Len(x) : x[i] = y[i]
    BY <1>2, <1>3, <1>4
  <2> HIDE DEF x, y
  <2> QED  BY <2>1, SeqEqual
<1> QED  BY <1>1, <1>5

LEMMA SamePrefix ==
  ASSUME NEW E, NEW t \in Seq(E), NEW u \in Seq(E), Begins(t, u), NEW p \in 1 .. Len(t)
  PROVE  SubSeq(u, 1, p) = SubSeq(t, 1, p)
<1>1. p \in 1 .. Len(u) /\ \A i \in 1 .. p : u[i] = t[i]
  BY DEF Begins
<1> DEFINE x == SubSeq(u, 1, p)
           y == SubSeq(t, 1, p)
<1>2. x \in Seq(E) /\ y \in Seq(E) /\ Len(x) = p /\ Len(y) = p
      /\ \A i \in 1 .. p : x[i] = u[i] /\ y[i] = t[i]
  BY <1>1
<1> HIDE DEF x, y
<1>3. x = y
  BY <1>1, <1>2, SeqEqual
<1> QED  BY <1>3 DEF x, y

(* What the hash of a block in a table says. *)
LEMMA HashInTable ==
  ASSUME NEW k, NEW toks, Consistent(k, toks), NEW r \in Req,
         NEW i \in DOMAIN k.req_to_blocks[r],
         k.pool.block_hash[k.req_to_blocks[r][i]] # NoHash
  PROVE  /\ i \in Nat \ {0} /\ i * BlockSize \in Nat /\ i * BlockSize <= Len(toks[r])
         /\ k.pool.block_hash[k.req_to_blocks[r][i]] = SubSeq(toks[r], 1, i * BlockSize)
<1> DEFINE n == k.num_cached_block[r]
           h == k.pool.block_hash[k.req_to_blocks[r][i]]
<1>1. i \in Nat \ {0} /\ n \in Nat /\ n * BlockSize <= Len(toks[r])
      /\ EntryMatches(k, toks, r, i) /\ Len(toks[r]) \in Nat /\ BlockSize \in Nat
  BY ManagerFields, PoolAssumption DEF Consistent, Tables
<1>2. i <= n /\ h = SubSeq(toks[r], 1, i * BlockSize)
  BY <1>1 DEF EntryMatches
<1>3. i * BlockSize \in Nat /\ n * BlockSize \in Nat /\ i * BlockSize <= n * BlockSize
  <2> HIDE DEF n
  <2> QED  BY <1>1, <1>2, TimesMonotonic
<1> DEFINE x == i * BlockSize
           y == n * BlockSize
<1>4. x \in Nat /\ y \in Nat /\ x <= y /\ y <= Len(toks[r])
  BY <1>1, <1>3
<1> HIDE DEF x, y
<1>5. x <= Len(toks[r])
  BY <1>1, <1>4
<1> QED  BY <1>1, <1>2, <1>3, <1>5 DEF x

(* A block in two tables is at one index, and holds one prefix. *)
LEMMA InOnePlace ==
  ASSUME NEW k, NEW toks, Consistent(k, toks), NEW r \in Req, NEW s \in Req,
         NEW i \in DOMAIN k.req_to_blocks[r], NEW j \in DOMAIN k.req_to_blocks[s],
         k.req_to_blocks[r][i] = k.req_to_blocks[s][j]
  PROVE  /\ i = j
         /\ r # s => /\ i * BlockSize \in Nat
                     /\ i * BlockSize <= Len(toks[r]) /\ i * BlockSize <= Len(toks[s])
                     /\ SubSeq(toks[r], 1, i * BlockSize) = SubSeq(toks[s], 1, i * BlockSize)
<1> DEFINE b == k.req_to_blocks[r][i]
<1>1. CASE r = s
  BY <1>1, ManagerFields DEF IsInjective
<1>2. CASE r # s
  <2>1. r \in OwnersIn(k, b) /\ s \in OwnersIn(k, b)
    BY DEF OwnersIn, Range
  <2>2. EntryMatches(k, toks, r, i) /\ EntryMatches(k, toks, s, j)
    BY DEF Consistent, Tables
  <2>3. k.pool.block_hash[b] # NoHash
    <3>1. CASE k.pool.block_hash[b] = NoHash
      <4>1. ~(OwnersIn(k, b) = {r})
        BY <1>2, <2>1
      <4>2. i <= k.num_cached_block[r] /\ SubSeq(toks[r], 1, i * BlockSize) = NoHash
        BY <2>2, <3>1, <4>1 DEF EntryMatches
      <4>3. i \in Nat \ {0} /\ k.num_cached_block[r] \in Nat /\ toks[r] \in Seq(Token)
            /\ k.num_cached_block[r] * BlockSize <= Len(toks[r]) /\ BlockSize \in Nat \ {0}
        <5>1. i \in Nat \ {0} /\ k.num_cached_block[r] \in Nat /\ toks[r] \in Seq(Token)
          BY ManagerFields
        <5>2. k.num_cached_block[r] * BlockSize <= Len(toks[r])
          BY DEF Consistent, Tables
        <5> QED  BY <5>1, <5>2, PoolAssumption
      <4> DEFINE x == i * BlockSize
                 m == k.num_cached_block[r]
                 y == m * BlockSize
                 u == toks[r]
      <4>4. x \in Nat /\ y \in Nat /\ x <= y /\ 1 * BlockSize <= x
        <5> HIDE DEF m
        <5>1. m \in Nat /\ i <= m /\ i \in Nat /\ 1 <= i /\ BlockSize \in Nat
          BY <4>2, <4>3 DEF m
        <5>2. x \in Nat /\ x <= y
          BY <5>1, TimesMonotonic
        <5>3. y \in Nat
          BY <5>1, TimesMonotonic
        <5>4. 1 * BlockSize <= x
          BY <5>1, TimesMonotonic
        <5> QED  BY <5>2, <5>3, <5>4
      <4>5. x \in Nat \ {0} /\ x <= Len(u) /\ u \in Seq(Token) /\ SubSeq(u, 1, x) = NoHash
        <5>1. y <= Len(u) /\ Len(u) \in Nat /\ 1 * BlockSize = BlockSize
          BY <4>3
        <5>2. SubSeq(u, 1, x) = NoHash
          BY <4>2
        <5> HIDE DEF x, y, u, m
        <5>3. u \in Seq(Token)
          BY <4>3 DEF u
        <5> QED  BY <4>3, <4>4, <5>1, <5>2, <5>3
      <4> HIDE DEF x, u
      <4>6. Len(SubSeq(u, 1, x)) = x /\ Len(NoHash) = 0
        BY <4>5 DEF NoHash
      <4> QED  BY <4>5, <4>6
    <3> QED  BY <3>1
  <2>4. /\ i * BlockSize \in Nat /\ i * BlockSize <= Len(toks[r]) /\ i \in Nat
        /\ k.pool.block_hash[b] = SubSeq(toks[r], 1, i * BlockSize)
    <3>1. /\ i \in Nat \ {0} /\ i * BlockSize \in Nat /\ i * BlockSize <= Len(toks[r])
          /\ k.pool.block_hash[b] = SubSeq(toks[r], 1, i * BlockSize)
      <4>1. k.pool.block_hash[k.req_to_blocks[r][i]] # NoHash
        BY <2>3
      <4>2. /\ i \in Nat \ {0} /\ i * BlockSize \in Nat /\ i * BlockSize <= Len(toks[r])
            /\ k.pool.block_hash[k.req_to_blocks[r][i]] = SubSeq(toks[r], 1, i * BlockSize)
        BY ONLY <4>1, HashInTable, Consistent(k, toks), r \in Req, i \in DOMAIN k.req_to_blocks[r]
      <4> QED  BY <4>2
    <3> QED  BY <3>1
  <2>5. /\ j * BlockSize \in Nat /\ j * BlockSize <= Len(toks[s]) /\ j \in Nat
        /\ k.pool.block_hash[b] = SubSeq(toks[s], 1, j * BlockSize)
    BY <2>3, HashInTable
  <2>6. toks[r] \in Seq(Token) /\ toks[s] \in Seq(Token) /\ BlockSize \in Nat \ {0}
    BY ManagerFields, PoolAssumption
  <2>7. i * BlockSize = j * BlockSize
    <3> DEFINE x == i * BlockSize
               y == j * BlockSize
               u == toks[r]
               w == toks[s]
    <3>1. /\ x \in Nat /\ y \in Nat /\ u \in Seq(Token) /\ w \in Seq(Token)
          /\ x <= Len(u) /\ y <= Len(w) /\ SubSeq(u, 1, x) = SubSeq(w, 1, y)
      BY <2>4, <2>5, <2>6
    <3> HIDE DEF x, y, u, w
    <3>2. Len(SubSeq(u, 1, x)) = x /\ Len(SubSeq(w, 1, y)) = y
      BY <3>1
    <3>3. x = y
      BY <3>1, <3>2
    <3> QED  BY <3>3 DEF x, y
  <2>8. i = j
    <3>1. i * BlockSize < j * BlockSize + BlockSize /\ j * BlockSize < i * BlockSize + BlockSize
      <4> DEFINE x == i * BlockSize
                 y == j * BlockSize
      <4>1. x \in Nat /\ x = y
        BY <2>4, <2>7
      <4> HIDE DEF x, y
      <4>2. x < y + BlockSize /\ y < x + BlockSize
        BY <2>6, <4>1
      <4> QED  BY <4>2 DEF x, y
    <3>2. i <= j /\ j <= i
      BY <2>4, <2>5, <2>6, <3>1, TimesCancels
    <3> QED  BY <2>4, <2>5, <3>2
  <2> QED  BY <2>4, <2>5, <2>8
<1> QED  BY <1>1, <1>2

(* The tokens of each request begin with those the manager knows. *)
Longer(toks, T) == T \in [Req -> Seq(Token)] /\ \A r \in Req : Begins(toks[r], T[r])

(* A position with a slot is in a block of the table. *)
LEMMA InBlocks ==
  ASSUME NEW k, NEW r, k.req_to_blocks[r] \in Seq(Blocks), NEW p \in Nat \ {0},
         p <= Len(k.req_to_blocks[r]) * BlockSize
  PROVE  /\ ((p - 1) \div BlockSize) + 1 \in DOMAIN k.req_to_blocks[r]
         /\ BlockAt(k, r, p) \in Blocks /\ OffsetAt(p) \in 1 .. BlockSize
<1> DEFINE i == ((p - 1) \div BlockSize) + 1
<1>1. Len(k.req_to_blocks[r]) \in Nat
  OBVIOUS
<1>2. i \in Nat \ {0} /\ i <= Len(k.req_to_blocks[r]) /\ OffsetAt(p) \in 1 .. BlockSize
  BY <1>1, Placed
<1> HIDE DEF i
<1>3. i \in DOMAIN k.req_to_blocks[r] /\ k.req_to_blocks[r][i] \in Blocks
  BY <1>1, <1>2
<1> QED  BY <1>2, <1>3 DEF i, BlockAt

(* Two requests never want different prefixes in one cell ... *)
LEMMA OneWantPerCell ==
  ASSUME NEW k, NEW toks, Consistent(k, toks), NEW T, Longer(toks, T),
         NEW r \in Req, NEW p \in Nat \ {0}, p <= Len(k.req_to_blocks[r]) * BlockSize,
         NEW s \in Req, NEW q \in Nat \ {0}, q <= Len(k.req_to_blocks[s]) * BlockSize,
         BlockAt(k, r, p) = BlockAt(k, s, q), OffsetAt(p) = OffsetAt(q)
  PROVE  SubSeq(T[r], 1, p) = SubSeq(T[s], 1, q)
<1> DEFINE i == ((p - 1) \div BlockSize) + 1
           j == ((q - 1) \div BlockSize) + 1
<1>1. /\ k.req_to_blocks[r] \in Seq(Blocks) /\ k.req_to_blocks[s] \in Seq(Blocks)
      /\ toks[r] \in Seq(Token) /\ toks[s] \in Seq(Token)
      /\ T[r] \in Seq(Token) /\ T[s] \in Seq(Token)
  BY ManagerFields DEF Longer
<1>2. /\ i \in Nat \ {0} /\ i <= Len(k.req_to_blocks[r])
      /\ p = (i * BlockSize - BlockSize) + OffsetAt(p) /\ p <= i * BlockSize
  <2>1. Len(k.req_to_blocks[r]) \in Nat
    BY <1>1
  <2> QED  BY <2>1, Placed
<1>3. /\ j \in Nat \ {0} /\ j <= Len(k.req_to_blocks[s])
      /\ q = (j * BlockSize - BlockSize) + OffsetAt(q)
  <2>1. Len(k.req_to_blocks[s]) \in Nat
    BY <1>1
  <2> QED  BY <2>1, Placed
<1>4. /\ i \in DOMAIN k.req_to_blocks[r] /\ j \in DOMAIN k.req_to_blocks[s]
      /\ k.req_to_blocks[r][i] = k.req_to_blocks[s][j]
  <2>1. k.req_to_blocks[r][i] = k.req_to_blocks[s][j]
    BY DEF BlockAt
  <2> HIDE DEF i, j
  <2> QED  BY <1>1, <1>2, <1>3, <2>1
<1> HIDE DEF i, j
<1>5. /\ i = j
      /\ r # s => /\ i * BlockSize \in Nat
                  /\ i * BlockSize <= Len(toks[r]) /\ i * BlockSize <= Len(toks[s])
                  /\ SubSeq(toks[r], 1, i * BlockSize) = SubSeq(toks[s], 1, i * BlockSize)
  BY <1>4, InOnePlace
<1>6. p = q
  BY <1>2, <1>3, <1>5
<1>7. CASE r = s
  BY <1>6, <1>7
<1>8. CASE r # s
  <2> DEFINE x == i * BlockSize
             u == toks[r]
             w == toks[s]
  <2>1. /\ x \in Nat /\ x <= Len(u) /\ x <= Len(w) /\ p \in 1 .. x
        /\ SubSeq(u, 1, x) = SubSeq(w, 1, x) /\ u \in Seq(Token) /\ w \in Seq(Token)
        /\ Len(u) \in Nat /\ Len(w) \in Nat
    <3>1. x \in Nat /\ x <= Len(u) /\ x <= Len(w) /\ SubSeq(u, 1, x) = SubSeq(w, 1, x)
      BY <1>5, <1>8
    <3>2. p <= x
      BY <1>2
    <3>3. u \in Seq(Token) /\ w \in Seq(Token)
      BY <1>1
    <3> HIDE DEF x, u, w
    <3> QED  BY <3>1, <3>2, <3>3
  <2>2. Begins(u, T[r]) /\ Begins(w, T[s])
    BY DEF Longer
  <2> HIDE DEF x, u, w
  <2>3. SubSeq(u, 1, p) = SubSeq(w, 1, p)
    <3>1. SubSeq(SubSeq(u, 1, x), 1, p) = SubSeq(u, 1, p)
          /\ SubSeq(SubSeq(w, 1, x), 1, p) = SubSeq(w, 1, p)
      BY <2>1, Prefixes
    <3> QED  BY <2>1, <3>1
  <2>4. p \in 1 .. Len(u) /\ p \in 1 .. Len(w)
    BY <2>1
  <2>5. SubSeq(T[r], 1, p) = SubSeq(u, 1, p) /\ SubSeq(T[s], 1, p) = SubSeq(w, 1, p)
    BY <1>1, <2>1, <2>2, <2>4, SamePrefix
  <2> QED  BY <1>6, <2>3, <2>5
<1> QED  BY <1>7, <1>8

(* ... and the hash of a block says what its owners hold in it. *)
LEMMA HashAgrees ==
  ASSUME NEW k, NEW toks, Consistent(k, toks), NEW T, Longer(toks, T),
         NEW s \in Req, NEW q \in Nat \ {0}, q <= Len(k.req_to_blocks[s]) * BlockSize,
         k.pool.block_hash[BlockAt(k, s, q)] # NoHash
  PROVE  LET h == k.pool.block_hash[BlockAt(k, s, q)]
         IN  Len(h) - BlockSize + OffsetAt(q) = q /\ SubSeq(h, 1, q) = SubSeq(T[s], 1, q)
<1> DEFINE h == k.pool.block_hash[BlockAt(k, s, q)]
           j == ((q - 1) \div BlockSize) + 1
           x == j * BlockSize
           w == toks[s]
<1>1. /\ k.req_to_blocks[s] \in Seq(Blocks) /\ w \in Seq(Token) /\ T[s] \in Seq(Token)
      /\ Begins(w, T[s]) /\ Len(w) \in Nat /\ Len(k.req_to_blocks[s]) \in Nat
  BY ManagerFields DEF Longer
<1>2. /\ j \in Nat \ {0} /\ j <= Len(k.req_to_blocks[s]) /\ x \in Nat
      /\ q = (x - BlockSize) + OffsetAt(q) /\ q <= x
  BY <1>1, Placed
<1>3. j \in DOMAIN k.req_to_blocks[s] /\ h = k.pool.block_hash[k.req_to_blocks[s][j]]
  <2>1. h = k.pool.block_hash[k.req_to_blocks[s][j]]
    BY DEF BlockAt
  <2> HIDE DEF j
  <2> QED  BY <1>1, <1>2, <2>1
<1> HIDE DEF j, h
<1>4. x <= Len(w) /\ h = SubSeq(w, 1, x)
  <2>1. k.pool.block_hash[k.req_to_blocks[s][j]] # NoHash
    BY <1>3 DEF h
  <2> QED  BY <1>3, <2>1, HashInTable
<1> HIDE DEF x, w
<1>5. q \in 1 .. x /\ q \in 1 .. Len(w)
  BY <1>1, <1>2, <1>4
<1>6. Len(h) = x /\ SubSeq(h, 1, q) = SubSeq(w, 1, q)
  BY <1>1, <1>2, <1>4, <1>5, Prefixes
<1>7. SubSeq(T[s], 1, q) = SubSeq(w, 1, q)
  BY <1>1, <1>5, SamePrefix
<1>8. Len(h) - BlockSize + OffsetAt(q) = q
  BY <1>2, <1>6
<1> QED  BY <1>6, <1>7, <1>8 DEF h

(* The step is executed: what the cells were about to hold, they hold. *)
LEMMA FillingHolds ==
  ASSUME NEW k, NEW toks, Consistent(k, toks), NEW T, Longer(toks, T),
         NEW F, InSlots(k, F), NEW c, NEW c1,
         \A b \in Blocks : \A o \in 1 .. BlockSize :
            \/ FilledWith(k, F, T, b, o, c1[b][o])
            \/ c1[b][o] = c[b][o] /\ \A x : ~FilledWith(k, F, T, b, o, x)
  PROVE  /\ CachedHeld(k, c, F, T) => CachedHeld(k, c1, {}, T)
         /\ \A r \in Req : \A n \in Nat :
              /\ n <= Len(k.req_to_blocks[r]) * BlockSize
              /\ ComputedHeld(k, c, F, T, r, n)
              => ComputedHeld(k, c1, {}, T, r, n)
<1>1. ASSUME NEW b \in Blocks, NEW o \in 1 .. BlockSize, NEW x, Has(k, c, F, T, b, o, x),
             \A e \in F : BlockAt(k, e[1], e[2]) = b /\ OffsetAt(e[2]) = o
                            => SubSeq(T[e[1]], 1, e[2]) = x
      PROVE  c1[b][o] = x
  <2>1. CASE FilledWith(k, F, T, b, o, c1[b][o])
    BY <1>1, <2>1 DEF FilledWith
  <2>2. CASE c1[b][o] = c[b][o] /\ \A y : ~FilledWith(k, F, T, b, o, y)
    BY <1>1, <2>2 DEF Has
  <2> QED  BY <2>1, <2>2
<1>2. ASSUME CachedHeld(k, c, F, T) PROVE CachedHeld(k, c1, {}, T)
  <2> SUFFICES ASSUME NEW b \in Blocks, NEW h, h = k.pool.block_hash[b], h # NoHash,
                      NEW o \in 1 .. BlockSize
               PROVE  c1[b][o] = SubSeq(h, 1, Len(h) - BlockSize + o)
    BY DEF CachedHeld, Has
  <2>1. Has(k, c, F, T, b, o, SubSeq(h, 1, Len(h) - BlockSize + o))
    BY <1>2 DEF CachedHeld
  <2>2. ASSUME NEW e \in F, BlockAt(k, e[1], e[2]) = b, OffsetAt(e[2]) = o
        PROVE  SubSeq(T[e[1]], 1, e[2]) = SubSeq(h, 1, Len(h) - BlockSize + o)
    <3>1. PICK s, q : s = e[1] /\ q = e[2]
      OBVIOUS
    <3>2. /\ s \in Req /\ q \in Nat \ {0} /\ q <= Len(k.req_to_blocks[s]) * BlockSize
          /\ h = k.pool.block_hash[BlockAt(k, s, q)]
      BY <2>2, <3>1 DEF InSlots
    <3>3. SubSeq(h, 1, Len(h) - BlockSize + OffsetAt(q)) = SubSeq(T[s], 1, q)
      <4> DEFINE g == k.pool.block_hash[BlockAt(k, s, q)]
      <4>1. Len(g) - BlockSize + OffsetAt(q) = q /\ SubSeq(g, 1, q) = SubSeq(T[s], 1, q)
        BY <3>2, HashAgrees
      <4> QED  BY <3>2, <4>1
    <3> QED  BY <2>2, <3>1, <3>3
  <2> QED  BY <1>1, <2>1, <2>2
<1>3. ASSUME NEW r \in Req, NEW n \in Nat, n <= Len(k.req_to_blocks[r]) * BlockSize,
             ComputedHeld(k, c, F, T, r, n)
      PROVE  ComputedHeld(k, c1, {}, T, r, n)
  <2> SUFFICES ASSUME NEW p \in 1 .. n
               PROVE  c1[BlockAt(k, r, p)][OffsetAt(p)] = SubSeq(T[r], 1, p)
    BY DEF ComputedHeld, Has
  <2>1. /\ k.req_to_blocks[r] \in Seq(Blocks) /\ Len(k.req_to_blocks[r]) \in Nat
        /\ p \in Nat \ {0} /\ BlockSize \in Nat
    BY ManagerFields, PoolAssumption
  <2>2. p <= Len(k.req_to_blocks[r]) * BlockSize
    <3>1. Len(k.req_to_blocks[r]) * BlockSize \in Nat
      BY <2>1, TimesMonotonic
    <3> DEFINE x == Len(k.req_to_blocks[r]) * BlockSize
    <3>2. x \in Nat /\ n <= x
      BY <1>3, <3>1
    <3> HIDE DEF x
    <3>3. p <= x
      BY <3>2
    <3> QED  BY <3>3 DEF x
  <2>3. BlockAt(k, r, p) \in Blocks /\ OffsetAt(p) \in 1 .. BlockSize
    BY <2>1, <2>2, InBlocks
  <2>4. Has(k, c, F, T, BlockAt(k, r, p), OffsetAt(p), SubSeq(T[r], 1, p))
    BY <1>3 DEF ComputedHeld
  <2>5. ASSUME NEW e \in F, BlockAt(k, e[1], e[2]) = BlockAt(k, r, p)
                            /\ OffsetAt(e[2]) = OffsetAt(p)
        PROVE  SubSeq(T[e[1]], 1, e[2]) = SubSeq(T[r], 1, p)
    <3>1. PICK s, q : s = e[1] /\ q = e[2]
      OBVIOUS
    <3>2. /\ s \in Req /\ q \in Nat \ {0} /\ q <= Len(k.req_to_blocks[s]) * BlockSize
          /\ BlockAt(k, s, q) = BlockAt(k, r, p) /\ OffsetAt(q) = OffsetAt(p)
      BY <2>5, <3>1 DEF InSlots
    <3>3. SubSeq(T[s], 1, q) = SubSeq(T[r], 1, p)
      BY <2>1, <2>2, <3>2, OneWantPerCell
    <3> QED  BY <3>1, <3>3
  <2> DEFINE b == BlockAt(k, r, p)
             o == OffsetAt(p)
             x == SubSeq(T[r], 1, p)
  <2>6. /\ b \in Blocks /\ o \in 1 .. BlockSize /\ Has(k, c, F, T, b, o, x)
        /\ \A e \in F : BlockAt(k, e[1], e[2]) = b /\ OffsetAt(e[2]) = o
                          => SubSeq(T[e[1]], 1, e[2]) = x
    BY <2>3, <2>4, <2>5
  <2> HIDE DEF b, o, x
  <2>7. c1[b][o] = x
    BY <1>1, <2>6
  <2> QED  BY <2>7 DEF b, o, x
<1> QED  BY <1>2, <1>3

(* What a cell holds it keeps, as long as the places to fill stay.         *)
StaysAt(k, k1, F, F1, T, T1) ==
    \A e \in F : /\ e \in F1
                 /\ BlockAt(k1, e[1], e[2]) = BlockAt(k, e[1], e[2])
                 /\ SubSeq(T1[e[1]], 1, e[2]) = SubSeq(T[e[1]], 1, e[2])

LEMMA HasStays ==
  ASSUME NEW k, NEW k1, NEW c, NEW F, NEW F1, NEW T, NEW T1, StaysAt(k, k1, F, F1, T, T1),
         NEW b, NEW o, NEW x, Has(k, c, F, T, b, o, x)
  PROVE  Has(k1, c, F1, T1, b, o, x)
<1>1. CASE c[b][o] = x
  BY <1>1 DEF Has
<1>2. CASE FilledWith(k, F, T, b, o, x)
  BY <1>2 DEF Has, FilledWith, StaysAt
<1> QED  BY <1>1, <1>2 DEF Has

(* Hashes that go, or stay, take nothing from what is held. *)
LEMMA CachedStays ==
  ASSUME NEW k, NEW k1, NEW c, NEW F, NEW F1, NEW T, NEW T1, StaysAt(k, k1, F, F1, T, T1),
         CachedHeld(k, c, F, T), k1.pool.block_hash = k.pool.block_hash
  PROVE  CachedHeld(k1, c, F1, T1)
<1> SUFFICES ASSUME NEW b \in Blocks, NEW h, h = k1.pool.block_hash[b], h # NoHash,
                    NEW o \in 1 .. BlockSize
             PROVE  Has(k1, c, F1, T1, b, o, SubSeq(h, 1, Len(h) - BlockSize + o))
  BY DEF CachedHeld
<1>1. Has(k, c, F, T, b, o, SubSeq(h, 1, Len(h) - BlockSize + o))
  BY DEF CachedHeld
<1> QED  BY <1>1, HasStays

(* A block that gets a hash is full of tokens whose KV the cells hold.     *)
LEMMA CachedGrows ==
  ASSUME NEW k, NEW k1, NEW toks, Consistent(k1, toks), NEW r \in Req, NEW n \in Nat,
         Grows(k, k1, r, n), NEW c, NEW F, NEW F1, NEW T, NEW T1, NEW X \in [Req -> Seq(Token)],
         StaysAt(k, k1, F, F1, T, T1), CachedHeld(k, c, F, T), Begins(toks[r], X[r]),
         \A p \in 1 .. n : Has(k1, c, F1, T1, BlockAt(k1, r, p), OffsetAt(p), SubSeq(X[r], 1, p))
  PROVE  CachedHeld(k1, c, F1, T1)
<1> SUFFICES ASSUME NEW b \in Blocks, NEW h, h = k1.pool.block_hash[b], h # NoHash,
                    NEW o \in 1 .. BlockSize
             PROVE  Has(k1, c, F1, T1, b, o, SubSeq(h, 1, Len(h) - BlockSize + o))
  BY DEF CachedHeld
<1>1. CASE h = k.pool.block_hash[b]
  <2>1. Has(k, c, F, T, b, o, SubSeq(h, 1, Len(h) - BlockSize + o))
    BY <1>1 DEF CachedHeld
  <2> QED  BY <2>1, HasStays
<1>2. CASE h # k.pool.block_hash[b]
  <2>1. PICK i \in DOMAIN k1.req_to_blocks[r] :
            i * BlockSize <= n /\ k1.req_to_blocks[r][i] = b
    BY <1>2 DEF Grows
  <2>2. k1.req_to_blocks[r] \in Seq(Blocks) /\ toks[r] \in Seq(Token) /\ X[r] \in Seq(Token)
        /\ Len(toks[r]) \in Nat
    BY ManagerFields
  <2> DEFINE x == i * BlockSize
             p == (x - BlockSize) + o
             w == toks[r]
  <2>3. i \in Nat \ {0} /\ x \in Nat /\ x <= Len(w) /\ h = SubSeq(w, 1, x)
    <3>1. k1.pool.block_hash[k1.req_to_blocks[r][i]] # NoHash
          /\ h = k1.pool.block_hash[k1.req_to_blocks[r][i]]
      BY <2>1
    <3>2. /\ i \in Nat \ {0} /\ i * BlockSize \in Nat /\ i * BlockSize <= Len(toks[r])
          /\ k1.pool.block_hash[k1.req_to_blocks[r][i]] = SubSeq(toks[r], 1, i * BlockSize)
      BY <3>1, HashInTable
    <3> QED  BY <3>1, <3>2
  <2>4. p \in Nat \ {0} /\ p <= x /\ ((p - 1) \div BlockSize) + 1 = i /\ OffsetAt(p) = o
    BY <2>3, PlacedAt
  <2> HIDE DEF x, p
  <2>5. x <= n
    BY <2>1 DEF x
  <2>6. p \in 1 .. n /\ p \in 1 .. x /\ p \in 1 .. Len(w)
    BY <2>2, <2>3, <2>4, <2>5
  <2>7. BlockAt(k1, r, p) = b
    BY <2>1, <2>4 DEF BlockAt
  <2> HIDE DEF w
  <2>8. w \in Seq(Token) /\ Begins(w, X[r])
    BY <2>2 DEF w
  <2>9. SubSeq(X[r], 1, p) = SubSeq(w, 1, p) /\ SubSeq(h, 1, p) = SubSeq(w, 1, p) /\ Len(h) = x
    BY <2>2, <2>3, <2>6, <2>8, SamePrefix, Prefixes
  <2>10. Len(h) - BlockSize + o = p
    BY <2>9 DEF p
  <2>11. Has(k1, c, F1, T1, BlockAt(k1, r, p), OffsetAt(p), SubSeq(X[r], 1, p))
    BY <2>6
  <2> QED  BY <2>4, <2>7, <2>9, <2>10, <2>11
<1> QED  BY <1>1, <1>2

(* A hit holds the first tokens of the request that makes it.              *)
LEMMA HitsHold ==
  ASSUME NEW k, NEW k1, NEW toks, NEW T, Longer(toks, T), NEW c, NEW F, CachedHeld(k, c, F, T),
         NEW r \in Req, toks[r] \in Seq(Token), NEW hits, Len(hits) \in Nat,
         HitsLead(k, k1, toks, r, hits), Len(hits) * BlockSize <= Len(toks[r]),
         NEW p \in Nat \ {0}, p <= Len(hits) * BlockSize
  PROVE  Has(k, c, F, T, BlockAt(k1, r, p), OffsetAt(p), SubSeq(T[r], 1, p))
<1> DEFINE i == ((p - 1) \div BlockSize) + 1
           o == OffsetAt(p)
           b == k1.req_to_blocks[r][i]
           h == k.pool.block_hash[b]
           w == toks[r]
           x == i * BlockSize
           y == Len(hits) * BlockSize
<1>1. /\ i \in Nat \ {0} /\ o \in 1 .. BlockSize /\ p = (x - BlockSize) + o
      /\ x \in Nat /\ p <= x /\ i <= Len(hits)
  BY Placed
<1>2. b = BlockAt(k1, r, p)
  BY DEF BlockAt
<1> HIDE DEF i, o
<1>3. b \in Blocks /\ h = SubSeq(w, 1, x) /\ h # NoHash
  <2>1. i \in 1 .. Len(hits)
    BY <1>1
  <2> QED  BY <2>1 DEF HitsLead
<1>4. x <= Len(w) /\ w \in Seq(Token) /\ Len(w) \in Nat /\ Begins(w, T[r]) /\ T[r] \in Seq(Token)
  <2>1. x <= y /\ y \in Nat
    <3>1. BlockSize \in Nat /\ i \in Nat /\ Len(hits) \in Nat /\ i <= Len(hits)
      BY <1>1, PoolAssumption
    <3> QED  BY <3>1, TimesMonotonic
  <2>2. w \in Seq(Token) /\ y <= Len(w) /\ Begins(w, T[r]) /\ T[r] \in Seq(Token)
    BY DEF Longer
  <2> HIDE DEF x, y, w
  <2> QED  BY <1>1, <2>1, <2>2
<1>5. Has(k, c, F, T, b, o, SubSeq(h, 1, Len(h) - BlockSize + o))
  BY <1>1, <1>3 DEF CachedHeld
<1> HIDE DEF x, w, h, b
<1>6. p \in 1 .. x /\ p \in 1 .. Len(w)
  BY <1>1, <1>4
<1>7. /\ Len(h) = x /\ SubSeq(h, 1, p) = SubSeq(w, 1, p)
      /\ SubSeq(T[r], 1, p) = SubSeq(w, 1, p)
  BY <1>1, <1>3, <1>4, <1>6, Prefixes, SamePrefix
<1>8. Len(h) - BlockSize + o = p
  BY <1>1, <1>7, PoolAssumption
<1> QED  BY <1>2, <1>5, <1>7, <1>8 DEF o

================================================================================
