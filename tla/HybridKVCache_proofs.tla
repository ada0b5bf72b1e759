------------------------ MODULE HybridKVCache_proofs ------------------------
(***************************************************************************)
(* What HybridKVCache gives back early, what it reserves and what it keeps *)
(* exact, for all layouts, windows, chunk sizes, block sizes, step budgets *)
(* and model lengths: no token that comes later reads what a group skips,  *)
(* what a group holds at a time is within what an admission has counted,   *)
(* pool and tables agree, and a lookup finds the longest prefix that all   *)
(* groups can use.                                                         *)
(***************************************************************************)
EXTENDS HybridKVCache, BlockPool_proofs

----------------------------------------------------------------------------
(* Division *)

(* A common factor cancels. *)
LEMMA FactorCancels ==
  ASSUME NEW a \in Int, NEW b \in Int, NEW d \in Nat \ {0}, a * d < b * d
  PROVE  a < b
<1>1. ASSUME b <= a PROVE b * d <= a * d
  BY <1>1
<1> QED  BY <1>1

(* A quotient does not shrink when its dividend grows. *)
LEMMA DivMonotone ==
  ASSUME NEW m \in Nat, NEW n \in Nat, NEW d \in Nat \ {0}, m <= n
  PROVE  m \div d <= n \div d
<1> DEFINE p == m \div d  q == n \div d
<1>1. /\ p \in Nat /\ p * d <= m
      /\ q \in Nat /\ n < q * d + d
  BY DivBounds
<1> HIDE DEF p, q
<1>2. q * d + d = (q + 1) * d
  BY <1>1
<1>3. p * d < (q + 1) * d
  BY <1>1, <1>2
<1>4. p < q + 1
  BY <1>1, <1>3, FactorCancels
<1> QED  BY <1>1, <1>4 DEF p, q

(* A number below a multiple has a quotient below the factor. *)
LEMMA QuotientBelow ==
  ASSUME NEW n \in Nat, NEW d \in Nat \ {0}, NEW k \in Nat, n < k * d
  PROVE  n \div d < k
<1> DEFINE q == n \div d
<1>1. q \in Nat /\ q * d <= n
  BY DivBounds
<1> HIDE DEF q
<1>2. q * d < k * d
  BY <1>1
<1>3. q < k
  BY <1>1, <1>2, FactorCancels
<1> QED  BY <1>3 DEF q

(* A quotient rounded up is the least number of blocks that covers. *)
LEMMA CdivBounds ==
  ASSUME NEW n \in Nat, NEW d \in Nat \ {0}
  PROVE  /\ cdiv(n, d) \in Nat
         /\ n <= cdiv(n, d) * d
         /\ (cdiv(n, d) - 1) * d < n
<1> DEFINE x == n + d - 1
           q == x \div d
<1>1. x \in Nat
  OBVIOUS
<1> HIDE DEF x
<1>2. q \in Nat /\ q * d <= x /\ x < q * d + d
  BY <1>1, DivBounds
<1> HIDE DEF q
<1>3. (q - 1) * d = q * d - d /\ q * d \in Nat
  BY <1>2
<1>4. /\ q \in Nat
      /\ n <= q * d
      /\ (q - 1) * d < n
  BY <1>2, <1>3 DEF x
<1> QED  BY <1>4 DEF q, x, cdiv

----------------------------------------------------------------------------
(* What is given back *)

LEMMA Parameters ==
  /\ BlockSize \in Nat \ {0} /\ ChunkSize \in Nat \ {0}
  /\ ChunkSize % BlockSize = 0
  /\ SlidingWindow \in Nat /\ SlidingWindow >= 2
  /\ MaxModelLen \in Nat \ {0} /\ MaxBatchedTokens \in Nat \ {0}
BY PoolAssumption, HybridAssumption DEF PoolAssumption, HybridAssumption

LEMMA SkippedIsNat ==
  ASSUME NEW kind \in Kinds, NEW n \in Nat
  PROVE  get_num_skipped_tokens(kind, n) \in Nat
<1>1. n \div ChunkSize \in Nat
  BY Parameters, DivBounds
<1>2. (n \div ChunkSize) * ChunkSize \in Nat
  <2> DEFINE q == n \div ChunkSize
  <2>1. q \in Nat  BY <1>1
  <2> HIDE DEF q
  <2>2. q * ChunkSize \in Nat  BY <2>1, Parameters
  <2> QED  BY <2>2 DEF q
<1>3. CASE kind = "full"
  BY <1>3 DEF get_num_skipped_tokens
<1>4. CASE kind = "sliding"
  BY <1>4, Parameters DEF get_num_skipped_tokens, Greatest
<1>5. CASE kind = "chunked"
  BY <1>5, <1>2 DEF get_num_skipped_tokens
<1>6. CASE kind = "mamba"
  BY <1>6 DEF get_num_skipped_tokens, Greatest
<1> QED  BY <1>3, <1>4, <1>5, <1>6 DEF Kinds

(* A token that get_num_skipped_tokens says is not needed once n tokens    *)
(* are computed is read by no token from position n on.                    *)
THEOREM SkippedAreNotRead ==
  ASSUME NEW kind \in Kinds, NEW n \in Nat, NEW m \in Nat, n <= m,
         NEW p \in Nat, p < get_num_skipped_tokens(kind, n)
  PROVE  p \notin Reads(kind, m)
<1>1. CASE kind = "full"
  BY <1>1 DEF get_num_skipped_tokens
<1>2. CASE kind = "sliding"
  <2>1. p < n - SlidingWindow + 1
    BY <1>2, Parameters DEF get_num_skipped_tokens, Greatest
  <2>2. ~(m - p < SlidingWindow)
    BY <2>1, Parameters
  <2> QED  BY <1>2, <2>2 DEF Reads
<1>3. CASE kind = "chunked"
  <2> DEFINE q == n \div ChunkSize
  <2>1. q \in Nat /\ q <= m \div ChunkSize
    BY Parameters, DivBounds, DivMonotone
  <2>2. p < q * ChunkSize
    BY <1>3 DEF get_num_skipped_tokens
  <2> HIDE DEF q
  <2>3. p \div ChunkSize < q
    BY <2>1, <2>2, Parameters, QuotientBelow
  <2>4. p \div ChunkSize \in Nat /\ m \div ChunkSize \in Nat
    BY Parameters, DivBounds
  <2>5. p \div ChunkSize # m \div ChunkSize
    BY <2>1, <2>3, <2>4
  <2> QED  BY <1>3, <2>5 DEF Reads
<1>4. CASE kind = "mamba"
  <2>1. p < n - 1
    BY <1>4 DEF get_num_skipped_tokens, Greatest
  <2>2. ~(m - p <= 1)
    BY <2>1
  <2> QED  BY <1>4, <2>2 DEF Reads
<1> QED  BY <1>1, <1>2, <1>3, <1>4 DEF Kinds

(* The blocks in front that a group has stopped reading end within the     *)
(* tokens it has stopped reading.                                          *)
LEMMA SkippedBlocksBounds ==
  ASSUME NEW kind \in Kinds, NEW n \in Nat
  PROVE  /\ SkippedBlocks(kind, n) \in Nat
         /\ SkippedBlocks(kind, n) * BlockSize <= get_num_skipped_tokens(kind, n)
         /\ get_num_skipped_tokens(kind, n)
                < SkippedBlocks(kind, n) * BlockSize + BlockSize
<1> DEFINE s == get_num_skipped_tokens(kind, n)
<1>1. s \in Nat
  BY SkippedIsNat
<1> HIDE DEF s
<1>2. /\ s \div BlockSize \in Nat
      /\ (s \div BlockSize) * BlockSize <= s
      /\ s < (s \div BlockSize) * BlockSize + BlockSize
  BY <1>1, Parameters, DivBounds
<1> QED  BY <1>2 DEF s, SkippedBlocks

(* remove_skipped_blocks gives back no block that a later token of the     *)
(* request reads in that group.                                            *)
THEOREM GivenBackIsNotRead ==
  ASSUME NEW kind \in Kinds, NEW n \in Nat, NEW m \in Nat, n <= m,
         NEW i \in 1 .. SkippedBlocks(kind, n)
  PROVE  i \notin BlocksOf(Reads(kind, m))
<1> SUFFICES ASSUME NEW p \in Reads(kind, m), i = p \div BlockSize + 1
             PROVE  FALSE
  BY DEF BlocksOf
<1> DEFINE s == get_num_skipped_tokens(kind, n)
           k == SkippedBlocks(kind, n)
           q == p \div BlockSize
<1>1. p \in Nat
  BY DEF Reads
<1>2. q \in Nat /\ p < q * BlockSize + BlockSize
  BY <1>1, Parameters, DivBounds
<1>3. k \in Nat /\ k * BlockSize <= s /\ s \in Nat
  BY SkippedBlocksBounds, SkippedIsNat
<1>4. i = q + 1 /\ i <= k
  BY <1>3
<1> HIDE DEF s, k, q
<1>5. (q + 1) * BlockSize = q * BlockSize + BlockSize
  BY <1>2, Parameters
<1>6. (q + 1) * BlockSize <= k * BlockSize
  BY <1>2, <1>3, <1>4, Parameters
<1>7. p < s
  <2> DEFINE a == q * BlockSize
             b == k * BlockSize
  <2>1. a \in Nat /\ b \in Nat
    BY <1>2, <1>3, Parameters
  <2>2. p < a + BlockSize /\ a + BlockSize <= b /\ b <= s
    BY <1>2, <1>3, <1>5, <1>6
  <2> HIDE DEF a, b
  <2> QED  BY <1>1, <1>3, <2>1, <2>2, Parameters
<1> QED  BY <1>1, <1>7, SkippedAreNotRead DEF s

----------------------------------------------------------------------------
(* What is reserved *)

(* The blocks from the skipped ones on, up to those of the last of n       *)
(* tokens, are no more than a cap that covers the tokens between.          *)
LEMMA HeldBlocks ==
  ASSUME NEW n \in Nat, NEW sb \in Nat, NEW x \in Nat,
         n - sb * BlockSize <= x
  PROVE  cdiv(n, BlockSize) - sb <= cdiv(x, BlockSize)
<1> DEFINE q == cdiv(n, BlockSize)
           c == cdiv(x, BlockSize)
<1>1. /\ q \in Nat /\ (q - 1) * BlockSize < n
      /\ c \in Nat /\ x <= c * BlockSize
  BY Parameters, CdivBounds
<1> HIDE DEF q, c
<1>2. (q - 1) * BlockSize < (sb + c) * BlockSize
  <2> DEFINE a == (q - 1) * BlockSize
             b == sb * BlockSize
             d == c * BlockSize
  <2>1. a \in Int /\ b \in Nat /\ d \in Nat
    BY <1>1, Parameters
  <2>2. a < n /\ n - b <= x /\ x <= d
    BY <1>1
  <2>3. (sb + c) * BlockSize = b + d
    BY <1>1, Parameters
  <2> HIDE DEF a, b, d
  <2>4. a < b + d
    BY <2>1, <2>2
  <2> QED  BY <2>3, <2>4 DEF a
<1>3. q - 1 < sb + c
  BY <1>1, <1>2, Parameters, FactorCancels
<1> QED  BY <1>1, <1>3 DEF q, c

(* A chunk begins at a block: the blocks skipped are the tokens skipped. *)
LEMMA ChunksAreAligned ==
  ASSUME NEW n \in Nat
  PROVE  SkippedBlocks("chunked", n) * BlockSize = get_num_skipped_tokens("chunked", n)
<1> DEFINE q == n \div ChunkSize
           c == ChunkSize \div BlockSize
           k == SkippedBlocks("chunked", n)
<1>1. q \in Nat
  BY Parameters, DivBounds
<1>2. c \in Nat /\ ChunkSize = c * BlockSize
  BY Parameters
<1>3. get_num_skipped_tokens("chunked", n) = q * ChunkSize
  BY DEF get_num_skipped_tokens
<1>4. k \in Nat /\ k * BlockSize <= q * ChunkSize /\ q * ChunkSize < k * BlockSize + BlockSize
  BY <1>3, SkippedBlocksBounds DEF Kinds
<1> HIDE DEF q, c, k
<1>5. q * ChunkSize = (q * c) * BlockSize /\ q * c \in Nat
  BY <1>1, <1>2, Parameters
<1>6. k * BlockSize + BlockSize = (k + 1) * BlockSize
  BY <1>4, Parameters
<1>7. q * c < k + 1
  BY <1>4, <1>5, <1>6, Parameters, FactorCancels
<1>8. k <= q * c
  <2> SUFFICES ASSUME q * c < k PROVE FALSE
    BY <1>4, <1>5
  <2>1. (q * c) * BlockSize + BlockSize <= k * BlockSize
    <3> DEFINE e == q * c
    <3>1. e \in Nat /\ e + 1 <= k
      BY <1>4, <1>5
    <3> HIDE DEF e
    <3>2. (e + 1) * BlockSize <= k * BlockSize
      BY <1>4, <3>1, Parameters
    <3>3. (e + 1) * BlockSize = e * BlockSize + BlockSize
      BY <3>1, Parameters
    <3> QED  BY <3>2, <3>3 DEF e
  <2>2. k * BlockSize <= (q * c) * BlockSize
    BY <1>4, <1>5
  <2> DEFINE f == (q * c) * BlockSize
             g == k * BlockSize
  <2>3. f \in Nat /\ g \in Nat
    BY <1>4, <1>5, Parameters
  <2> HIDE DEF f, g
  <2> QED  BY <2>1, <2>2, <2>3, Parameters DEF f, g
<1>9. k = q * c
  BY <1>4, <1>5, <1>7, <1>8
<1> QED  BY <1>3, <1>5, <1>9 DEF k

(* An admission counts at most max_admission_blocks for a group that gives *)
(* back early.  That is enough: what the group's table holds when b tokens *)
(* are scheduled after n computed ones, those given back set aside, is not *)
(* more, for every step the budget and the model length allow.             *)
THEOREM HeldWithinAdmission ==
  ASSUME NEW kind \in {"sliding", "chunked"}, NEW n \in Nat, NEW b \in Nat,
         b <= MaxBatchedTokens, n + b <= MaxModelLen
  PROVE  cdiv(n + b, BlockSize) - SkippedBlocks(kind, n) <= max_admission_blocks(kind)
<1> DEFINE s  == get_num_skipped_tokens(kind, n)
           sb == SkippedBlocks(kind, n)
<1>1. /\ s \in Nat /\ sb \in Nat
      /\ sb * BlockSize <= s /\ s < sb * BlockSize + BlockSize
  BY SkippedIsNat, SkippedBlocksBounds DEF Kinds
<1>2. n + b \in Nat /\ sb + 1 \in Nat
  BY <1>1
<1>3. CASE kind = "sliding"
  <2> DEFINE x == Least(SlidingWindow - 1 + MaxBatchedTokens, MaxModelLen)
  <2>1. x \in Nat /\ (n + b) - s <= x
    <3>1. s = IF 0 > n - SlidingWindow + 1 THEN 0 ELSE n - SlidingWindow + 1
      BY <1>3 DEF get_num_skipped_tokens, Greatest
    <3> HIDE DEF s
    <3> QED  BY <3>1, Parameters DEF Least
  <2> HIDE DEF s, sb, x
  <2>2. (sb + 1) * BlockSize = sb * BlockSize + BlockSize
    BY <1>1, Parameters
  <2>3. (n + b) - (sb + 1) * BlockSize <= x
    <3> DEFINE e == sb * BlockSize
    <3>1. e \in Nat /\ s < e + BlockSize
      BY <1>1, Parameters
    <3> HIDE DEF e
    <3>2. (n + b) - (e + BlockSize) <= x
      BY <1>1, <2>1, <3>1, Parameters
    <3> QED  BY <2>2, <3>2 DEF e
  <2>4. cdiv(n + b, BlockSize) - (sb + 1) <= cdiv(x, BlockSize)
    BY <1>2, <2>1, <2>3, HeldBlocks
  <2>5. cdiv(n + b, BlockSize) \in Nat /\ cdiv(x, BlockSize) \in Nat
    BY <2>1, Parameters, CdivBounds
  <2>6. cdiv(n + b, BlockSize) - sb <= cdiv(x, BlockSize) + 1
    BY <1>1, <2>4, <2>5
  <2>7. max_admission_blocks(kind) = cdiv(x, BlockSize) + 1
    BY <1>3, Zenon DEF x, max_admission_blocks
  <2> QED  BY <2>6, <2>7 DEF sb
<1>4. CASE kind = "chunked"
  <2> DEFINE x == Least(ChunkSize + MaxBatchedTokens, MaxModelLen)
  <2>1. x \in Nat /\ (n + b) - s <= x
    <3> DEFINE q == n \div ChunkSize
               e == q * ChunkSize
    <3>1. s = e
      BY <1>4 DEF get_num_skipped_tokens
    <3>2. n < e + ChunkSize
      BY Parameters, DivBounds
    <3> HIDE DEF e, s
    <3> QED  BY <1>1, <3>1, <3>2, Parameters DEF Least
  <2>2. (n + b) - sb * BlockSize <= x
    BY <1>4, <2>1, ChunksAreAligned
  <2> HIDE DEF s, sb, x
  <2>3. cdiv(n + b, BlockSize) - sb <= cdiv(x, BlockSize)
    BY <1>1, <1>2, <2>1, <2>2, HeldBlocks
  <2>4. max_admission_blocks(kind) = cdiv(x, BlockSize)
    <3>1. kind # "sliding"
      BY <1>4
    <3> QED  BY <3>1, Zenon DEF x, max_admission_blocks
  <2> QED  BY <2>3, <2>4 DEF sb
<1> QED  BY <1>3, <1>4

----------------------------------------------------------------------------
(* Chains.  A function F makes one step after the other from base; if each *)
(* leads from one set of states to the next, the last state is in the last *)
(* set.                                                                    *)
Steps(F, base, n, f) ==
    f = [g \in 0 .. n |-> IF g = 0 THEN base ELSE F[<<f[g - 1], g>>]]

(* A statement about 0 .. n that passes from each number to the next. *)
LEMMA UpTo0 ==
  ASSUME NEW n \in Nat, NEW S, 0 \in S, \A g \in 1 .. n : g - 1 \in S => g \in S
  PROVE  0 .. n \subseteq S
<1> DEFINE Bad == {g \in 0 .. n : g \notin S}
<1> SUFFICES ASSUME Bad # {} PROVE FALSE
  OBVIOUS
<1>1. PICK g \in Bad : \A h \in Bad : g <= h
  <2>1. Bad \subseteq Nat
    OBVIOUS
  <2> HIDE DEF Bad
  <2> QED  BY <2>1, LeastNatural
<1>2. g \in 1 .. n /\ g - 1 \in 0 .. n /\ ~(g <= g - 1)
  BY <1>1
<1>3. g - 1 \in S
  BY <1>1, <1>2
<1> QED  BY <1>1, <1>2, <1>3

LEMMA ChainStays ==
  ASSUME NEW n \in Nat, NEW P, NEW f, f[0] \in P[0],
         \A g \in 1 .. n : f[g - 1] \in P[g - 1] => f[g] \in P[g]
  PROVE  \A g \in 0 .. n : f[g] \in P[g]
<1> DEFINE S == {g \in 0 .. n : f[g] \in P[g]}
<1>1. 0 \in S
  OBVIOUS
<1>2. \A g \in 1 .. n : g - 1 \in S => g \in S
  OBVIOUS
<1>3. 0 .. n \subseteq S
  <2> HIDE DEF S
  <2> QED  BY <1>1, <1>2, UpTo0
<1> QED  BY <1>3

LEMMA ChainExists ==
  ASSUME NEW n \in Nat, NEW F, NEW base
  PROVE  \E f : Steps(F, base, n, f)
<1> DEFINE S == {m \in 0 .. n : \E f : Steps(F, base, m, f)}
<1>1. 0 \in S
  <2> DEFINE f == [g \in 0 .. 0 |-> base]
  <2>1. Steps(F, base, 0, f)
    BY DEF Steps
  <2> QED  BY <2>1
<1>2. ASSUME NEW m \in 1 .. n, m - 1 \in S PROVE m \in S
  <2>1. PICK f : Steps(F, base, m - 1, f)
    BY <1>2
  <2> DEFINE h == [g \in 0 .. m |-> IF g = m THEN F[<<f[m - 1], m>>] ELSE f[g]]
  <2>2. f = [g \in 0 .. m - 1 |-> IF g = 0 THEN base ELSE F[<<f[g - 1], g>>]]
    BY <2>1 DEF Steps
  <2>3. h = [g \in 0 .. m |-> IF g = 0 THEN base ELSE F[<<h[g - 1], g>>]]
    <3> SUFFICES ASSUME NEW g \in 0 .. m
                 PROVE  h[g] = IF g = 0 THEN base ELSE F[<<h[g - 1], g>>]
      OBVIOUS
    <3>1. CASE g = m
      <4>1. m # 0 /\ m - 1 \in 0 .. m /\ m - 1 # m
        OBVIOUS
      <4>2. h[m - 1] = f[m - 1]
        BY <4>1
      <4> QED  BY <3>1, <4>1, <4>2
    <3>2. CASE g # m
      <4>1. g \in 0 .. m - 1
        BY <3>2
      <4>2. f[g] = IF g = 0 THEN base ELSE F[<<f[g - 1], g>>]
        BY <2>2, <4>1
      <4>3. g # 0 => g - 1 \in 0 .. m /\ g - 1 # m
        BY <4>1
      <4>4. g # 0 => h[g - 1] = f[g - 1]
        BY <4>3
      <4> QED  BY <3>2, <4>2, <4>4
    <3> QED  BY <3>1, <3>2
  <2> HIDE DEF h
  <2>4. Steps(F, base, m, h)
    BY <2>3 DEF Steps
  <2> QED  BY <2>4
<1>3. 0 .. n \subseteq S
  <2> HIDE DEF S
  <2> QED  BY <1>1, <1>2, UpTo0
<1>4. n \in 0 .. n
  OBVIOUS
<1> QED  BY <1>3, <1>4

(* Every number but the first follows one that is in its set.              *)
LEMMA EarlierIn ==
  ASSUME NEW n \in Nat, NEW P, NEW f, \A g \in 0 .. n : f[g] \in P[g]
  PROVE  \A g \in 0 .. n : g # 0 => g \in 1 .. n /\ f[g - 1] \in P[g - 1]
<1> SUFFICES ASSUME NEW g \in 0 .. n, g # 0
             PROVE  g \in 1 .. n /\ f[g - 1] \in P[g - 1]
  OBVIOUS
<1>1. g \in 1 .. n /\ g - 1 \in 0 .. n
  OBVIOUS
<1> QED  BY <1>1

(* A function that agrees with the steps on the states they pass through:  *)
(* what Chain chooses is one.                                              *)
LEMMA ChainLeads ==
  ASSUME NEW n \in Nat, NEW P, NEW F, NEW base, base \in P[0],
         \A g \in 1 .. n : \A x \in P[g - 1] : F[<<x, g>>] \in P[g]
  PROVE  \E f : /\ Steps(F, base, n, f)
                /\ \A g \in 0 .. n : f[g] \in P[g]
<1>1. PICK f : Steps(F, base, n, f)
  BY ChainExists
<1>2. f[0] = base /\ \A g \in 1 .. n : f[g] = F[<<f[g - 1], g>>]
  BY <1>1 DEF Steps
<1>3. \A g \in 0 .. n : f[g] \in P[g]
  BY <1>2, ChainStays
<1> QED  BY <1>1, <1>3

----------------------------------------------------------------------------
(* Pool and tables together *)

HybridFaults == {"none", "no_free_blocks", "block_already_hashed"}
Entries == Blocks \cup {Null}

HybridType ==
    [pool : PoolType,
     req_to_blocks : [Req -> [Groups -> Seq(Entries)]],
     num_cached_block : [Req -> [Groups -> Nat]],
     cached_blocks_this_step : SUBSET Hash,
     data : [Blocks -> Hash],
     fault : HybridFaults]

HoldersIn(k, b) == {q \in Req \X Groups : b \in Range(k.req_to_blocks[q[1]][q[2]])}

(* No table holds a block twice. *)
Once(t) == \A i, j \in DOMAIN t : t[i] = t[j] /\ t[i] # Null => i = j

(* Behind what is cached of a table is what nobody else holds and what no  *)
(* lookup finds.                                                           *)
Private(t, m) == {b \in Blocks : \E i \in DOMAIN t : i > m /\ t[i] = b}

TableSound(k, r, g) ==
    LET t == k.req_to_blocks[r][g]
        m == k.num_cached_block[r][g]
    IN  /\ Once(t)
        /\ m <= Len(t)
        /\ \A b \in Private(t, m) :
               k.pool.block_hash[b] = NoHash /\ HoldersIn(k, b) = {<<r, g>>}

Sound(k) ==
    /\ k \in HybridType
    /\ FreeListOK(k.pool) /\ HashMapOK(k.pool)
    /\ \A b \in Blocks : k.pool.ref_cnt[b] = Cardinality(HoldersIn(k, b))
    /\ \A r \in Req, g \in Groups : TableSound(k, r, g)

LEMMA HybridFields ==
  ASSUME NEW k \in HybridType
  PROVE  /\ k.pool \in PoolType /\ k.fault \in HybridFaults
         /\ k.pool.free_block_queue \in Seq(Blocks)
         /\ k.pool.ref_cnt \in [Blocks -> Int]
         /\ k.pool.block_hash \in [Blocks -> Hash]
         /\ k.req_to_blocks \in [Req -> [Groups -> Seq(Entries)]]
         /\ k.num_cached_block \in [Req -> [Groups -> Nat]]
         /\ k.cached_blocks_this_step \in SUBSET Hash
         /\ k.data \in [Blocks -> Hash]
BY DEF HybridType, PoolType

LEMMA TableFields ==
  ASSUME NEW k \in HybridType, NEW r \in Req, NEW g \in Groups
  PROVE  /\ k.req_to_blocks[r][g] \in Seq(Entries)
         /\ k.num_cached_block[r][g] \in Nat
BY HybridFields

(* The groups are finitely many, and so are the holders of a block. *)
LEMMA GroupsFinite ==
  ASSUME layout \in Layouts
  PROVE  /\ layout \in Seq(Kinds) /\ Len(layout) \in Nat /\ Groups = 1 .. Len(layout)
         /\ IsFiniteSet(Groups) /\ IsFiniteSet(Req) /\ IsFiniteSet(Req \X Groups)
<1>1. layout \in Seq(Kinds) /\ IsFiniteSet(Req)
  BY HybridAssumption DEF HybridAssumption
<1>2. Len(layout) \in Nat /\ Groups = 1 .. Len(layout)
  BY <1>1 DEF Groups
<1>3. IsFiniteSet(Groups)
  BY <1>2, FS_Interval
<1>4. IsFiniteSet(Req \X Groups)
  BY <1>1, <1>3, FS_Product
<1> QED  BY <1>1, <1>2, <1>3, <1>4

LEMMA HoldersFinite ==
  ASSUME layout \in Layouts, NEW k, NEW b
  PROVE  IsFiniteSet(HoldersIn(k, b)) /\ Cardinality(HoldersIn(k, b)) \in Nat
<1>1. HoldersIn(k, b) \in SUBSET (Req \X Groups)
  BY DEF HoldersIn
<1> QED  BY <1>1, GroupsFinite, FS_Subset, FS_CardinalityType

(* What a table holds has an owner, and what has none is held by nobody. *)
LEMMA HeldIsOwned ==
  ASSUME layout \in Layouts, NEW k, Sound(k)
  PROVE  /\ \A b \in Blocks : k.pool.ref_cnt[b] \in Nat
         /\ \A b \in Blocks : k.pool.ref_cnt[b] = 0 <=> HoldersIn(k, b) = {}
         /\ \A r \in Req, g \in Groups : \A b \in Range(k.req_to_blocks[r][g]) :
                b \in Blocks => k.pool.ref_cnt[b] > 0
<1>1. \A b \in Blocks : /\ k.pool.ref_cnt[b] \in Nat
                        /\ k.pool.ref_cnt[b] = 0 <=> HoldersIn(k, b) = {}
  BY HoldersFinite, FS_EmptySet DEF Sound
<1>2. ASSUME NEW r \in Req, NEW g \in Groups, NEW b \in Range(k.req_to_blocks[r][g]), b \in Blocks
      PROVE  k.pool.ref_cnt[b] > 0
  <2>1. <<r, g>> \in HoldersIn(k, b)
    BY DEF HoldersIn
  <2> QED  BY <1>1, <1>2, <2>1
<1> QED  BY <1>1, <1>2

In(t, b) == IF b \in Range(t) THEN 1 ELSE 0

(* One table changes and the counts of the blocks with it.  What it holds  *)
(* newly is cached, or was free; what is private behind the change was     *)
(* private or free; and only what was private may be given a hash.         *)
LEMMA Retabled ==
  ASSUME layout \in Layouts, NEW k, Sound(k), NEW k2 \in HybridType,
         NEW r \in Req, NEW g \in Groups, NEW t2 \in Seq(Entries), NEW m2 \in Nat,
         k2.req_to_blocks = [k.req_to_blocks EXCEPT ![r][g] = t2],
         k2.num_cached_block = [k.num_cached_block EXCEPT ![r][g] = m2],
         FreeListOK(k2.pool), HashMapOK(k2.pool),
         \A b \in Blocks : k2.pool.ref_cnt[b] =
             (k.pool.ref_cnt[b] - In(k.req_to_blocks[r][g], b)) + In(t2, b),
         Once(t2), m2 <= Len(t2),
         \A b \in Blocks : k.pool.block_hash[b] = NoHash /\ k2.pool.block_hash[b] # NoHash
             => b \in Private(k.req_to_blocks[r][g], k.num_cached_block[r][g]),
         \A b \in Blocks : b \in Range(t2) /\ b \notin Range(k.req_to_blocks[r][g])
             => k.pool.block_hash[b] # NoHash \/ k.pool.ref_cnt[b] = 0,
         \A b \in Private(t2, m2) :
             /\ k2.pool.block_hash[b] = NoHash
             /\ \/ k.pool.ref_cnt[b] = 0
                \/ b \in Private(k.req_to_blocks[r][g], k.num_cached_block[r][g])
  PROVE  Sound(k2)
<1> DEFINE t == k.req_to_blocks[r][g]
           m == k.num_cached_block[r][g]
           hash == k.pool.block_hash
           hash2 == k2.pool.block_hash
           ref == k.pool.ref_cnt
<1>1. /\ k \in HybridType
      /\ k.req_to_blocks \in [Req -> [Groups -> Seq(Entries)]]
      /\ k.num_cached_block \in [Req -> [Groups -> Nat]]
  BY HybridFields DEF Sound
<1>2. /\ k2.req_to_blocks[r][g] = t2 /\ k2.num_cached_block[r][g] = m2
      /\ \A s \in Req, h \in Groups : <<s, h>> # <<r, g>> =>
             /\ k2.req_to_blocks[s][h] = k.req_to_blocks[s][h]
             /\ k2.num_cached_block[s][h] = k.num_cached_block[s][h]
  BY <1>1
<1>3. \A b \in Blocks : HoldersIn(k2, b) = (HoldersIn(k, b) \ {<<r, g>>}) \cup
                            (IF b \in Range(t2) THEN {<<r, g>>} ELSE {})
  <2> SUFFICES ASSUME NEW b \in Blocks, NEW s \in Req, NEW h \in Groups
               PROVE  <<s, h>> \in HoldersIn(k2, b) <=>
                          \/ <<s, h>> \in HoldersIn(k, b) /\ <<s, h>> # <<r, g>>
                          \/ b \in Range(t2) /\ <<s, h>> = <<r, g>>
    BY DEF HoldersIn
  <2>1. CASE <<s, h>> = <<r, g>>
    BY <1>2, <2>1 DEF HoldersIn
  <2>2. CASE <<s, h>> # <<r, g>>
    BY <1>2, <2>2 DEF HoldersIn
  <2> QED  BY <2>1, <2>2
<1>4. ASSUME NEW b \in Blocks
      PROVE  k2.pool.ref_cnt[b] = Cardinality(HoldersIn(k2, b))
  <2> DEFINE H == HoldersIn(k, b)
             x == <<r, g>>
  <2>1. IsFiniteSet(H) /\ Cardinality(H) \in Nat /\ ref[b] = Cardinality(H)
    BY HoldersFinite DEF Sound
  <2>2. x \in H <=> b \in Range(t)
    BY DEF HoldersIn
  <2>3. HoldersIn(k2, b) = (H \ {x}) \cup (IF b \in Range(t2) THEN {x} ELSE {})
    BY <1>3
  <2>4. k2.pool.ref_cnt[b] = (ref[b] - In(t, b)) + In(t2, b)
    OBVIOUS
  <2> HIDE DEF H, x, t, ref
  <2>5. /\ IsFiniteSet(H \ {x})
        /\ Cardinality(H \ {x}) = IF x \in H THEN Cardinality(H) - 1 ELSE Cardinality(H)
    BY <2>1, FS_RemoveElement
  <2>6. Cardinality((H \ {x}) \cup {x}) = Cardinality(H \ {x}) + 1
    BY <2>5, FS_AddElement
  <2>7. In(t, b) = IF x \in H THEN 1 ELSE 0
    BY <2>2 DEF In
  <2>8. CASE b \in Range(t2)
    <3>1. In(t2, b) = 1 /\ HoldersIn(k2, b) = (H \ {x}) \cup {x}
      BY <2>3, <2>8 DEF In
    <3> QED  BY <2>1, <2>4, <2>5, <2>6, <2>7, <3>1
  <2>9. CASE b \notin Range(t2)
    <3>1. In(t2, b) = 0 /\ HoldersIn(k2, b) = H \ {x}
      BY <2>3, <2>9 DEF In
    <3> QED  BY <2>1, <2>4, <2>5, <2>7, <3>1
  <2> QED  BY <2>8, <2>9
<1>5. \A b \in Blocks : ref[b] = 0 => HoldersIn(k, b) = {}
  BY HeldIsOwned
<1>6. \A s \in Req, h \in Groups :
          LET u == k.req_to_blocks[s][h]
              n == k.num_cached_block[s][h]
          IN  /\ Once(u) /\ n <= Len(u)
              /\ \A b \in Private(u, n) : hash[b] = NoHash /\ HoldersIn(k, b) = {<<s, h>>}
  BY DEF Sound, TableSound
<1>7. TableSound(k2, r, g)
  <2>1. ASSUME NEW b \in Private(t2, m2)
        PROVE  hash2[b] = NoHash /\ HoldersIn(k2, b) = {<<r, g>>}
    <3>1. b \in Blocks /\ b \in Range(t2)
      BY DEF Private, Range
    <3>2. HoldersIn(k, b) \subseteq {<<r, g>>}
      BY <1>5, <1>6, <3>1
    <3> QED  BY <1>3, <3>1, <3>2
  <2> QED  BY <1>2, <2>1 DEF TableSound
<1>8. ASSUME NEW s \in Req, NEW h \in Groups, <<s, h>> # <<r, g>>
      PROVE  TableSound(k2, s, h)
  <2> DEFINE u == k.req_to_blocks[s][h]
             n == k.num_cached_block[s][h]
  <2>1. ASSUME NEW b \in Private(u, n)
        PROVE  hash2[b] = NoHash /\ HoldersIn(k2, b) = {<<s, h>>}
    <3>1. b \in Blocks /\ hash[b] = NoHash /\ HoldersIn(k, b) = {<<s, h>>}
      BY <1>6 DEF Private
    <3>2. b \notin Range(t)
      BY <1>8, <3>1 DEF HoldersIn
    <3>3. b \notin Private(t, m)
      BY <3>2 DEF Private, Range
    <3>4. hash2[b] = NoHash
      BY <3>1, <3>3
    <3>5. b \notin Range(t2)
      BY <1>5, <3>1, <3>2
    <3> QED  BY <1>3, <1>8, <3>1, <3>4, <3>5
  <2>2. Once(u) /\ n <= Len(u)
    BY <1>6
  <2> HIDE DEF u, n
  <2>3. k2.req_to_blocks[s][h] = u /\ k2.num_cached_block[s][h] = n
    BY <1>2, <1>8 DEF u, n
  <2> QED  BY <2>1, <2>2, <2>3 DEF TableSound
<1>9. \A s \in Req, h \in Groups : TableSound(k2, s, h)
  BY <1>7, <1>8
<1> QED  BY <1>4, <1>9 DEF Sound

----------------------------------------------------------------------------
(* Giving back *)

(* The real blocks of a part of a table, each once. *)
LEMMA RealFacts ==
  ASSUME NEW s \in Seq(Entries)
  PROVE  /\ Real(s) \in Seq(Blocks)
         /\ Range(Real(s)) = Range(s) \cap Blocks
         /\ Once(s) => IsInjective(Real(s))
<1>1. /\ Keep(s, Blocks) \in Seq(Entries)
      /\ Range(Keep(s, Blocks)) = Range(s) \cap Blocks
      /\ (\A i, j \in DOMAIN s : s[i] = s[j] /\ s[i] \in Blocks => i = j)
             => IsInjective(Keep(s, Blocks))
  BY KeepFacts
<1> DEFINE v == Keep(s, Blocks)
<1>2. v \in Seq(Blocks)
  <2> HIDE DEF v
  <2>1. \A i \in 1 .. Len(v) : v[i] \in Range(v)
    BY <1>1 DEF v, Range
  <2> QED  BY <1>1, <2>1 DEF v
<1>3. Once(s) => \A i, j \in DOMAIN s : s[i] = s[j] /\ s[i] \in Blocks => i = j
  BY BlocksAreNat DEF Once, Null
<1> QED  BY <1>1, <1>2, <1>3 DEF Real

LEMMA ReverseOnce ==
  ASSUME NEW s \in Seq(Entries), Once(s)
  PROVE  Once(ReverseOf(s))
<1> DEFINE v == ReverseOf(s)
<1>1. Len(s) \in Nat /\ DOMAIN s = 1 .. Len(s)
  OBVIOUS
<1>2. DOMAIN v = 1 .. Len(s) /\ \A i \in 1 .. Len(s) : v[i] = s[Len(s) + 1 - i]
  BY DEF ReverseOf
<1> HIDE DEF v
<1>3. ASSUME NEW i \in DOMAIN v, NEW j \in DOMAIN v, v[i] = v[j], v[i] # Null
      PROVE  i = j
  <2>1. /\ Len(s) + 1 - i \in DOMAIN s /\ Len(s) + 1 - j \in DOMAIN s
        /\ i \in Int /\ j \in Int
    BY <1>1, <1>2
  <2>2. Len(s) + 1 - i = Len(s) + 1 - j
    BY <1>2, <1>3, <2>1 DEF Once
  <2> QED  BY <1>1, <2>1, <2>2
<1> QED  BY <1>3 DEF Once, v

(* give_back drops an owner of each real block it is given. *)
LEMMA GiveBackFacts ==
  ASSUME layout \in Layouts, NEW k, Sound(k), NEW s \in Seq(Entries), Once(s),
         \A b \in Range(s) : b \in Blocks => k.pool.ref_cnt[b] > 0
  PROVE  LET k1 == give_back(k, s)
         IN  /\ k1 \in HybridType
             /\ k1.fault = k.fault
             /\ k1.req_to_blocks = k.req_to_blocks
             /\ k1.num_cached_block = k.num_cached_block
             /\ FreeListOK(k1.pool) /\ HashMapOK(k1.pool)
             /\ k1.pool.block_hash = k.pool.block_hash
             /\ \A b \in Blocks : k1.pool.ref_cnt[b] = k.pool.ref_cnt[b] - In(s, b)
<1> DEFINE v == Real(s)
           p == free_blocks(k.pool, v)
           D == [b \in Blocks |-> IF p.ref_cnt[b] = 0 /\ p.block_hash[b] = NoHash
                                  THEN NoHash ELSE k.data[b]]
           k1 == give_back(k, s)
<1>1. k \in HybridType /\ k.pool \in PoolType /\ FreeListOK(k.pool) /\ HashMapOK(k.pool)
      /\ k.data \in [Blocks -> Hash]
  BY HybridFields DEF Sound
<1>2. v \in Seq(Blocks) /\ IsInjective(v) /\ Range(v) = Range(s) \cap Blocks
  BY RealFacts
<1>3. \A b \in Range(v) : k.pool.ref_cnt[b] > 0
  BY <1>2
<1> HIDE DEF v
<1>4. /\ p \in PoolType /\ FreeListOK(p)
      /\ p.ref_cnt = [b \in Blocks |-> IF b \in Range(v) THEN k.pool.ref_cnt[b] - 1
                                                       ELSE k.pool.ref_cnt[b]]
      /\ p.block_hash = k.pool.block_hash
      /\ p.cached_block_hash_to_block = k.pool.cached_block_hash_to_block
  BY <1>1, <1>2, <1>3, FreeBlocksPool
<1> HIDE DEF p
<1>5. D \in [Blocks -> Hash]
  <2>1. NoHash \in Hash
    BY DEF NoHash, Hash
  <2> QED  BY <1>1, <2>1
<1>6. k1 = [k EXCEPT !.pool = p, !.data = D]
  BY <1>1 DEF give_back, p, v, HybridType
<1> HIDE DEF D, k1
<1>7. /\ k1.pool = p /\ k1.fault = k.fault /\ k1 \in HybridType
      /\ k1.req_to_blocks = k.req_to_blocks
      /\ k1.num_cached_block = k.num_cached_block
  BY <1>1, <1>4, <1>5, <1>6 DEF HybridType
<1>8. HashMapOK(p)
  BY <1>1, <1>4 DEF HashMapOK
<1>9. ASSUME NEW b \in Blocks
      PROVE  p.ref_cnt[b] = k.pool.ref_cnt[b] - In(s, b)
  <2>1. k.pool.ref_cnt[b] \in Int
    BY <1>1, PoolFields
  <2> QED  BY <1>2, <1>4, <2>1 DEF In
<1> QED  BY <1>4, <1>7, <1>8, <1>9 DEF k1

(* free gives back the table of one group. *)
LEMMA FreeInKeeps ==
  ASSUME layout \in Layouts, NEW k, Sound(k), NEW r \in Req, NEW g \in Groups
  PROVE  Sound(free_in(k, r, g)) /\ free_in(k, r, g).fault = k.fault
<1> DEFINE t == k.req_to_blocks[r][g]
           s == ReverseOf(t)
           k1 == give_back(k, s)
           T2 == [k.req_to_blocks EXCEPT ![r][g] = << >>]
           N2 == [k.num_cached_block EXCEPT ![r][g] = 0]
           k2 == free_in(k, r, g)
<1>1. /\ k \in HybridType /\ t \in Seq(Entries)
      /\ k.req_to_blocks \in [Req -> [Groups -> Seq(Entries)]]
      /\ k.num_cached_block \in [Req -> [Groups -> Nat]]
  BY HybridFields DEF Sound
<1>2. s \in Seq(Entries) /\ Range(s) = Range(t) /\ Once(s)
  <2>1. Once(t)
    BY DEF Sound, TableSound
  <2> HIDE DEF t
  <2> QED  BY <1>1, <2>1, ReverseFacts, ReverseOnce
<1>3. \A b \in Range(s) : b \in Blocks => k.pool.ref_cnt[b] > 0
  BY <1>2, HeldIsOwned
<1> HIDE DEF s
<1>4. /\ k1 \in HybridType
      /\ k1.fault = k.fault
      /\ k1.req_to_blocks = k.req_to_blocks
      /\ k1.num_cached_block = k.num_cached_block
      /\ FreeListOK(k1.pool) /\ HashMapOK(k1.pool)
      /\ k1.pool.block_hash = k.pool.block_hash
      /\ \A b \in Blocks : k1.pool.ref_cnt[b] = k.pool.ref_cnt[b] - In(s, b)
  BY <1>2, <1>3, GiveBackFacts
<1>5. k2 = [k1 EXCEPT !.req_to_blocks[r][g] = << >>, !.num_cached_block[r][g] = 0]
  BY DEF free_in, s
<1> HIDE DEF k1, k2
<1>6. /\ k2.pool = k1.pool /\ k2.fault = k1.fault /\ k2 \in HybridType
      /\ k2.req_to_blocks = T2 /\ k2.num_cached_block = N2
  <2>1. k2 = [k1 EXCEPT !.req_to_blocks = T2, !.num_cached_block = N2]
    BY <1>1, <1>4, <1>5 DEF HybridType
  <2>2. T2 \in [Req -> [Groups -> Seq(Entries)]] /\ N2 \in [Req -> [Groups -> Nat]]
    BY <1>1
  <2> HIDE DEF T2, N2
  <2> QED  BY <1>4, <2>1, <2>2 DEF HybridType
<1> DEFINE e == << >>
<1>7. /\ e \in Seq(Entries) /\ 0 <= Len(e) /\ Range(e) = {} /\ Once(e)
      /\ Private(e, 0) = {}
  BY DEF Range, Once, Private
<1>8. k2.req_to_blocks = [k.req_to_blocks EXCEPT ![r][g] = e]
  BY <1>6
<1> HIDE DEF e
<1>9. \A b \in Blocks : k2.pool.ref_cnt[b] = (k.pool.ref_cnt[b] - In(t, b)) + In(e, b)
  <2>1. \A b \in Blocks : k.pool.ref_cnt[b] \in Int
    BY <1>1, HybridFields
  <2> QED  BY <1>2, <1>4, <1>6, <1>7, <2>1 DEF In
<1>10. Sound(k2)
  <2>1. /\ k2 \in HybridType /\ FreeListOK(k2.pool) /\ HashMapOK(k2.pool)
        /\ k2.pool.block_hash = k.pool.block_hash
        /\ k2.num_cached_block = [k.num_cached_block EXCEPT ![r][g] = 0]
        /\ 0 \in Nat
    BY <1>4, <1>6
  <2>2. /\ \A b \in Blocks : k.pool.block_hash[b] = NoHash /\ k2.pool.block_hash[b] # NoHash
             => b \in Private(k.req_to_blocks[r][g], k.num_cached_block[r][g])
        /\ \A b \in Blocks : b \in Range(e) /\ b \notin Range(k.req_to_blocks[r][g])
             => k.pool.block_hash[b] # NoHash \/ k.pool.ref_cnt[b] = 0
        /\ \A b \in Private(e, 0) :
             /\ k2.pool.block_hash[b] = NoHash
             /\ \/ k.pool.ref_cnt[b] = 0
                \/ b \in Private(k.req_to_blocks[r][g], k.num_cached_block[r][g])
    BY <1>7, <2>1
  <2> QED  BY <1>7, <1>8, <1>9, <2>1, <2>2, Retabled
<1> QED  BY <1>4, <1>6, <1>10 DEF k2

(* The blocks in front that are given back, and their places. *)
LEMMA RemoveInKeeps ==
  ASSUME layout \in Layouts, NEW k, Sound(k), NEW r \in Req, NEW g \in Groups, NEW n \in Nat
  PROVE  Sound(remove_skipped_in(k, r, g, n)) /\ remove_skipped_in(k, r, g, n).fault = k.fault
<1> DEFINE t == k.req_to_blocks[r][g]
           m == k.num_cached_block[r][g]
           last == Least(SkippedBlocks(layout[g], n), Len(t))
           gone == {i \in 1 .. last : \A j \in i .. last : t[j] # Null}
           G == {t[i] : i \in gone}
           u == SubSeq(t, 1, last)
           v == Keep(u, G)
           s == ReverseOf(v)
           k1 == give_back(k, s)
           t2 == [i \in DOMAIN t |-> IF i \in gone THEN Null ELSE t[i]]
           T2 == [k.req_to_blocks EXCEPT ![r][g] = t2]
           k2 == remove_skipped_in(k, r, g, n)
<1>1. /\ k \in HybridType /\ t \in Seq(Entries) /\ m \in Nat
      /\ k.req_to_blocks \in [Req -> [Groups -> Seq(Entries)]]
      /\ k.num_cached_block \in [Req -> [Groups -> Nat]]
  BY HybridFields DEF Sound
<1>2. /\ Once(t) /\ m <= Len(t)
      /\ \A b \in Private(t, m) : k.pool.block_hash[b] = NoHash
  BY DEF Sound, TableSound
<1>3. layout[g] \in Kinds
  <2>1. layout \in Seq(Kinds)
    BY GroupsFinite
  <2> QED  BY <2>1 DEF Groups
<1>4. last \in Nat /\ last <= Len(t) /\ DOMAIN t = 1 .. Len(t) /\ Len(t) \in Nat
  <2>1. SkippedBlocks(layout[g], n) \in Nat
    BY <1>3, SkippedBlocksBounds
  <2> HIDE DEF t
  <2>2. Len(t) \in Nat /\ DOMAIN t = 1 .. Len(t)
    BY <1>1
  <2> QED  BY <2>1, <2>2 DEF Least
<1> HIDE DEF last
<1>5. k2 = [k1 EXCEPT !.req_to_blocks[r][g] = t2]
  BY DEF remove_skipped_in, last
<1> HIDE DEF t, m, k2
<1>6. gone \subseteq DOMAIN t /\ \A i \in gone : t[i] # Null
  BY <1>4
<1>7. u \in Seq(Entries) /\ Len(u) = last /\ \A i \in 1 .. last : u[i] = t[i]
  BY <1>1, <1>4
<1>8. G \subseteq Range(u) /\ G \subseteq Blocks
  <2>1. ASSUME NEW i \in gone PROVE t[i] \in Range(u) /\ t[i] \in Blocks
    <3>1. i \in DOMAIN u /\ u[i] = t[i]
      BY <1>4, <1>7
    <3>2. t[i] \in Entries /\ t[i] # Null
      <4>1. i \in DOMAIN t /\ t[i] # Null
        BY <1>6
      <4> QED  BY <1>1, <4>1
    <3> QED  BY <3>1, <3>2 DEF Range, Entries
  <2> QED  BY <2>1
<1> HIDE DEF gone, u
<1>9. v \in Seq(Entries) /\ Range(v) = G /\ Once(v)
  <2>1. \A i, j \in DOMAIN u : u[i] = u[j] /\ u[i] \in G => i = j
    <3> SUFFICES ASSUME NEW i \in DOMAIN u, NEW j \in DOMAIN u, u[i] = u[j], u[i] \in G
                 PROVE  i = j
      OBVIOUS
    <3>1. /\ i \in DOMAIN t /\ j \in DOMAIN t /\ u[i] = t[i] /\ u[j] = t[j]
      BY <1>4, <1>7
    <3>2. u[i] # Null
      BY <1>8, BlocksAreNat DEF Null
    <3> QED  BY <1>2, <3>1, <3>2 DEF Once
  <2> HIDE DEF G
  <2>2. v \in Seq(Entries) /\ Range(v) = Range(u) \cap G /\ IsInjective(v)
    BY <1>7, <2>1, KeepFacts
  <2> QED  BY <1>8, <2>2 DEF Once, IsInjective
<1> HIDE DEF v
<1>10. s \in Seq(Entries) /\ Range(s) = G /\ Once(s)
  BY <1>9, ReverseFacts, ReverseOnce
<1>11. \A b \in Range(s) : b \in Blocks => k.pool.ref_cnt[b] > 0
  <2>1. G \subseteq Range(t)
    BY <1>6 DEF Range
  <2> QED  BY <1>10, <2>1, HeldIsOwned DEF t
<1> HIDE DEF s
<1>12. /\ k1 \in HybridType
       /\ k1.fault = k.fault
       /\ k1.req_to_blocks = k.req_to_blocks
       /\ k1.num_cached_block = k.num_cached_block
       /\ FreeListOK(k1.pool) /\ HashMapOK(k1.pool)
       /\ k1.pool.block_hash = k.pool.block_hash
       /\ \A b \in Blocks : k1.pool.ref_cnt[b] = k.pool.ref_cnt[b] - In(s, b)
  BY <1>10, <1>11, GiveBackFacts
<1> HIDE DEF k1
<1>13. /\ t2 \in Seq(Entries) /\ Len(t2) = Len(t) /\ DOMAIN t2 = DOMAIN t
       /\ \A i \in DOMAIN t : t2[i] = IF i \in gone THEN Null ELSE t[i]
  <2>1. \A i \in 1 .. Len(t) : (IF i \in gone THEN Null ELSE t[i]) \in Entries
    BY <1>1, <1>4 DEF Entries
  <2> QED  BY <1>4, <2>1
<1> HIDE DEF t2
<1>14. Once(t2)
  BY <1>2, <1>13 DEF Once
<1>15. \A b \in Blocks : b \in Range(t2) <=> b \in Range(t) /\ b \notin G
  <2> SUFFICES ASSUME NEW b \in Blocks
               PROVE  b \in Range(t2) <=> b \in Range(t) /\ b \notin G
    OBVIOUS
  <2>1. b # Null
    BY BlocksAreNat DEF Null
  <2>2. ASSUME NEW i \in DOMAIN t2, t2[i] = b PROVE b \in Range(t) /\ b \notin G
    <3>1. i \notin gone /\ t[i] = b
      BY <1>13, <2>1, <2>2
    <3>2. \A j \in gone : t[j] # b
      BY <1>2, <1>6, <1>13, <2>1, <3>1 DEF Once
    <3> QED  BY <1>13, <3>1, <3>2 DEF Range
  <2>3. ASSUME NEW i \in DOMAIN t, t[i] = b, b \notin G PROVE b \in Range(t2)
    <3>1. i \notin gone
      BY <2>3
    <3> QED  BY <1>13, <2>3, <3>1 DEF Range
  <2> QED  BY <2>2, <2>3 DEF Range
<1>16. Private(t2, m) \subseteq Private(t, m)
  <2> SUFFICES ASSUME NEW b \in Blocks, NEW i \in DOMAIN t2, i > m, t2[i] = b
               PROVE  i \in DOMAIN t /\ t[i] = b
    BY DEF Private
  <2>1. b # Null
    BY BlocksAreNat DEF Null
  <2> QED  BY <1>13, <2>1
<1>17. /\ k2.pool = k1.pool /\ k2.fault = k1.fault /\ k2 \in HybridType
       /\ k2.req_to_blocks = T2 /\ k2.num_cached_block = k.num_cached_block
  <2>1. k2 = [k1 EXCEPT !.req_to_blocks = T2]
    BY <1>1, <1>5, <1>12 DEF HybridType
  <2>2. T2 \in [Req -> [Groups -> Seq(Entries)]]
    BY <1>1, <1>13
  <2> HIDE DEF T2
  <2> QED  BY <1>12, <2>1, <2>2 DEF HybridType
<1>18. \A b \in Blocks : k2.pool.ref_cnt[b] = (k.pool.ref_cnt[b] - In(t, b)) + In(t2, b)
  <2> SUFFICES ASSUME NEW b \in Blocks
               PROVE  k2.pool.ref_cnt[b] = (k.pool.ref_cnt[b] - In(t, b)) + In(t2, b)
    OBVIOUS
  <2>1. k.pool.ref_cnt[b] \in Int /\ k2.pool.ref_cnt[b] = k.pool.ref_cnt[b] - In(s, b)
    BY <1>1, <1>12, <1>17, HybridFields
  <2>2. b \in Range(s) => b \in Range(t)
    <3>1. G \subseteq Range(t)
      BY <1>6 DEF Range
    <3> QED  BY <1>10, <3>1
  <2>3. b \in Range(s) <=> b \in G
    BY <1>10
  <2> QED  BY <1>15, <2>1, <2>2, <2>3 DEF In
<1>19. Sound(k2)
  <2>1. /\ FreeListOK(k2.pool) /\ HashMapOK(k2.pool)
        /\ k2.pool.block_hash = k.pool.block_hash
        /\ k2.num_cached_block = [k.num_cached_block EXCEPT ![r][g] = m]
        /\ m <= Len(t2)
    BY <1>1, <1>2, <1>12, <1>13, <1>17 DEF m
  <2>2. /\ \A b \in Blocks : k.pool.block_hash[b] = NoHash /\ k2.pool.block_hash[b] # NoHash
             => b \in Private(k.req_to_blocks[r][g], k.num_cached_block[r][g])
        /\ \A b \in Blocks : b \in Range(t2) /\ b \notin Range(k.req_to_blocks[r][g])
             => k.pool.block_hash[b] # NoHash \/ k.pool.ref_cnt[b] = 0
        /\ \A b \in Private(t2, m) :
             /\ k2.pool.block_hash[b] = NoHash
             /\ \/ k.pool.ref_cnt[b] = 0
                \/ b \in Private(k.req_to_blocks[r][g], k.num_cached_block[r][g])
    BY <1>2, <1>15, <1>16, <2>1 DEF t, m
  <2>3. \A b \in Blocks : k2.pool.ref_cnt[b] =
            (k.pool.ref_cnt[b] - In(k.req_to_blocks[r][g], b)) + In(t2, b)
    BY <1>18 DEF t
  <2> QED  BY <1>1, <1>13, <1>14, <1>17, <2>1, <2>2, <2>3, Retabled
<1> QED  BY <1>12, <1>17, <1>19 DEF k2

----------------------------------------------------------------------------
(* Owning hits *)

LEMMA AfterFirst ==
  ASSUME NEW E, NEW q \in Seq(E), NEW n \in Nat
  PROVE  LET s == SubSeq(q, n + 1, Len(q))
         IN  /\ s \in Seq(E)
             /\ Len(s) = IF n < Len(q) THEN Len(q) - n ELSE 0
             /\ \A i \in DOMAIN s : i + n \in DOMAIN q /\ s[i] = q[i + n]
             /\ \A j \in DOMAIN q : j > n => j - n \in DOMAIN s /\ s[j - n] = q[j]
<1> DEFINE s == SubSeq(q, n + 1, Len(q))
           l == Len(q)
           c == IF n < l THEN l - n ELSE 0
<1>1. l \in Nat /\ DOMAIN q = 1 .. l /\ \A i \in 1 .. l : q[i] \in E
  OBVIOUS
<1>2. s = [i \in 1 .. c |-> q[i + n]]
  BY <1>1
<1> HIDE DEF s, l
<1>3. c \in Nat /\ \A i \in 1 .. c : i + n \in 1 .. l
  BY <1>1
<1>4. s \in Seq(E) /\ Len(s) = c /\ DOMAIN s = 1 .. c
  <2>1. \A i \in 1 .. c : q[i + n] \in E
    BY <1>1, <1>3
  <2> HIDE DEF c
  <2> QED  BY <1>2, <1>3, <2>1
<1>5. \A i \in DOMAIN s : i + n \in DOMAIN q /\ s[i] = q[i + n]
  BY <1>1, <1>2, <1>3, <1>4
<1>6. ASSUME NEW j \in DOMAIN q, j > n PROVE j - n \in DOMAIN s /\ s[j - n] = q[j]
  <2>1. j - n \in 1 .. c /\ (j - n) + n = j
    BY <1>1, <1>6
  <2> QED  BY <1>2, <1>4, <2>1
<1> QED  BY <1>4, <1>5, <1>6 DEF s, l

(* Prefixes of one sequence are hashed apart, by group and by length. *)
LEMMA GroupHashes ==
  ASSUME NEW tk \in Seq(Token), NEW g \in Nat, NEW i \in Nat, i * BlockSize <= Len(tk)
  PROVE  /\ GroupHash(g, tk, i) \in Hash
         /\ GroupHash(g, tk, i) # NoHash
         /\ GroupHash(g, tk, i)[1] = g
         /\ Len(GroupHash(g, tk, i)) = i * BlockSize + 1
<1> DEFINE n == i * BlockSize
           s == SubSeq(tk, 1, n)
           T == Token \cup Nat
<1>1. n \in Nat /\ n <= Len(tk)
  BY Parameters
<1>2. \A j \in 1 .. n : tk[j] \in Token
  <2> HIDE DEF n
  <2> QED  BY <1>1
<1>3. s = [j \in 1 .. n |-> tk[j]]
  <2> HIDE DEF n
  <2> QED  BY <1>1 DEF s
<1> HIDE DEF n, s
<1>4. s \in Seq(T) /\ Len(s) = n
  BY <1>1, <1>2, <1>3
<1> HIDE DEF T
<1>5. <<g>> \in Seq(T) /\ Len(<<g>>) = 1 /\ <<g>>[1] = g
  BY DEF T
<1> DEFINE e == <<g>>
           h == e \o s
<1>6. h \in Seq(T) /\ Len(h) = 1 + n /\ h[1] = g
  <2> HIDE DEF e
  <2> QED  BY <1>1, <1>4, <1>5 DEF e
<1>7. GroupHash(g, tk, i) = h
  BY DEF GroupHash, GroupPrefix, n, s
<1> HIDE DEF h
<1>8. h # << >>
  BY <1>1, <1>6
<1> QED  BY <1>1, <1>6, <1>7, <1>8 DEF n, T, Hash, NoHash

LEMMA GroupHashesDiffer ==
  ASSUME NEW tk \in Seq(Token), NEW g \in Nat, NEW h \in Nat, NEW i \in Nat, NEW j \in Nat,
         i * BlockSize <= Len(tk), j * BlockSize <= Len(tk),
         GroupHash(g, tk, i) = GroupHash(h, tk, j)
  PROVE  g = h /\ i = j
<1>1. g = h
  BY GroupHashes
<1>2. i * BlockSize + 1 = j * BlockSize + 1
  BY GroupHashes
<1>3. i * BlockSize \in Nat /\ j * BlockSize \in Nat
  BY Parameters
<1>4. i * BlockSize = j * BlockSize
  BY <1>2, <1>3
<1>5. i <= j /\ j <= i
  BY <1>4, Parameters, TimesCancels
<1> QED  BY <1>1, <1>5

(* What a lookup gives a group: where it is real, it is cached under the   *)
(* group's hash of that place.                                             *)
HitsFor(pool, g, tk, h) ==
    /\ h \in Seq(Entries)
    /\ \A i \in DOMAIN h : h[i] # Null =>
           i * BlockSize <= Len(tk) /\ pool.block_hash[h[i]] = GroupHash(g, tk, i)

Evictable(pool, h, skipped) ==
    {b \in {h[i] : i \in {j \in DOMAIN h : j > skipped}} : b # Null /\ pool.ref_cnt[b] = 0}

LEMMA HitsAreDistinct ==
  ASSUME NEW pool, NEW tk \in Seq(Token), NEW g \in Nat, NEW h, HitsFor(pool, g, tk, h)
  PROVE  /\ Once(h)
         /\ \A i \in DOMAIN h : h[i] # Null => h[i] \in Blocks /\ pool.block_hash[h[i]] # NoHash
<1>1. h \in Seq(Entries) /\ DOMAIN h \subseteq Nat
  BY DEF HitsFor
<1>2. ASSUME NEW i \in DOMAIN h, NEW j \in DOMAIN h, h[i] = h[j], h[i] # Null PROVE i = j
  <2>1. /\ i \in Nat /\ j \in Nat
        /\ i * BlockSize <= Len(tk) /\ j * BlockSize <= Len(tk)
        /\ GroupHash(g, tk, i) = GroupHash(g, tk, j)
    BY <1>1, <1>2 DEF HitsFor
  <2> QED  BY <2>1, GroupHashesDiffer
<1>3. ASSUME NEW i \in DOMAIN h, h[i] # Null
      PROVE  h[i] \in Blocks /\ pool.block_hash[h[i]] # NoHash
  <2>1. h[i] \in Blocks
    BY <1>1, <1>3 DEF Entries
  <2>2. i \in Nat /\ i * BlockSize <= Len(tk) /\ pool.block_hash[h[i]] = GroupHash(g, tk, i)
    BY <1>1, <1>3 DEF HitsFor
  <2> QED  BY <2>1, <2>2, GroupHashes
<1> QED  BY <1>2, <1>3 DEF Once

(* The table an admission begins with: places for what is skipped, then    *)
(* the hits behind.                                                        *)
FirstTable(h, skipped) == [i \in 1 .. skipped |-> Null] \o SubSeq(h, skipped + 1, Len(h))

LEMMA FirstTableFacts ==
  ASSUME NEW h \in Seq(Entries), NEW n \in Nat, Once(h)
  PROVE  LET t == FirstTable(h, n)
             kept == SubSeq(h, n + 1, Len(h))
         IN  /\ t \in Seq(Entries) /\ Once(t) /\ Len(t) = Greatest(n, Len(h))
             /\ kept \in Seq(Entries) /\ Once(kept)
             /\ Range(kept) = {h[i] : i \in {j \in DOMAIN h : j > n}}
             /\ \A b \in Blocks : b \in Range(t) <=> b \in Range(kept)
<1> DEFINE t == FirstTable(h, n)
           kept == SubSeq(h, n + 1, Len(h))
           pad == [i \in 1 .. n |-> Null]
<1>1. /\ kept \in Seq(Entries)
      /\ Len(kept) = IF n < Len(h) THEN Len(h) - n ELSE 0
      /\ \A i \in DOMAIN kept : i + n \in DOMAIN h /\ kept[i] = h[i + n]
      /\ \A j \in DOMAIN h : j > n => j - n \in DOMAIN kept /\ kept[j - n] = h[j]
  BY AfterFirst
<1>2. pad \in Seq(Entries) /\ Len(pad) = n /\ \A i \in DOMAIN pad : pad[i] = Null
  BY DEF Entries
<1>3. t = pad \o kept
  BY DEF FirstTable
<1> HIDE DEF t, kept, pad
<1>4. /\ Len(kept) \in Nat /\ DOMAIN kept = 1 .. Len(kept) /\ DOMAIN pad = 1 .. n
      /\ Len(h) \in Nat
  BY <1>1, <1>2
<1>5. /\ t \in Seq(Entries) /\ Len(t) = n + Len(kept) /\ DOMAIN t = 1 .. n + Len(kept)
      /\ \A i \in 1 .. n + Len(kept) : t[i] = IF i <= n THEN pad[i] ELSE kept[i - n]
  <2>1. t \in Seq(Entries)
    BY <1>1, <1>2, <1>3
  <2>2. Len(t) = Len(pad) + Len(kept) /\ DOMAIN t = 1 .. Len(pad) + Len(kept)
    <3>1. Len(pad \o kept) = Len(pad) + Len(kept)
      BY <1>1, <1>2
    <3>2. DOMAIN t = 1 .. Len(t)
      BY <2>1
    <3> QED  BY <1>3, <3>1, <3>2
  <2>3. \A i \in 1 .. Len(pad) + Len(kept) :
            t[i] = IF i <= Len(pad) THEN pad[i] ELSE kept[i - Len(pad)]
    BY <1>1, <1>2, <1>3, <1>4
  <2> QED  BY <1>2, <2>1, <2>2, <2>3
<1>6. Once(kept)
  <2> SUFFICES ASSUME NEW i \in DOMAIN kept, NEW j \in DOMAIN kept, kept[i] = kept[j],
                      kept[i] # Null
               PROVE  i = j
    BY DEF Once
  <2>1. i + n = j + n
    BY <1>1 DEF Once
  <2> QED  BY <1>4, <2>1
<1>7. \A i \in DOMAIN t : t[i] # Null => i - n \in DOMAIN kept /\ t[i] = kept[i - n]
  <2> SUFFICES ASSUME NEW i \in DOMAIN t, t[i] # Null
               PROVE  i - n \in DOMAIN kept /\ t[i] = kept[i - n]
    OBVIOUS
  <2>1. i \in 1 .. n + Len(kept)
    BY <1>5
  <2>2. i > n
    <3>1. i <= n => t[i] = Null
      BY <1>2, <1>4, <1>5, <2>1
    <3> QED  BY <2>1, <3>1
  <2> QED  BY <1>4, <1>5, <2>1, <2>2
<1>8. Once(t)
  <2> SUFFICES ASSUME NEW i \in DOMAIN t, NEW j \in DOMAIN t, t[i] = t[j], t[i] # Null
               PROVE  i = j
    BY DEF Once
  <2>1. i - n = j - n
    BY <1>6, <1>7 DEF Once
  <2> QED  BY <1>5, <2>1
<1>9. Range(kept) = {h[i] : i \in {j \in DOMAIN h : j > n}}
  <2>1. ASSUME NEW i \in DOMAIN kept
        PROVE  kept[i] \in {h[j] : j \in {j \in DOMAIN h : j > n}}
    <3>1. i + n \in DOMAIN h /\ i + n > n /\ kept[i] = h[i + n]
      BY <1>1, <1>4
    <3> QED  BY <3>1
  <2>2. ASSUME NEW j \in DOMAIN h, j > n PROVE h[j] \in Range(kept)
    BY <1>1, <2>2 DEF Range
  <2> QED  BY <2>1, <2>2 DEF Range
<1>10. \A b \in Blocks : b \in Range(t) <=> b \in Range(kept)
  <2> SUFFICES ASSUME NEW b \in Blocks PROVE b \in Range(t) <=> b \in Range(kept)
    OBVIOUS
  <2>1. b # Null
    BY BlocksAreNat DEF Null
  <2>2. ASSUME NEW i \in DOMAIN kept, kept[i] = b PROVE b \in Range(t)
    <3>1. i + n \in DOMAIN t /\ ~(i + n <= n) /\ (i + n) - n = i
      BY <1>4, <1>5
    <3>2. t[i + n] = kept[i]
      BY <1>5, <3>1
    <3> QED  BY <2>2, <3>1, <3>2 DEF Range
  <2> QED  BY <1>7, <2>1, <2>2 DEF Range
<1>11. Len(t) = Greatest(n, Len(h))
  BY <1>1, <1>4, <1>5 DEF Greatest
<1> QED  BY <1>1, <1>5, <1>6, <1>8, <1>9, <1>10, <1>11 DEF t, kept

(* k2 is k with the hits h of one group owned. *)
HitsOwned(k, k2, r, g, h, skipped) ==
    /\ Sound(k2) /\ k2.fault = k.fault
    /\ k2.req_to_blocks = [k.req_to_blocks EXCEPT ![r][g] = FirstTable(h, skipped)]
    /\ Len(FirstTable(h, skipped)) = Greatest(skipped, Len(h))
    /\ k2.pool.block_hash = k.pool.block_hash
    /\ \A b \in Blocks : b \notin Range(h) => k2.pool.ref_cnt[b] = k.pool.ref_cnt[b]
    /\ Len(k2.pool.free_block_queue) + Cardinality(Evictable(k.pool, h, skipped))
           = Len(k.pool.free_block_queue)

LEMMA AddInKeeps ==
  ASSUME layout \in Layouts, NEW k, Sound(k), NEW r \in Req, NEW g \in Groups, NEW n \in Nat,
         NEW tk \in Seq(Token), NEW h, HitsFor(k.pool, g, tk, h),
         k.req_to_blocks[r][g] = << >>
  PROVE  HitsOwned(k, add_local_computed_in(k, r, g, h, n), r, g, h, SkippedBlocks(layout[g], n))
<1> DEFINE skipped == SkippedBlocks(layout[g], n)
           kept == SubSeq(h, skipped + 1, Len(h))
           real == Real(kept)
           p == touch(k.pool, real)
           t2 == FirstTable(h, skipped)
           T2 == [k.req_to_blocks EXCEPT ![r][g] = t2]
           N2 == [k.num_cached_block EXCEPT ![r][g] = Len(t2)]
           k2 == add_local_computed_in(k, r, g, h, n)
           E == Evictable(k.pool, h, skipped)
<1>1. /\ k \in HybridType /\ k.pool \in PoolType /\ FreeListOK(k.pool) /\ HashMapOK(k.pool)
      /\ k.pool.ref_cnt \in [Blocks -> Int]
      /\ k.req_to_blocks \in [Req -> [Groups -> Seq(Entries)]]
      /\ k.num_cached_block \in [Req -> [Groups -> Nat]]
  BY HybridFields DEF Sound
<1>2. g \in Nat /\ layout[g] \in Kinds
  BY GroupsFinite DEF Groups
<1>3. skipped \in Nat
  BY <1>2, SkippedBlocksBounds
<1>4. /\ h \in Seq(Entries) /\ Once(h)
      /\ \A i \in DOMAIN h : h[i] # Null => h[i] \in Blocks /\ k.pool.block_hash[h[i]] # NoHash
  BY <1>2, HitsAreDistinct DEF HitsFor
<1>5. k2 = [k EXCEPT !.pool = p, !.req_to_blocks[r][g] = t2, !.num_cached_block[r][g] = Len(t2)]
  BY DEF add_local_computed_in, FirstTable
<1> HIDE DEF skipped, k2
<1>6. /\ t2 \in Seq(Entries) /\ Once(t2) /\ Len(t2) = Greatest(skipped, Len(h))
      /\ kept \in Seq(Entries) /\ Once(kept)
      /\ Range(kept) = {h[i] : i \in {j \in DOMAIN h : j > skipped}}
      /\ \A b \in Blocks : b \in Range(t2) <=> b \in Range(kept)
  BY <1>3, <1>4, FirstTableFacts
<1> HIDE DEF t2, kept
<1>7. real \in Seq(Blocks) /\ Range(real) = Range(kept) \cap Blocks
  BY <1>6, RealFacts
<1>8. \A b \in Blocks : k.pool.ref_cnt[b] >= 0
  BY HeldIsOwned
<1> HIDE DEF real
<1>9. LET q == touch(k.pool, real)
          idle == {b \in Range(real) : k.pool.ref_cnt[b] = 0}
      IN  /\ q \in PoolType
          /\ FreeListOK(q)
          /\ q.ref_cnt = [b \in Blocks |-> IF b \in Range(real) THEN k.pool.ref_cnt[b] + 1
                                                              ELSE k.pool.ref_cnt[b]]
          /\ q.block_hash = k.pool.block_hash
          /\ q.cached_block_hash_to_block = k.pool.cached_block_hash_to_block
          /\ Len(q.free_block_queue) = Len(k.pool.free_block_queue) - Cardinality(idle)
  BY <1>1, <1>7, <1>8, TouchPool
<1> DEFINE idle == {b \in Range(real) : k.pool.ref_cnt[b] = 0}
<1>10. idle = E
  <2>1. \A b \in {h[i] : i \in {j \in DOMAIN h : j > skipped}} : b # Null => b \in Blocks
    BY <1>4
  <2>2. \A b \in Blocks : b # Null
    BY BlocksAreNat DEF Null
  <2> QED  BY <1>6, <1>7, <2>1, <2>2 DEF Evictable
<1> HIDE DEF E
<1>11. /\ p \in PoolType /\ FreeListOK(p)
       /\ p.ref_cnt = [b \in Blocks |-> IF b \in Range(real) THEN k.pool.ref_cnt[b] + 1
                                                           ELSE k.pool.ref_cnt[b]]
       /\ p.block_hash = k.pool.block_hash
       /\ p.cached_block_hash_to_block = k.pool.cached_block_hash_to_block
       /\ Len(p.free_block_queue) = Len(k.pool.free_block_queue) - Cardinality(E)
  BY <1>9, <1>10
<1>12. IsFiniteSet(E) /\ Cardinality(E) \in Nat
  <2>1. E \in SUBSET Blocks
    BY <1>7, <1>10
  <2> QED  BY <2>1, BlocksAreNat, FS_Subset, FS_CardinalityType
<1> HIDE DEF p, idle
<1>13. /\ k2.pool = p /\ k2.fault = k.fault /\ k2 \in HybridType
       /\ k2.req_to_blocks = T2 /\ k2.num_cached_block = N2
  <2>1. k2 = [k EXCEPT !.pool = p, !.req_to_blocks = T2, !.num_cached_block = N2]
    BY <1>1, <1>5 DEF HybridType
  <2>2. T2 \in [Req -> [Groups -> Seq(Entries)]] /\ N2 \in [Req -> [Groups -> Nat]]
    <3>1. Len(t2) \in Nat
      BY <1>6
    <3> QED  BY <1>1, <1>6, <3>1
  <2> HIDE DEF T2, N2
  <2> QED  BY <1>1, <1>11, <2>1, <2>2 DEF HybridType
<1>14. HashMapOK(k2.pool)
  BY <1>1, <1>11, <1>13 DEF HashMapOK
<1>15. Sound(k2)
  <2> DEFINE m2 == Len(t2)
  <2>1. /\ m2 \in Nat /\ m2 <= Len(t2) /\ Private(t2, m2) = {}
        /\ k2.num_cached_block = [k.num_cached_block EXCEPT ![r][g] = m2]
        /\ FreeListOK(k2.pool)
    <3>1. m2 \in Nat /\ DOMAIN t2 = 1 .. m2
      BY <1>6
    <3>2. Private(t2, m2) = {}
      BY <3>1 DEF Private
    <3> QED  BY <1>11, <1>13, <3>1, <3>2
  <2> HIDE DEF m2
  <2>2. \A b \in Blocks : k2.pool.ref_cnt[b] =
            (k.pool.ref_cnt[b] - In(k.req_to_blocks[r][g], b)) + In(t2, b)
    <3>1. Range(<< >>) = {}
      BY DEF Range
    <3>2. \A b \in Blocks : In(k.req_to_blocks[r][g], b) = 0
      BY <3>1 DEF In
    <3>3. \A b \in Blocks : b \in Range(real) <=> b \in Range(t2)
      BY <1>6, <1>7
    <3> QED  BY <1>1, <1>11, <1>13, <3>2, <3>3 DEF In
  <2>3. /\ \A b \in Blocks : k.pool.block_hash[b] = NoHash /\ k2.pool.block_hash[b] # NoHash
             => b \in Private(k.req_to_blocks[r][g], k.num_cached_block[r][g])
        /\ \A b \in Blocks : b \in Range(t2) /\ b \notin Range(k.req_to_blocks[r][g])
             => k.pool.block_hash[b] # NoHash \/ k.pool.ref_cnt[b] = 0
        /\ \A b \in Private(t2, m2) :
             /\ k2.pool.block_hash[b] = NoHash
             /\ \/ k.pool.ref_cnt[b] = 0
                \/ b \in Private(k.req_to_blocks[r][g], k.num_cached_block[r][g])
    <3>1. \A b \in Blocks : b \in Range(t2) => k.pool.block_hash[b] # NoHash
      <4>1. \A b \in Blocks : b # Null
        BY BlocksAreNat DEF Null
      <4> QED  BY <1>4, <1>6, <4>1
    <3> QED  BY <1>11, <1>13, <2>1, <3>1
  <2> QED  BY <1>6, <1>13, <1>14, <2>1, <2>2, <2>3, Retabled
<1>16. \A b \in Blocks : b \notin Range(h) => k2.pool.ref_cnt[b] = k.pool.ref_cnt[b]
  <2>1. Range(real) \subseteq Range(h)
    BY <1>6, <1>7 DEF Range
  <2> QED  BY <1>11, <1>13, <2>1
<1>17. Len(k2.pool.free_block_queue) + Cardinality(E) = Len(k.pool.free_block_queue)
  <2>1. Len(k.pool.free_block_queue) \in Nat
    BY <1>1, HybridFields
  <2> QED  BY <1>11, <1>12, <1>13, <2>1
<1>18. HitsOwned(k, k2, r, g, h, skipped)
  BY <1>6, <1>11, <1>13, <1>15, <1>16, <1>17 DEF E, t2, HitsOwned
<1> QED  BY <1>18 DEF skipped, k2

----------------------------------------------------------------------------
(* New blocks *)

(* What one group needs, if it is free. *)
LEMMA NewInKeeps ==
  ASSUME layout \in Layouts, NEW k, Sound(k), NEW r \in Req, NEW g \in Groups, NEW n \in Nat,
         Greatest(cdiv(n, BlockSize) - Len(k.req_to_blocks[r][g]), 0)
             <= Len(k.pool.free_block_queue)
  PROVE  LET k2 == allocate_new_in(k, r, g, n)
             need == Greatest(cdiv(n, BlockSize) - Len(k.req_to_blocks[r][g]), 0)
         IN  /\ Sound(k2) /\ k2.fault = k.fault
             /\ Len(k2.pool.free_block_queue) + need = Len(k.pool.free_block_queue)
             /\ Len(k2.req_to_blocks[r][g]) >= cdiv(n, BlockSize)
             /\ \A h \in Groups : h # g => k2.req_to_blocks[r][h] = k.req_to_blocks[r][h]
<1> DEFINE t == k.req_to_blocks[r][g]
           m == k.num_cached_block[r][g]
           q == k.pool.free_block_queue
           need == Greatest(cdiv(n, BlockSize) - Len(t), 0)
           taken == popleft_n(q, need).taken
           p == get_new_blocks(k.pool, need)
           D == [b \in Blocks |-> IF b \in Range(taken) THEN NoHash ELSE k.data[b]]
           t2 == t \o taken
           T2 == [k.req_to_blocks EXCEPT ![r][g] = t2]
           k2 == allocate_new_in(k, r, g, n)
<1>1. /\ k \in HybridType /\ k.pool \in PoolType /\ FreeListOK(k.pool) /\ HashMapOK(k.pool)
      /\ k.pool.ref_cnt \in [Blocks -> Int] /\ q \in Seq(Blocks)
      /\ k.data \in [Blocks -> Hash]
      /\ k.req_to_blocks \in [Req -> [Groups -> Seq(Entries)]]
      /\ k.num_cached_block \in [Req -> [Groups -> Nat]]
  BY HybridFields DEF Sound
<1>2. /\ Once(t) /\ m <= Len(t)
      /\ \A b \in Private(t, m) : k.pool.block_hash[b] = NoHash
  BY DEF Sound, TableSound
<1>3. t \in Seq(Entries) /\ m \in Nat
  BY <1>1
<1> HIDE DEF t, m, q
<1>4. Len(t) \in Nat /\ DOMAIN t = 1 .. Len(t) /\ Len(q) \in Nat /\ cdiv(n, BlockSize) \in Nat
  BY <1>1, <1>3, CdivBounds, Parameters
<1>5. need \in 0 .. Len(q) /\ Len(t) + need >= cdiv(n, BlockSize)
  BY <1>4 DEF Greatest, t, q
<1>6. ~(need > get_num_free_blocks(k.pool))
  BY <1>4, <1>5 DEF get_num_free_blocks, q
<1>7. k2 = [k EXCEPT !.pool = p, !.data = D, !.req_to_blocks[r][g] = t2]
  <2> DEFINE x == [k EXCEPT !.fault = "no_free_blocks"]
             y == [k EXCEPT !.pool = get_new_blocks(@, need),
                            !.data = [b \in Blocks |-> IF b \in Range(taken) THEN NoHash ELSE @[b]],
                            !.req_to_blocks[r][g] = @ \o taken]
  <2>1. k2 = IF need > get_num_free_blocks(k.pool) THEN x ELSE y
    BY DEF allocate_new_in, t, q
  <2>2. y = [k EXCEPT !.pool = p, !.data = D, !.req_to_blocks[r][g] = t2]
    BY <1>1 DEF HybridType, t
  <2> HIDE DEF x, y, need
  <2> QED  BY <1>6, <2>1, <2>2
<1> HIDE DEF need, k2
<1>8. /\ p \in PoolType
      /\ FreeListOK(p)
      /\ HashMapOK(p)
      /\ taken \in Seq(Blocks) /\ Len(taken) = need /\ IsInjective(taken)
      /\ Len(p.free_block_queue) = Len(q) - need
      /\ \A b \in Range(taken) : k.pool.ref_cnt[b] = 0
      /\ p.ref_cnt = [b \in Blocks |-> IF b \in Range(taken) THEN k.pool.ref_cnt[b] + 1
                                                           ELSE k.pool.ref_cnt[b]]
      /\ p.block_hash = [b \in Blocks |-> IF b \in Range(taken) THEN NoHash
                                                              ELSE k.pool.block_hash[b]]
  BY <1>1, <1>5, GetNewBlocksPool DEF q
<1> HIDE DEF p, taken
<1>9. Range(taken) \subseteq Blocks /\ DOMAIN taken = 1 .. need /\ need \in Nat
  BY <1>4, <1>5, <1>8 DEF Range
<1>10. \A b \in Range(taken) : b \notin Range(t)
  <2>1. \A b \in Range(t) : b \in Blocks => k.pool.ref_cnt[b] > 0
    BY HeldIsOwned DEF t
  <2> QED  BY <1>8, <1>9, <2>1
<1>11. /\ t2 \in Seq(Entries) /\ Len(t2) = Len(t) + need /\ DOMAIN t2 = 1 .. Len(t) + need
       /\ \A i \in 1 .. Len(t) + need : t2[i] = IF i <= Len(t) THEN t[i] ELSE taken[i - Len(t)]
  <2>1. taken \in Seq(Entries)
    BY <1>8 DEF Entries
  <2>2. t2 \in Seq(Entries)
    BY <1>3, <2>1
  <2>3. Len(t2) = Len(t) + Len(taken)
    BY <1>3, <2>1
  <2>4. \A i \in 1 .. Len(t) + Len(taken) : t2[i] = IF i <= Len(t) THEN t[i] ELSE taken[i - Len(t)]
    BY <1>3, <2>1
  <2> HIDE DEF t2
  <2>5. DOMAIN t2 = 1 .. Len(t2)
    BY <2>2
  <2> QED  BY <1>8, <2>2, <2>3, <2>4, <2>5
<1>12. Range(t2) = Range(t) \cup Range(taken)
  <2>1. taken \in Seq(Entries)
    BY <1>8 DEF Entries
  <2> QED  BY <1>3, <2>1, ConcatFacts
<1> HIDE DEF t2
<1>13. Once(t2)
  <2> SUFFICES ASSUME NEW i \in DOMAIN t2, NEW j \in DOMAIN t2, t2[i] = t2[j], t2[i] # Null
               PROVE  i = j
    BY DEF Once
  <2>1. \A x \in DOMAIN t2 : \/ x \in DOMAIN t /\ t2[x] = t[x] /\ t2[x] \in Range(t)
                             \/ /\ x - Len(t) \in DOMAIN taken /\ t2[x] = taken[x - Len(t)]
                                /\ t2[x] \in Range(taken)
    <3> SUFFICES ASSUME NEW x \in 1 .. Len(t) + need
                 PROVE  \/ x \in DOMAIN t /\ t2[x] = t[x] /\ t2[x] \in Range(t)
                        \/ /\ x - Len(t) \in DOMAIN taken /\ t2[x] = taken[x - Len(t)]
                           /\ t2[x] \in Range(taken)
      BY <1>11
    <3>1. CASE x <= Len(t)
      BY <1>4, <1>11, <3>1 DEF Range
    <3>2. CASE ~(x <= Len(t))
      <4>1. x - Len(t) \in DOMAIN taken /\ t2[x] = taken[x - Len(t)]
        BY <1>4, <1>9, <1>11, <3>2
      <4> QED  BY <4>1 DEF Range
    <3> QED  BY <3>1, <3>2
  <2>2. CASE t2[i] \in Range(t)
    <3>1. /\ i \in DOMAIN t /\ t2[i] = t[i]
          /\ j \in DOMAIN t /\ t2[j] = t[j]
      BY <1>10, <2>1, <2>2
    <3> QED  BY <1>2, <3>1 DEF Once
  <2>3. CASE t2[i] \notin Range(t)
    <3>1. /\ i - Len(t) \in DOMAIN taken /\ t2[i] = taken[i - Len(t)]
          /\ j - Len(t) \in DOMAIN taken /\ t2[j] = taken[j - Len(t)]
      BY <2>1, <2>3
    <3>2. i - Len(t) = j - Len(t)
      BY <1>8, <3>1 DEF IsInjective
    <3> QED  BY <1>4, <1>11, <3>2
  <2> QED  BY <2>2, <2>3
<1>14. D \in [Blocks -> Hash]
  <2>1. NoHash \in Hash
    BY DEF NoHash, Hash
  <2> QED  BY <1>1, <2>1
<1> HIDE DEF D
<1>15. /\ k2.pool = p /\ k2.fault = k.fault /\ k2 \in HybridType
       /\ k2.req_to_blocks = T2 /\ k2.num_cached_block = k.num_cached_block
  <2>1. k2 = [k EXCEPT !.pool = p, !.data = D, !.req_to_blocks = T2]
    BY <1>1, <1>7 DEF HybridType
  <2>2. T2 \in [Req -> [Groups -> Seq(Entries)]]
    BY <1>1, <1>11
  <2> HIDE DEF T2
  <2> QED  BY <1>1, <1>8, <1>14, <2>1, <2>2 DEF HybridType
<1>16. Private(t2, m) \subseteq Private(t, m) \cup Range(taken)
  <2> SUFFICES ASSUME NEW b \in Blocks, NEW i \in DOMAIN t2, i > m, t2[i] = b,
                      b \notin Range(taken)
               PROVE  b \in Private(t, m)
    BY DEF Private
  <2>1. i \in 1 .. Len(t) + need
    BY <1>11
  <2>2. i <= Len(t)
    <3>1. ASSUME ~(i <= Len(t)) PROVE FALSE
      <4>1. i - Len(t) \in DOMAIN taken /\ t2[i] = taken[i - Len(t)]
        BY <1>4, <1>9, <1>11, <2>1, <3>1
      <4> QED  BY <4>1 DEF Range
    <3> QED  BY <3>1
  <2> QED  BY <1>4, <1>11, <2>1, <2>2 DEF Private
<1>17. Sound(k2)
  <2>1. /\ FreeListOK(k2.pool) /\ HashMapOK(k2.pool)
        /\ k2.num_cached_block = [k.num_cached_block EXCEPT ![r][g] = m]
        /\ m <= Len(t2)
    <3>1. k.num_cached_block = [k.num_cached_block EXCEPT ![r][g] = m]
      BY <1>1 DEF m
    <3> QED  BY <1>2, <1>3, <1>4, <1>8, <1>9, <1>11, <1>15, <3>1
  <2>2. \A b \in Blocks : k2.pool.ref_cnt[b] =
            (k.pool.ref_cnt[b] - In(k.req_to_blocks[r][g], b)) + In(t2, b)
    <3> SUFFICES ASSUME NEW b \in Blocks
                 PROVE  k2.pool.ref_cnt[b] = (k.pool.ref_cnt[b] - In(t, b)) + In(t2, b)
      BY DEF t
    <3>1. k.pool.ref_cnt[b] \in Int
      BY <1>1
    <3> QED  BY <1>8, <1>10, <1>12, <1>15, <3>1 DEF In
  <2>3. /\ \A b \in Blocks : k.pool.block_hash[b] = NoHash /\ k2.pool.block_hash[b] # NoHash
             => b \in Private(k.req_to_blocks[r][g], k.num_cached_block[r][g])
        /\ \A b \in Blocks : b \in Range(t2) /\ b \notin Range(k.req_to_blocks[r][g])
             => k.pool.block_hash[b] # NoHash \/ k.pool.ref_cnt[b] = 0
        /\ \A b \in Private(t2, m) :
             /\ k2.pool.block_hash[b] = NoHash
             /\ \/ k.pool.ref_cnt[b] = 0
                \/ b \in Private(k.req_to_blocks[r][g], k.num_cached_block[r][g])
    <3>1. \A b \in Blocks : k2.pool.block_hash[b] =
              IF b \in Range(taken) THEN NoHash ELSE k.pool.block_hash[b]
      BY <1>8, <1>15
    <3>2. Private(t2, m) \subseteq Blocks
      BY DEF Private
    <3> QED  BY <1>2, <1>8, <1>12, <1>16, <3>1, <3>2 DEF t, m
  <2> QED  BY <1>3, <1>11, <1>13, <1>15, <2>1, <2>2, <2>3, Retabled
<1>18. /\ k2.req_to_blocks[r][g] = t2
       /\ \A h \in Groups : h # g => k2.req_to_blocks[r][h] = k.req_to_blocks[r][h]
  BY <1>1, <1>15
<1>19. Len(k2.pool.free_block_queue) + need = Len(q)
  BY <1>4, <1>8, <1>9, <1>15
<1> QED  BY <1>5, <1>11, <1>15, <1>17, <1>18, <1>19 DEF need, k2, t, q

----------------------------------------------------------------------------
(* Caching *)

(* The full blocks of one group: nobody has hashed them before, since      *)
(* nobody else holds them.                                                 *)
LEMMA CacheInKeeps ==
  ASSUME layout \in Layouts, NEW k, Sound(k), NEW r \in Req, NEW g \in Groups,
         NEW tk \in Seq(Token), NEW n \in Nat, n <= Len(tk),
         n \div BlockSize <= Len(k.req_to_blocks[r][g])
  PROVE  LET k2 == cache_blocks_in(k, r, g, tk, n)
         IN  Sound(k2) /\ k2.fault = k.fault /\ k2.req_to_blocks = k.req_to_blocks
<1> DEFINE t == k.req_to_blocks[r][g]
           m == k.num_cached_block[r][g]
           full == n \div BlockSize
           new == {i \in m + 1 .. full : t[i] # Null}
           at(b) == CHOOSE i \in new : t[i] = b
           hashOf(b) == GroupHash(g, tk, at(b))
           blocks == {t[i] : i \in new}
           hash == k.pool.block_hash
           map == k.pool.cached_block_hash_to_block
           hash2 == [b \in Blocks |-> IF b \in blocks THEN hashOf(b) ELSE hash[b]]
           map2 == map \cup {<<hashOf(b), b>> : b \in blocks}
           p == [k.pool EXCEPT !.block_hash = hash2, !.cached_block_hash_to_block = map2]
           N2 == [k.num_cached_block EXCEPT ![r][g] = full]
           C2 == IF layout[g] = "mamba"
                 THEN k.cached_blocks_this_step \cup {hashOf(b) : b \in blocks}
                 ELSE k.cached_blocks_this_step
           k2 == cache_blocks_in(k, r, g, tk, n)
<1>1. /\ k \in HybridType /\ k.pool \in PoolType /\ FreeListOK(k.pool) /\ HashMapOK(k.pool)
      /\ k.req_to_blocks \in [Req -> [Groups -> Seq(Entries)]]
      /\ k.num_cached_block \in [Req -> [Groups -> Nat]]
      /\ k.cached_blocks_this_step \in SUBSET Hash
      /\ hash \in [Blocks -> Hash] /\ k.pool.ref_cnt \in [Blocks -> Int]
      /\ map \in SUBSET (Hash \X Blocks)
  BY HybridFields, PoolFields DEF Sound
<1>2. t \in Seq(Entries) /\ m \in Nat /\ g \in Nat
  BY <1>1, GroupsFinite
<1>3. /\ Once(t) /\ m <= Len(t)
      /\ \A b \in Private(t, m) : hash[b] = NoHash
  BY DEF Sound, TableSound
<1>4. full \in Nat /\ full * BlockSize <= n /\ full <= Len(t)
  BY Parameters, DivBounds
<1>5. CASE m >= full
  <2>1. k2 = k
    BY <1>5 DEF cache_blocks_in
  <2> QED  BY <2>1
<1>6. CASE ~(m >= full)
  <2> HIDE DEF t, m, full
  <2>1. \A i \in new : /\ i \in DOMAIN t /\ i \in Nat /\ i > m /\ i <= full
                       /\ t[i] \in Blocks /\ t[i] \in Private(t, m)
    <3> SUFFICES ASSUME NEW i \in m + 1 .. full, t[i] # Null
                 PROVE  /\ i \in DOMAIN t /\ i \in Nat /\ i > m /\ i <= full
                        /\ t[i] \in Blocks /\ t[i] \in Private(t, m)
      OBVIOUS
    <3>1. i \in DOMAIN t /\ i \in Nat /\ i > m /\ i <= full
      <4>1. DOMAIN t = 1 .. Len(t) /\ Len(t) \in Nat
        BY <1>2
      <4> QED  BY <1>2, <1>4, <4>1
    <3>2. t[i] \in Blocks
      <4>1. t[i] \in Entries
        BY <1>2, <3>1
      <4> QED  BY <4>1 DEF Entries
    <3> QED  BY <3>1, <3>2 DEF Private
  <2>2. blocks \subseteq Blocks /\ blocks \subseteq Private(t, m)
    BY <2>1
  <2>3. \A b \in blocks : hash[b] = NoHash
    BY <1>3, <2>2
  <2>4. ASSUME NEW b \in blocks
        PROVE  hashOf(b) \in Hash /\ hashOf(b) # NoHash
    <3>1. at(b) \in new
      OBVIOUS
    <3> DEFINE i == at(b)
    <3> HIDE DEF i
    <3>2. i \in Nat /\ i <= full
      BY <2>1, <3>1 DEF i
    <3>3. i * BlockSize <= full * BlockSize /\ i * BlockSize \in Nat /\ full * BlockSize \in Nat
      BY <1>4, <3>2, Parameters, TimesMonotonic
    <3>4. i * BlockSize <= Len(tk)
      <4> DEFINE a == i * BlockSize
                 c == full * BlockSize
      <4>1. a \in Nat /\ c \in Nat /\ a <= c /\ c <= n
        BY <1>4, <3>3
      <4> HIDE DEF a, c
      <4>2. a <= Len(tk)
        BY <4>1
      <4> QED  BY <4>2 DEF a
    <3>5. GroupHash(g, tk, i) \in Hash /\ GroupHash(g, tk, i) # NoHash
      BY <1>2, <3>2, <3>4, GroupHashes
    <3> QED  BY <3>5 DEF i
  <2>5. k2 = [k EXCEPT !.pool = p, !.num_cached_block = N2, !.cached_blocks_this_step = C2]
    <3> DEFINE y == [k EXCEPT
                       !.pool.block_hash = [b \in Blocks |-> IF b \in blocks THEN hashOf(b) ELSE @[b]],
                       !.pool.cached_block_hash_to_block = @ \cup {<<hashOf(b), b>> : b \in blocks},
                       !.num_cached_block[r][g] = full,
                       !.cached_blocks_this_step =
                           IF layout[g] = "mamba" THEN @ \cup {hashOf(b) : b \in blocks} ELSE @]
    <3>1. k2 = IF m >= full THEN k
               ELSE IF \E b \in blocks : hash[b] # NoHash
               THEN [k EXCEPT !.fault = "block_already_hashed"]
               ELSE y
      BY DEF cache_blocks_in, t, m, full
    <3>2. y = [k EXCEPT !.pool = p, !.num_cached_block = N2, !.cached_blocks_this_step = C2]
      <4> HIDE DEF new, blocks, at
      <4> QED  BY <1>1 DEF HybridType, PoolType
    <3> HIDE DEF y, blocks
    <3> QED  BY <1>6, <2>3, <3>1, <3>2
  <2> DEFINE H(b) == hashOf(b)
  <2>6. \A b \in blocks : H(b) \in Hash /\ H(b) # NoHash
    BY <2>4
  <2>7. ASSUME NEW i \in DOMAIN t, i > full, t[i] \in blocks PROVE FALSE
    <3>1. PICK j \in new : t[j] = t[i]
      BY <2>7
    <3>2. j \in DOMAIN t /\ j \in Nat /\ j <= full /\ t[j] # Null
      BY <2>1, <3>1
    <3>3. i = j
      BY <1>3, <2>7, <3>1, <3>2 DEF Once
    <3>4. i > full /\ i \in Nat
      BY <2>7, <3>2, <3>3
    <3> QED  BY <1>4, <3>2, <3>3, <3>4
  <2> HIDE DEF k2, blocks, H, at, new
  <2>8. /\ hash2 = [b \in Blocks |-> IF b \in blocks THEN H(b) ELSE hash[b]]
        /\ map2 = map \cup {<<H(b), b>> : b \in blocks}
        /\ {hashOf(b) : b \in blocks} = {H(b) : b \in blocks}
    BY DEF H
  <2> HIDE DEF hash2, map2
  <2>9. /\ hash2 \in [Blocks -> Hash] /\ map2 \in SUBSET (Hash \X Blocks)
        /\ C2 \in SUBSET Hash
    <3>1. hash2 \in [Blocks -> Hash]
      BY <1>1, <2>6, <2>8
    <3>2. map2 \in SUBSET (Hash \X Blocks)
      BY <1>1, <2>2, <2>6, <2>8
    <3>3. C2 \in SUBSET Hash
      BY <1>1, <2>6, <2>8
    <3> QED  BY <3>1, <3>2, <3>3
  <2>10. map2 = {<<hash2[b], b>> : b \in {c \in Blocks : hash2[c] # NoHash}}
    <3>1. map = {<<hash[b], b>> : b \in {c \in Blocks : hash[c] # NoHash}}
      BY <1>1 DEF HashMapOK
    <3>2. \A b \in Blocks : /\ b \in blocks => hash2[b] = H(b) /\ hash2[b] # NoHash
                            /\ b \notin blocks => hash2[b] = hash[b]
      BY <2>6, <2>8
    <3> HIDE DEF map, hash
    <3>3. {<<hash2[b], b>> : b \in {c \in Blocks : hash2[c] # NoHash}}
            = {<<hash[b], b>> : b \in {c \in Blocks : hash[c] # NoHash}}
                \cup {<<H(b), b>> : b \in blocks}
      BY <2>2, <2>3, <3>2 DEF hash
    <3> QED  BY <2>8, <3>1, <3>3
  <2> HIDE DEF C2
  <2>11. /\ p \in PoolType /\ p.block_hash = hash2 /\ p.cached_block_hash_to_block = map2
         /\ p.ref_cnt = k.pool.ref_cnt /\ p.free_block_queue = k.pool.free_block_queue
    BY <1>1, <2>9 DEF PoolType
  <2> HIDE DEF p
  <2>12. FreeListOK(p) /\ HashMapOK(p)
    <3>1. EnableCaching
      BY HybridAssumption DEF HybridAssumption
    <3> QED  BY <1>1, <2>10, <2>11, <3>1 DEF FreeListOK, HashMapOK
  <2>13. N2 \in [Req -> [Groups -> Nat]]
    BY <1>1, <1>4
  <2> HIDE DEF N2
  <2>14. /\ k2.pool = p /\ k2.fault = k.fault /\ k2 \in HybridType
         /\ k2.req_to_blocks = k.req_to_blocks /\ k2.num_cached_block = N2
    BY <1>1, <2>5, <2>9, <2>11, <2>13 DEF HybridType
  <2>15. Sound(k2)
    <3>1. /\ k2.req_to_blocks = [k.req_to_blocks EXCEPT ![r][g] = t]
          /\ k2.num_cached_block = [k.num_cached_block EXCEPT ![r][g] = full]
          /\ FreeListOK(k2.pool) /\ HashMapOK(k2.pool)
      BY <1>1, <2>12, <2>14 DEF t, N2
    <3>2. \A b \in Blocks : k2.pool.ref_cnt[b] =
              (k.pool.ref_cnt[b] - In(k.req_to_blocks[r][g], b)) + In(t, b)
      BY <1>1, <2>11, <2>14 DEF In, t
    <3>3. /\ \A b \in Blocks : k.pool.block_hash[b] = NoHash /\ k2.pool.block_hash[b] # NoHash
               => b \in Private(k.req_to_blocks[r][g], k.num_cached_block[r][g])
          /\ \A b \in Blocks : b \in Range(t) /\ b \notin Range(k.req_to_blocks[r][g])
               => k.pool.block_hash[b] # NoHash \/ k.pool.ref_cnt[b] = 0
          /\ \A b \in Private(t, full) :
               /\ k2.pool.block_hash[b] = NoHash
               /\ \/ k.pool.ref_cnt[b] = 0
                  \/ b \in Private(k.req_to_blocks[r][g], k.num_cached_block[r][g])
      <4>1. \A b \in Blocks : hash2[b] # hash[b] => b \in Private(t, m)
        BY <2>2, <2>8
      <4>2. ASSUME NEW b \in Private(t, full)
            PROVE  hash2[b] = NoHash /\ b \in Private(t, m)
        <5>1. b \in Blocks /\ \E i \in DOMAIN t : i > full /\ t[i] = b
          BY DEF Private
        <5>2. b \notin blocks
          BY <2>7, <5>1
        <5>3. b \in Private(t, m)
          <6>1. DOMAIN t \subseteq Nat
            BY <1>2
          <6> QED  BY <1>2, <1>4, <1>6, <5>1, <6>1 DEF Private
        <5> QED  BY <1>3, <2>8, <5>1, <5>2, <5>3
      <4> QED  BY <2>11, <2>14, <4>1, <4>2 DEF t, m
    <3> QED  BY <1>2, <1>3, <1>4, <2>14, <3>1, <3>2, <3>3, Retabled
  <2> QED  BY <2>14, <2>15 DEF k2
<1> QED  BY <1>5, <1>6


----------------------------------------------------------------------------
(* One group after the other *)

(* The states a call passes through.  What the chain of an operation       *)
(* chooses is one such function; what every step keeps, the call keeps.    *)
RemovedUpTo(k, r, num) ==
    CHOOSE f : f = [g \in 0 .. Len(layout) |->
                       IF g = 0 THEN k ELSE remove_skipped_in(f[g - 1], r, g, num)]
FreedUpTo(k, r) ==
    CHOOSE f : f = [g \in 0 .. Len(layout) |-> IF g = 0 THEN k ELSE free_in(f[g - 1], r, g)]
CachedUpTo(k, r, tk, num) ==
    CHOOSE f : f = [g \in 0 .. Len(layout) |->
                       IF g = 0 THEN k ELSE cache_blocks_in(f[g - 1], r, g, tk, num)]
GrownUpTo(k, r, num) ==
    CHOOSE f : f = [g \in 0 .. Len(layout) |->
                       IF g = 0 THEN k ELSE allocate_new_in(f[g - 1], r, g, num)]
OwnedUpTo(k, r, hits, num) ==
    CHOOSE f : f = [g \in 0 .. Len(layout) |->
                       IF g = 0 THEN k ELSE add_local_computed_in(f[g - 1], r, g, hits[g], num)]

LEMMA Calls ==
  ASSUME NEW k, NEW r, NEW num, NEW tk, NEW hits
  PROVE  /\ remove_skipped_blocks(k, r, num) = RemovedUpTo(k, r, num)[Len(layout)]
         /\ free(k, r) = FreedUpTo(k, r)[Len(layout)]
         /\ cache_blocks(k, r, tk, num) = CachedUpTo(k, r, tk, num)[Len(layout)]
         /\ allocate_new_blocks(k, r, num) = GrownUpTo(k, r, num)[Len(layout)]
         /\ allocate_new_computed_blocks(k, r, hits, num)
                = OwnedUpTo(k, r, hits, num)[Len(layout)]
<1>1. remove_skipped_blocks(k, r, num) = RemovedUpTo(k, r, num)[Len(layout)]
  BY DEF remove_skipped_blocks, InGroups, Chain, RemovedUpTo
<1>2. free(k, r) = FreedUpTo(k, r)[Len(layout)]
  BY DEF free, InGroups, Chain, FreedUpTo
<1>3. cache_blocks(k, r, tk, num) = CachedUpTo(k, r, tk, num)[Len(layout)]
  BY DEF cache_blocks, InGroups, Chain, CachedUpTo
<1>4. allocate_new_blocks(k, r, num) = GrownUpTo(k, r, num)[Len(layout)]
  BY DEF allocate_new_blocks, InGroups, Chain, GrownUpTo
<1>5. allocate_new_computed_blocks(k, r, hits, num) = OwnedUpTo(k, r, hits, num)[Len(layout)]
  BY DEF allocate_new_computed_blocks, InGroups, Chain, OwnedUpTo
<1> QED  BY <1>1, <1>2, <1>3, <1>4, <1>5

(* remove_skipped_blocks *)
LEMMA RemoveKeeps ==
  ASSUME layout \in Layouts, NEW k, Sound(k), NEW r \in Req, NEW num \in Nat
  PROVE  /\ Sound(remove_skipped_blocks(k, r, num))
         /\ remove_skipped_blocks(k, r, num).fault = k.fault
<1> DEFINE Q == {x \in HybridType : Sound(x) /\ x.fault = k.fault}
           P == [g \in 0 .. Len(layout) |-> Q]
<1>1. k \in P[0]
  BY GroupsFinite DEF Sound
<1>2. ASSUME NEW g \in 1 .. Len(layout), NEW x \in P[g - 1]
      PROVE  remove_skipped_in(x, r, g, num) \in P[g]
  <2>1. g \in Groups /\ g \in 0 .. Len(layout) /\ g - 1 \in 0 .. Len(layout)
    BY GroupsFinite
  <2>2. Sound(x) /\ x.fault = k.fault
    BY <2>1
  <2>3. LET y == remove_skipped_in(x, r, g, num) IN Sound(y) /\ y.fault = x.fault
    BY <2>1, <2>2, RemoveInKeeps
  <2> QED  BY <2>1, <2>2, <2>3 DEF Sound
<1> DEFINE n == Len(layout)
           F == [p \in HybridType \X (1 .. n) |-> remove_skipped_in(p[1], r, p[2], num)]
           c == RemovedUpTo(k, r, num)
<1>3. n \in Nat /\ Groups = 1 .. n /\ n = Len(layout)
  BY GroupsFinite
<1> HIDE DEF n
<1>4. \A g \in 1 .. n : \A x \in P[g - 1] : F[<<x, g>>] = remove_skipped_in(x, r, g, num) /\ F[<<x, g>>] \in P[g]
  <2> SUFFICES ASSUME NEW g \in 1 .. n, NEW x \in P[g - 1]
               PROVE  F[<<x, g>>] = remove_skipped_in(x, r, g, num) /\ F[<<x, g>>] \in P[g]
    OBVIOUS
  <2>1. g - 1 \in 0 .. n /\ g \in 0 .. n /\ g \in Groups
    BY <1>3
  <2>2. x \in HybridType /\ F[<<x, g>>] = remove_skipped_in(x, r, g, num)
    BY <1>3, <2>1
  <2>3. remove_skipped_in(x, r, g, num) \in P[g]
    BY <1>2, <1>3
  <2> QED  BY <2>2, <2>3
<1> HIDE DEF P, F
<1>5. PICK f : Steps(F, k, n, f) /\ \A g \in 0 .. n : f[g] \in P[g]
  BY <1>1, <1>3, <1>4, ChainLeads
<1>6. f = [g \in 0 .. n |-> IF g = 0 THEN k ELSE remove_skipped_in(f[g - 1], r, g, num)]
  <2>1. \A g \in 0 .. n : g # 0 => g \in 1 .. n /\ f[g - 1] \in P[g - 1]
    BY <1>3, <1>5, EarlierIn
  <2> QED  BY <1>4, <1>5, <2>1 DEF Steps
<1>7. c = [g \in 0 .. n |-> IF g = 0 THEN k ELSE remove_skipped_in(c[g - 1], r, g, num)]
  BY <1>6 DEF RemovedUpTo, n
<1> HIDE DEF c
<1>8. c[0] = k /\ \A g \in 1 .. n : c[g] = remove_skipped_in(c[g - 1], r, g, num)
  <2>1. 0 \in 0 .. n /\ \A g \in 1 .. n : g \in 0 .. n /\ g # 0
    BY <1>3
  <2> QED  BY <1>7, <2>1
<1>9. \A g \in 1 .. n : c[g - 1] \in P[g - 1] => c[g] \in P[g]
  BY <1>4, <1>8
<1>10. c[n] \in P[n]
  <2>1. \A g \in 0 .. n : c[g] \in P[g]
    BY <1>1, <1>3, <1>8, <1>9, ChainStays
  <2> QED  BY <1>3, <2>1
<1>11. Sound(c[n]) /\ c[n].fault = k.fault
  BY <1>3, <1>10 DEF P, n
<1> QED  BY <1>11, Calls DEF c, n

(* free *)
LEMMA FreeKeeps ==
  ASSUME layout \in Layouts, NEW k, Sound(k), NEW r \in Req
  PROVE  Sound(free(k, r)) /\ free(k, r).fault = k.fault
<1> DEFINE Q == {x \in HybridType : Sound(x) /\ x.fault = k.fault}
           P == [g \in 0 .. Len(layout) |-> Q]
<1>1. k \in P[0]
  BY GroupsFinite DEF Sound
<1>2. ASSUME NEW g \in 1 .. Len(layout), NEW x \in P[g - 1]
      PROVE  free_in(x, r, g) \in P[g]
  <2>1. g \in Groups /\ g \in 0 .. Len(layout) /\ g - 1 \in 0 .. Len(layout)
    BY GroupsFinite
  <2>2. Sound(x) /\ x.fault = k.fault
    BY <2>1
  <2>3. LET y == free_in(x, r, g) IN Sound(y) /\ y.fault = x.fault
    BY <2>1, <2>2, FreeInKeeps
  <2> QED  BY <2>1, <2>2, <2>3 DEF Sound
<1> DEFINE n == Len(layout)
           F == [p \in HybridType \X (1 .. n) |-> free_in(p[1], r, p[2])]
           c == FreedUpTo(k, r)
<1>3. n \in Nat /\ Groups = 1 .. n /\ n = Len(layout)
  BY GroupsFinite
<1> HIDE DEF n
<1>4. \A g \in 1 .. n : \A x \in P[g - 1] : F[<<x, g>>] = free_in(x, r, g) /\ F[<<x, g>>] \in P[g]
  <2> SUFFICES ASSUME NEW g \in 1 .. n, NEW x \in P[g - 1]
               PROVE  F[<<x, g>>] = free_in(x, r, g) /\ F[<<x, g>>] \in P[g]
    OBVIOUS
  <2>1. g - 1 \in 0 .. n /\ g \in 0 .. n /\ g \in Groups
    BY <1>3
  <2>2. x \in HybridType /\ F[<<x, g>>] = free_in(x, r, g)
    BY <1>3, <2>1
  <2>3. free_in(x, r, g) \in P[g]
    BY <1>2, <1>3
  <2> QED  BY <2>2, <2>3
<1> HIDE DEF P, F
<1>5. PICK f : Steps(F, k, n, f) /\ \A g \in 0 .. n : f[g] \in P[g]
  BY <1>1, <1>3, <1>4, ChainLeads
<1>6. f = [g \in 0 .. n |-> IF g = 0 THEN k ELSE free_in(f[g - 1], r, g)]
  <2>1. \A g \in 0 .. n : g # 0 => g \in 1 .. n /\ f[g - 1] \in P[g - 1]
    BY <1>3, <1>5, EarlierIn
  <2> QED  BY <1>4, <1>5, <2>1 DEF Steps
<1>7. c = [g \in 0 .. n |-> IF g = 0 THEN k ELSE free_in(c[g - 1], r, g)]
  BY <1>6 DEF FreedUpTo, n
<1> HIDE DEF c
<1>8. c[0] = k /\ \A g \in 1 .. n : c[g] = free_in(c[g - 1], r, g)
  <2>1. 0 \in 0 .. n /\ \A g \in 1 .. n : g \in 0 .. n /\ g # 0
    BY <1>3
  <2> QED  BY <1>7, <2>1
<1>9. \A g \in 1 .. n : c[g - 1] \in P[g - 1] => c[g] \in P[g]
  BY <1>4, <1>8
<1>10. c[n] \in P[n]
  <2>1. \A g \in 0 .. n : c[g] \in P[g]
    BY <1>1, <1>3, <1>8, <1>9, ChainStays
  <2> QED  BY <1>3, <2>1
<1>11. Sound(c[n]) /\ c[n].fault = k.fault
  BY <1>3, <1>10 DEF P, n
<1> QED  BY <1>11, Calls DEF c, n

(* cache_blocks *)
LEMMA CacheKeeps ==
  ASSUME layout \in Layouts, NEW k, Sound(k), NEW r \in Req,
         NEW tk \in Seq(Token), NEW num \in Nat, num <= Len(tk),
         \A g \in Groups : num \div BlockSize <= Len(k.req_to_blocks[r][g])
  PROVE  /\ Sound(cache_blocks(k, r, tk, num))
         /\ cache_blocks(k, r, tk, num).fault = k.fault
<1> DEFINE Q == {x \in HybridType : /\ Sound(x) /\ x.fault = k.fault
                                    /\ x.req_to_blocks = k.req_to_blocks}
           P == [g \in 0 .. Len(layout) |-> Q]
<1>1. k \in P[0]
  BY GroupsFinite DEF Sound
<1>2. ASSUME NEW g \in 1 .. Len(layout), NEW x \in P[g - 1]
      PROVE  cache_blocks_in(x, r, g, tk, num) \in P[g]
  <2>1. g \in Groups /\ g \in 0 .. Len(layout) /\ g - 1 \in 0 .. Len(layout)
    BY GroupsFinite
  <2>2. Sound(x) /\ x.fault = k.fault /\ x.req_to_blocks = k.req_to_blocks
    BY <2>1
  <2>3. num \div BlockSize <= Len(x.req_to_blocks[r][g])
    BY <2>1, <2>2
  <2>4. LET y == cache_blocks_in(x, r, g, tk, num)
        IN  Sound(y) /\ y.fault = x.fault /\ y.req_to_blocks = x.req_to_blocks
    BY <2>1, <2>2, <2>3, CacheInKeeps
  <2> QED  BY <2>1, <2>2, <2>4 DEF Sound
<1> DEFINE n == Len(layout)
           F == [p \in HybridType \X (1 .. n) |-> cache_blocks_in(p[1], r, p[2], tk, num)]
           c == CachedUpTo(k, r, tk, num)
<1>3. n \in Nat /\ Groups = 1 .. n /\ n = Len(layout)
  BY GroupsFinite
<1> HIDE DEF n
<1>4. \A g \in 1 .. n : \A x \in P[g - 1] : F[<<x, g>>] = cache_blocks_in(x, r, g, tk, num) /\ F[<<x, g>>] \in P[g]
  <2> SUFFICES ASSUME NEW g \in 1 .. n, NEW x \in P[g - 1]
               PROVE  F[<<x, g>>] = cache_blocks_in(x, r, g, tk, num) /\ F[<<x, g>>] \in P[g]
    OBVIOUS
  <2>1. g - 1 \in 0 .. n /\ g \in 0 .. n /\ g \in Groups
    BY <1>3
  <2>2. x \in HybridType /\ F[<<x, g>>] = cache_blocks_in(x, r, g, tk, num)
    BY <1>3, <2>1
  <2>3. cache_blocks_in(x, r, g, tk, num) \in P[g]
    BY <1>2, <1>3
  <2> QED  BY <2>2, <2>3
<1> HIDE DEF P, F
<1>5. PICK f : Steps(F, k, n, f) /\ \A g \in 0 .. n : f[g] \in P[g]
  BY <1>1, <1>3, <1>4, ChainLeads
<1>6. f = [g \in 0 .. n |-> IF g = 0 THEN k ELSE cache_blocks_in(f[g - 1], r, g, tk, num)]
  <2>1. \A g \in 0 .. n : g # 0 => g \in 1 .. n /\ f[g - 1] \in P[g - 1]
    BY <1>3, <1>5, EarlierIn
  <2> QED  BY <1>4, <1>5, <2>1 DEF Steps
<1>7. c = [g \in 0 .. n |-> IF g = 0 THEN k ELSE cache_blocks_in(c[g - 1], r, g, tk, num)]
  BY <1>6 DEF CachedUpTo, n
<1> HIDE DEF c
<1>8. c[0] = k /\ \A g \in 1 .. n : c[g] = cache_blocks_in(c[g - 1], r, g, tk, num)
  <2>1. 0 \in 0 .. n /\ \A g \in 1 .. n : g \in 0 .. n /\ g # 0
    BY <1>3
  <2> QED  BY <1>7, <2>1
<1>9. \A g \in 1 .. n : c[g - 1] \in P[g - 1] => c[g] \in P[g]
  BY <1>4, <1>8
<1>10. c[n] \in P[n]
  <2>1. \A g \in 0 .. n : c[g] \in P[g]
    BY <1>1, <1>3, <1>8, <1>9, ChainStays
  <2> QED  BY <1>3, <2>1
<1>11. Sound(c[n]) /\ c[n].fault = k.fault
  BY <1>3, <1>10 DEF P, n
<1> QED  BY <1>11, Calls DEF c, n

(* What is still to be taken off the free list once the groups up to g     *)
(* have had their part.                                                    *)
Rest(need, g) == [h \in Groups |-> IF h <= g THEN 0 ELSE need[h]]

LEMMA RestFacts ==
  ASSUME layout \in Layouts, NEW need \in [Groups -> Nat]
  PROVE  /\ Rest(need, 0) = need
         /\ \A g \in Groups :
                /\ need[g] \in Nat
                /\ Total(Rest(need, g)) \in Nat /\ Total(Rest(need, g - 1)) \in Nat
                /\ Total(Rest(need, g - 1)) = Total(Rest(need, g)) + need[g]
<1>1. Groups = 1 .. Len(layout) /\ Len(layout) \in Nat /\ IsFiniteSet(Groups)
  BY GroupsFinite
<1>2. Rest(need, 0) = need
  <2>1. \A h \in Groups : ~(h <= 0)
    BY <1>1
  <2> QED  BY <2>1 DEF Rest
<1>3. ASSUME NEW g \in Groups
      PROVE  /\ need[g] \in Nat
             /\ Total(Rest(need, g)) \in Nat /\ Total(Rest(need, g - 1)) \in Nat
             /\ Total(Rest(need, g - 1)) = Total(Rest(need, g)) + need[g]
  <2> DEFINE a == Rest(need, g)
             b == Rest(need, g - 1)
  <2>1. a \in [Groups -> Nat] /\ b \in [Groups -> Nat] /\ need[g] \in Nat
    BY DEF Rest
  <2>2. a[g] = 0 /\ b[g] = need[g]
    <3>1. g <= g /\ ~(g <= g - 1)
      BY <1>1
    <3> QED  BY <3>1 DEF Rest
  <2>3. \A h \in Groups : h # g => b[h] = a[h]
    <3>1. \A h \in Groups : h # g => (h <= g <=> h <= g - 1)
      BY <1>1
    <3> QED  BY <3>1 DEF Rest
  <2> HIDE DEF a, b
  <2> DEFINE m == need[g]
             S == Groups
  <2>4. /\ IsFiniteSet(S) /\ a \in [S -> Nat] /\ b \in [S -> Nat] /\ m \in Nat /\ g \in S
        /\ b[g] = m /\ \A h \in S : h # g => b[h] = a[h]
    BY <1>1, <2>1, <2>2, <2>3
  <2> HIDE DEF m, S
  <2>5. Total(a) \in Nat /\ Total(b) \in Nat /\ Total(b) + a[g] = Total(a) + m
    BY <2>4, TotalUpdate
  <2> QED  BY <2>1, <2>2, <2>5 DEF a, b, m
<1> QED  BY <1>2, <1>3

(* allocate_new_blocks: what all groups need together is there. *)
LEMMA GrowKeeps ==
  ASSUME layout \in Layouts, NEW k, Sound(k), NEW r \in Req, NEW num \in Nat,
         NEW need \in [Groups -> Nat],
         \A g \in Groups :
             need[g] = Greatest(cdiv(num, BlockSize) - Len(k.req_to_blocks[r][g]), 0),
         Total(need) <= Len(k.pool.free_block_queue)
  PROVE  LET k2 == allocate_new_blocks(k, r, num)
         IN  /\ Sound(k2) /\ k2.fault = k.fault
             /\ \A g \in Groups : Len(k2.req_to_blocks[r][g]) >= cdiv(num, BlockSize)
<1> DEFINE Good(x, g) == /\ Sound(x) /\ x.fault = k.fault
                         /\ \A h \in Groups : h > g =>
                                x.req_to_blocks[r][h] = k.req_to_blocks[r][h]
                         /\ \A h \in Groups : h <= g =>
                                Len(x.req_to_blocks[r][h]) >= cdiv(num, BlockSize)
                         /\ Total(Rest(need, g)) <= Len(x.pool.free_block_queue)
           P == [g \in 0 .. Len(layout) |-> {x \in HybridType : Good(x, g)}]
<1>1. k \in P[0]
  <2>1. Groups = 1 .. Len(layout) /\ Len(layout) \in Nat
    BY GroupsFinite
  <2>2. Good(k, 0)
    <3>1. \A h \in Groups : ~(h <= 0)
      BY <2>1
    <3>2. Total(Rest(need, 0)) <= Len(k.pool.free_block_queue)
      BY RestFacts
    <3> QED  BY <3>1, <3>2
  <2> QED  BY <2>1, <2>2 DEF Sound
<1>2. ASSUME NEW g \in 1 .. Len(layout), NEW x \in P[g - 1]
      PROVE  allocate_new_in(x, r, g, num) \in P[g]
  <2>1. /\ g \in Groups /\ g \in 0 .. Len(layout) /\ g - 1 \in 0 .. Len(layout)
        /\ Groups = 1 .. Len(layout) /\ Len(layout) \in Nat
    BY GroupsFinite
  <2>2. x \in HybridType /\ Good(x, g - 1)
    BY <2>1
  <2> DEFINE y == allocate_new_in(x, r, g, num)
  <2>3. need[g] = Greatest(cdiv(num, BlockSize) - Len(x.req_to_blocks[r][g]), 0)
    <3>1. g > g - 1
      BY <2>1
    <3> QED  BY <2>1, <2>2, <3>1
  <2>4. Len(x.pool.free_block_queue) \in Nat
    BY <2>2, HybridFields
  <2>5. /\ need[g] \in Nat /\ Total(Rest(need, g)) \in Nat
        /\ Total(Rest(need, g - 1)) = Total(Rest(need, g)) + need[g]
    BY <2>1, RestFacts
  <2>6. need[g] <= Len(x.pool.free_block_queue)
    BY <2>2, <2>4, <2>5
  <2>7. /\ Sound(y) /\ y.fault = x.fault
        /\ Len(y.pool.free_block_queue) + need[g] = Len(x.pool.free_block_queue)
        /\ Len(y.req_to_blocks[r][g]) >= cdiv(num, BlockSize)
        /\ \A h \in Groups : h # g => y.req_to_blocks[r][h] = x.req_to_blocks[r][h]
    <3>1. Greatest(cdiv(num, BlockSize) - Len(x.req_to_blocks[r][g]), 0)
              <= Len(x.pool.free_block_queue)
      BY <2>3, <2>6
    <3> HIDE DEF P, Good
    <3>2. Sound(x)
      BY <2>2 DEF Good
    <3>3. LET k2 == allocate_new_in(x, r, g, num)
              m == Greatest(cdiv(num, BlockSize) - Len(x.req_to_blocks[r][g]), 0)
          IN  /\ Sound(k2) /\ k2.fault = x.fault
              /\ Len(k2.pool.free_block_queue) + m = Len(x.pool.free_block_queue)
              /\ Len(k2.req_to_blocks[r][g]) >= cdiv(num, BlockSize)
              /\ \A h \in Groups : h # g => k2.req_to_blocks[r][h] = x.req_to_blocks[r][h]
      BY <2>1, <3>1, <3>2, NewInKeeps
    <3> QED  BY <2>3, <3>3
  <2> HIDE DEF y
  <2>8. Good(y, g)
    <3>1. \A h \in Groups : h > g => h # g /\ h > g - 1
      BY <2>1
    <3>2. \A h \in Groups : h <= g => h = g \/ (h # g /\ h <= g - 1)
      BY <2>1
    <3>3. Total(Rest(need, g)) <= Len(y.pool.free_block_queue)
      <4>1. Len(y.pool.free_block_queue) \in Nat
        BY <2>7, HybridFields DEF Sound
      <4> QED  BY <2>2, <2>4, <2>5, <2>7, <4>1
    <3>4. /\ \A h \in Groups : h > g => y.req_to_blocks[r][h] = k.req_to_blocks[r][h]
          /\ \A h \in Groups : h <= g => Len(y.req_to_blocks[r][h]) >= cdiv(num, BlockSize)
      BY <2>2, <2>7, <3>1, <3>2
    <3> QED  BY <2>2, <2>7, <3>3, <3>4
  <2>9. y \in HybridType
    BY <2>7 DEF Sound
  <2> HIDE DEF Good
  <2> QED  BY <2>1, <2>8, <2>9 DEF y
<1> HIDE DEF Good
<1> DEFINE n == Len(layout)
           F == [p \in HybridType \X (1 .. n) |-> allocate_new_in(p[1], r, p[2], num)]
           c == GrownUpTo(k, r, num)
<1>3. n \in Nat /\ Groups = 1 .. n /\ n = Len(layout)
  BY GroupsFinite
<1> HIDE DEF n
<1>4. \A g \in 1 .. n : \A x \in P[g - 1] : F[<<x, g>>] = allocate_new_in(x, r, g, num) /\ F[<<x, g>>] \in P[g]
  <2> SUFFICES ASSUME NEW g \in 1 .. n, NEW x \in P[g - 1]
               PROVE  F[<<x, g>>] = allocate_new_in(x, r, g, num) /\ F[<<x, g>>] \in P[g]
    OBVIOUS
  <2>1. g - 1 \in 0 .. n /\ g \in 0 .. n /\ g \in Groups
    BY <1>3
  <2>2. x \in HybridType /\ F[<<x, g>>] = allocate_new_in(x, r, g, num)
    BY <1>3, <2>1
  <2>3. allocate_new_in(x, r, g, num) \in P[g]
    BY <1>2, <1>3
  <2> QED  BY <2>2, <2>3
<1> HIDE DEF P, F
<1>5. PICK f : Steps(F, k, n, f) /\ \A g \in 0 .. n : f[g] \in P[g]
  BY <1>1, <1>3, <1>4, ChainLeads
<1>6. f = [g \in 0 .. n |-> IF g = 0 THEN k ELSE allocate_new_in(f[g - 1], r, g, num)]
  <2>1. \A g \in 0 .. n : g # 0 => g \in 1 .. n /\ f[g - 1] \in P[g - 1]
    BY <1>3, <1>5, EarlierIn
  <2> QED  BY <1>4, <1>5, <2>1 DEF Steps
<1>7. c = [g \in 0 .. n |-> IF g = 0 THEN k ELSE allocate_new_in(c[g - 1], r, g, num)]
  BY <1>6 DEF GrownUpTo, n
<1> HIDE DEF c
<1>8. c[0] = k /\ \A g \in 1 .. n : c[g] = allocate_new_in(c[g - 1], r, g, num)
  <2>1. 0 \in 0 .. n /\ \A g \in 1 .. n : g \in 0 .. n /\ g # 0
    BY <1>3
  <2> QED  BY <1>7, <2>1
<1>9. \A g \in 1 .. n : c[g - 1] \in P[g - 1] => c[g] \in P[g]
  BY <1>4, <1>8
<1>10. c[n] \in P[n]
  <2>1. \A g \in 0 .. n : c[g] \in P[g]
    BY <1>1, <1>3, <1>8, <1>9, ChainStays
  <2> QED  BY <1>3, <2>1
<1>11. Good(c[n], n)
  BY <1>3, <1>10 DEF P
<1>12. /\ Sound(c[n]) /\ c[n].fault = k.fault
       /\ \A g \in Groups : Len(c[n].req_to_blocks[r][g]) >= cdiv(num, BlockSize)
  <2>1. \A g \in Groups : g <= n
    BY <1>3
  <2> QED  BY <1>11, <2>1 DEF Good
<1> QED  BY <1>12, Calls DEF c, n

(* What admitting a request is still to cost: the new blocks of every      *)
(* group, and of the groups behind g the hits that nobody owns.            *)
Costs(idle, need, g) == [h \in Groups |-> IF h <= g THEN need[h] ELSE idle[h] + need[h]]

LEMMA CostsFacts ==
  ASSUME layout \in Layouts, NEW idle \in [Groups -> Nat], NEW need \in [Groups -> Nat]
  PROVE  /\ Costs(idle, need, 0) = [h \in Groups |-> idle[h] + need[h]]
         /\ Costs(idle, need, Len(layout)) = need
         /\ \A g \in Groups :
                /\ idle[g] \in Nat
                /\ Total(Costs(idle, need, g)) \in Nat /\ Total(Costs(idle, need, g - 1)) \in Nat
                /\ Total(Costs(idle, need, g - 1)) = Total(Costs(idle, need, g)) + idle[g]
<1>1. Groups = 1 .. Len(layout) /\ Len(layout) \in Nat /\ IsFiniteSet(Groups)
  BY GroupsFinite
<1>2. Costs(idle, need, 0) = [h \in Groups |-> idle[h] + need[h]]
  <2>1. \A h \in Groups : ~(h <= 0)
    BY <1>1
  <2> QED  BY <2>1 DEF Costs
<1>3. Costs(idle, need, Len(layout)) = need
  <2>1. \A h \in Groups : h <= Len(layout)
    BY <1>1
  <2> QED  BY <2>1 DEF Costs
<1>4. ASSUME NEW g \in Groups
      PROVE  /\ idle[g] \in Nat
             /\ Total(Costs(idle, need, g)) \in Nat /\ Total(Costs(idle, need, g - 1)) \in Nat
             /\ Total(Costs(idle, need, g - 1)) = Total(Costs(idle, need, g)) + idle[g]
  <2> DEFINE a == Costs(idle, need, g)
             b == Costs(idle, need, g - 1)
  <2>1. a \in [Groups -> Nat] /\ b \in [Groups -> Nat] /\ need[g] \in Nat /\ idle[g] \in Nat
    BY DEF Costs
  <2>2. a[g] = need[g] /\ b[g] = idle[g] + need[g]
    <3>1. g <= g /\ ~(g <= g - 1)
      BY <1>1
    <3> QED  BY <3>1 DEF Costs
  <2>3. \A h \in Groups : h # g => b[h] = a[h]
    <3>1. \A h \in Groups : h # g => (h <= g <=> h <= g - 1)
      BY <1>1
    <3> QED  BY <3>1 DEF Costs
  <2> HIDE DEF a, b
  <2> DEFINE m == idle[g] + need[g]
             S == Groups
  <2>4. /\ IsFiniteSet(S) /\ a \in [S -> Nat] /\ b \in [S -> Nat] /\ m \in Nat /\ g \in S
        /\ b[g] = m /\ \A h \in S : h # g => b[h] = a[h]
    BY <1>1, <2>1, <2>2, <2>3
  <2> HIDE DEF m, S
  <2>5. Total(a) \in Nat /\ Total(b) \in Nat /\ Total(b) + a[g] = Total(a) + m
    BY <2>4, TotalUpdate
  <2> QED  BY <2>1, <2>2, <2>5 DEF a, b, m
<1> QED  BY <1>2, <1>3, <1>4

(* Groups share no hit, and owning that of one leaves the others' as free  *)
(* as they were.                                                           *)
LEMMA HitsOfGroupsDiffer ==
  ASSUME NEW pool, NEW tk \in Seq(Token), NEW g \in Nat, NEW h \in Nat, g # h,
         NEW s, NEW t, HitsFor(pool, g, tk, s), HitsFor(pool, h, tk, t),
         NEW b \in Blocks, b \in Range(s)
  PROVE  b \notin Range(t)
<1> SUFFICES ASSUME NEW i \in DOMAIN s, NEW j \in DOMAIN t, s[i] = b, t[j] = b
             PROVE  FALSE
  BY DEF Range
<1>1. b # Null
  BY BlocksAreNat DEF Null
<1>2. i \in Nat /\ j \in Nat
  <2>1. s \in Seq(Entries) /\ t \in Seq(Entries)
    BY DEF HitsFor
  <2> QED  BY <2>1
<1>3. /\ i * BlockSize <= Len(tk) /\ pool.block_hash[b] = GroupHash(g, tk, i)
      /\ j * BlockSize <= Len(tk) /\ pool.block_hash[b] = GroupHash(h, tk, j)
  BY <1>1 DEF HitsFor
<1> QED  BY <1>2, <1>3, GroupHashesDiffer

(* allocate_new_computed_blocks. *)
LEMMA OwnKeeps ==
  ASSUME layout \in Layouts, NEW k, Sound(k), NEW r \in Req, NEW num \in Nat,
         NEW tk \in Seq(Token), NEW hits,
         \A g \in Groups : HitsFor(k.pool, g, tk, hits[g]) /\ k.req_to_blocks[r][g] = << >>,
         NEW idle \in [Groups -> Nat], NEW need \in [Groups -> Nat],
         \A g \in Groups : idle[g] =
             Cardinality(Evictable(k.pool, hits[g], SkippedBlocks(layout[g], num))),
         Total([g \in Groups |-> idle[g] + need[g]]) <= Len(k.pool.free_block_queue)
  PROVE  LET k2 == allocate_new_computed_blocks(k, r, hits, num)
         IN  /\ Sound(k2) /\ k2.fault = k.fault
             /\ \A g \in Groups : Len(k2.req_to_blocks[r][g]) =
                                      Greatest(SkippedBlocks(layout[g], num), Len(hits[g]))
             /\ Total(need) <= Len(k2.pool.free_block_queue)
<1> DEFINE size(g) == Greatest(SkippedBlocks(layout[g], num), Len(hits[g]))
           Good(x, g) == /\ Sound(x) /\ x.fault = k.fault
                         /\ x.pool.block_hash = k.pool.block_hash
                         /\ \A h \in Groups : h > g =>
                                /\ x.req_to_blocks[r][h] = << >>
                                /\ \A b \in Blocks : b \in Range(hits[h]) =>
                                       x.pool.ref_cnt[b] = k.pool.ref_cnt[b]
                         /\ \A h \in Groups : h <= g => Len(x.req_to_blocks[r][h]) = size(h)
                         /\ Total(Costs(idle, need, g)) <= Len(x.pool.free_block_queue)
           P == [g \in 0 .. Len(layout) |-> {x \in HybridType : Good(x, g)}]
<1>1. k \in P[0]
  <2>1. Groups = 1 .. Len(layout) /\ Len(layout) \in Nat
    BY GroupsFinite
  <2>2. Good(k, 0)
    <3>1. \A h \in Groups : ~(h <= 0)
      BY <2>1
    <3>2. Total(Costs(idle, need, 0)) <= Len(k.pool.free_block_queue)
      BY CostsFacts
    <3> QED  BY <3>1, <3>2
  <2> QED  BY <2>1, <2>2 DEF Sound
<1>2. ASSUME NEW g \in 1 .. Len(layout), NEW x \in P[g - 1]
      PROVE  add_local_computed_in(x, r, g, hits[g], num) \in P[g]
  <2>1. /\ g \in Groups /\ g \in 0 .. Len(layout) /\ g - 1 \in 0 .. Len(layout)
        /\ Groups = 1 .. Len(layout) /\ Len(layout) \in Nat /\ g > g - 1
    BY GroupsFinite
  <2>2. x \in HybridType /\ Good(x, g - 1)
    BY <2>1
  <2> DEFINE y == add_local_computed_in(x, r, g, hits[g], num)
             skipped == SkippedBlocks(layout[g], num)
             t == hits[g]
  <2> HIDE DEF P
  <2>3. /\ Sound(x) /\ x.req_to_blocks[r][g] = << >> /\ x.fault = k.fault
        /\ x.pool.block_hash = k.pool.block_hash
        /\ \A b \in Blocks : b \in Range(t) => x.pool.ref_cnt[b] = k.pool.ref_cnt[b]
        /\ Total(Costs(idle, need, g - 1)) <= Len(x.pool.free_block_queue)
    BY <2>1, <2>2
  <2>4. HitsFor(k.pool, g, tk, t) /\ HitsFor(x.pool, g, tk, t)
    BY <2>1, <2>3 DEF HitsFor
  <2>5. Evictable(x.pool, t, skipped) = Evictable(k.pool, t, skipped)
    <3>1. t \in Seq(Entries)
      BY <2>4 DEF HitsFor
    <3> HIDE DEF t, skipped
    <3>2. \A i \in DOMAIN t : t[i] # Null => t[i] \in Blocks /\ t[i] \in Range(t)
      BY <3>1 DEF Entries, Range
    <3>3. \A i \in DOMAIN t : t[i] # Null => x.pool.ref_cnt[t[i]] = k.pool.ref_cnt[t[i]]
      BY <2>3, <3>2
    <3> QED  BY <3>3 DEF Evictable
  <2>6. HitsOwned(x, y, r, g, t, skipped)
    <3>1. g \in Groups /\ Sound(x) /\ HitsFor(x.pool, g, tk, t) /\ x.req_to_blocks[r][g] = << >>
      BY <2>1, <2>3, <2>4
    <3> HIDE DEF Good
    <3> QED  BY <3>1, AddInKeeps
  <2> DEFINE t2 == FirstTable(t, skipped)
  <2>7. /\ Sound(y) /\ y.fault = x.fault
        /\ y.req_to_blocks = [x.req_to_blocks EXCEPT ![r][g] = t2] /\ Len(t2) = size(g)
        /\ y.pool.block_hash = x.pool.block_hash
        /\ \A b \in Blocks : b \notin Range(t) => y.pool.ref_cnt[b] = x.pool.ref_cnt[b]
        /\ Len(y.pool.free_block_queue) + idle[g] = Len(x.pool.free_block_queue)
    <3> HIDE DEF y, Good
    <3> QED  BY <2>1, <2>5, <2>6 DEF HitsOwned
  <2>8. /\ y.req_to_blocks[r][g] = t2
        /\ \A h \in Groups : h # g => y.req_to_blocks[r][h] = x.req_to_blocks[r][h]
    <3>1. x.req_to_blocks \in [Req -> [Groups -> Seq(Entries)]]
      BY <2>2, HybridFields
    <3> HIDE DEF y, t2
    <3> QED  BY <2>1, <2>7, <3>1
  <2>9. \A h \in Groups : h > g => \A b \in Blocks : b \in Range(hits[h]) =>
            y.pool.ref_cnt[b] = k.pool.ref_cnt[b]
    <3> SUFFICES ASSUME NEW h \in Groups, h > g, NEW b \in Blocks, b \in Range(hits[h])
                 PROVE  y.pool.ref_cnt[b] = k.pool.ref_cnt[b]
      OBVIOUS
    <3>1. h \in Nat /\ g \in Nat /\ h # g /\ h > g - 1
      BY <2>1
    <3> DEFINE s == hits[h]
    <3>2. HitsFor(k.pool, h, tk, s) /\ b \in Range(s)
      OBVIOUS
    <3>3. x.pool.ref_cnt[b] = k.pool.ref_cnt[b]
      BY <2>2, <3>1
    <3> HIDE DEF s, t, Good, y
    <3>4. b \notin Range(t)
      BY <2>4, <3>1, <3>2, HitsOfGroupsDiffer
    <3> QED  BY <2>7, <3>3, <3>4
  <2>10. Total(Costs(idle, need, g)) <= Len(y.pool.free_block_queue)
    <3>1. Len(y.pool.free_block_queue) \in Nat /\ Len(x.pool.free_block_queue) \in Nat
      <4> HIDE DEF y, t2, t, skipped, Good
      <4>1. x \in HybridType /\ y \in HybridType
        BY <2>3, <2>7 DEF Sound
      <4>2. x.pool.free_block_queue \in Seq(Blocks) /\ y.pool.free_block_queue \in Seq(Blocks)
        BY <4>1, HybridFields
      <4> QED  BY <4>2
    <3>2. /\ Total(Costs(idle, need, g)) \in Nat /\ idle[g] \in Nat
          /\ Total(Costs(idle, need, g - 1)) = Total(Costs(idle, need, g)) + idle[g]
      BY <2>1, CostsFacts
    <3> HIDE DEF y, t2, t, skipped, Good
    <3> DEFINE a == Total(Costs(idle, need, g))
               b == Total(Costs(idle, need, g - 1))
               fx == Len(x.pool.free_block_queue)
               fy == Len(y.pool.free_block_queue)
               i == idle[g]
    <3>3. /\ a \in Nat /\ i \in Nat /\ fx \in Nat /\ fy \in Nat
          /\ b = a + i /\ b <= fx /\ fy + i = fx
      BY <2>3, <2>7, <3>1, <3>2
    <3> HIDE DEF a, b, fx, fy, i
    <3>4. a <= fy
      BY <3>3
    <3> QED  BY <3>4 DEF a, fy
  <2> HIDE DEF y, t2, t, skipped
  <2>11. Good(y, g)
    <3>1. \A h \in Groups : h > g => h # g /\ h > g - 1
      BY <2>1
    <3>2. \A h \in Groups : h <= g => h = g \/ (h # g /\ h <= g - 1)
      BY <2>1
    <3>3. \A h \in Groups : h > g => y.req_to_blocks[r][h] = << >>
      BY <2>2, <2>8, <3>1
    <3>4. \A h \in Groups : h <= g => Len(y.req_to_blocks[r][h]) = size(h)
      <4> HIDE DEF size
      <4> QED  BY <2>2, <2>7, <2>8, <3>2
    <3> HIDE DEF size
    <3> QED  BY <2>3, <2>7, <2>9, <2>10, <3>3, <3>4
  <2>12. y \in HybridType
    BY <2>7 DEF Sound
  <2> HIDE DEF Good
  <2> QED  BY <2>1, <2>11, <2>12 DEF y, P
<1> HIDE DEF Good
<1> DEFINE n == Len(layout)
           F == [p \in HybridType \X (1 .. n) |-> add_local_computed_in(p[1], r, p[2], hits[p[2]], num)]
           c == OwnedUpTo(k, r, hits, num)
<1>3. n \in Nat /\ Groups = 1 .. n /\ n = Len(layout)
  BY GroupsFinite
<1> HIDE DEF n
<1>4. \A g \in 1 .. n : \A x \in P[g - 1] : F[<<x, g>>] = add_local_computed_in(x, r, g, hits[g], num) /\ F[<<x, g>>] \in P[g]
  <2> SUFFICES ASSUME NEW g \in 1 .. n, NEW x \in P[g - 1]
               PROVE  F[<<x, g>>] = add_local_computed_in(x, r, g, hits[g], num) /\ F[<<x, g>>] \in P[g]
    OBVIOUS
  <2>1. g - 1 \in 0 .. n /\ g \in 0 .. n /\ g \in Groups
    BY <1>3
  <2>2. x \in HybridType /\ F[<<x, g>>] = add_local_computed_in(x, r, g, hits[g], num)
    BY <1>3, <2>1
  <2>3. add_local_computed_in(x, r, g, hits[g], num) \in P[g]
    BY <1>2, <1>3
  <2> QED  BY <2>2, <2>3
<1> HIDE DEF P, F
<1>5. PICK f : Steps(F, k, n, f) /\ \A g \in 0 .. n : f[g] \in P[g]
  BY <1>1, <1>3, <1>4, ChainLeads
<1>6. f = [g \in 0 .. n |-> IF g = 0 THEN k ELSE add_local_computed_in(f[g - 1], r, g, hits[g], num)]
  <2>1. \A g \in 0 .. n : g # 0 => g \in 1 .. n /\ f[g - 1] \in P[g - 1]
    BY <1>3, <1>5, EarlierIn
  <2> QED  BY <1>4, <1>5, <2>1 DEF Steps
<1>7. c = [g \in 0 .. n |-> IF g = 0 THEN k ELSE add_local_computed_in(c[g - 1], r, g, hits[g], num)]
  BY <1>6 DEF OwnedUpTo, n
<1> HIDE DEF c
<1>8. c[0] = k /\ \A g \in 1 .. n : c[g] = add_local_computed_in(c[g - 1], r, g, hits[g], num)
  <2>1. 0 \in 0 .. n /\ \A g \in 1 .. n : g \in 0 .. n /\ g # 0
    BY <1>3
  <2> QED  BY <1>7, <2>1
<1>9. \A g \in 1 .. n : c[g - 1] \in P[g - 1] => c[g] \in P[g]
  BY <1>4, <1>8
<1>10. c[n] \in P[n]
  <2>1. \A g \in 0 .. n : c[g] \in P[g]
    BY <1>1, <1>3, <1>8, <1>9, ChainStays
  <2> QED  BY <1>3, <2>1
<1>11. Good(c[n], n)
  BY <1>3, <1>10 DEF P
<1>12. /\ Sound(c[n]) /\ c[n].fault = k.fault
       /\ \A g \in Groups : Len(c[n].req_to_blocks[r][g]) = size(g)
       /\ Total(need) <= Len(c[n].pool.free_block_queue)
  <2>1. \A g \in Groups : g <= n
    BY <1>3
  <2>2. Costs(idle, need, n) = need
    BY <1>3, CostsFacts
  <2> HIDE DEF size, c
  <2> QED  BY <1>11, <2>1, <2>2 DEF Good
<1>13. allocate_new_computed_blocks(k, r, hits, num) = c[n]
  BY Calls DEF c, n
<1> HIDE DEF c
<1> QED  BY <1>12, <1>13

(* The rest of allocate_slots. *)
LEMMA SlotsGivenKeeps ==
  ASSUME layout \in Layouts, NEW k, Sound(k), NEW r \in Req,
         NEW start \in Nat, NEW num \in Nat, start + num <= Len(toks[r]),
         NEW need \in [Groups -> Nat],
         \A g \in Groups :
             need[g] = Greatest(cdiv(SlotTokens(start, num), BlockSize)
                                    - Len(k.req_to_blocks[r][g]), 0),
         Total(need) <= Len(k.pool.free_block_queue)
  PROVE  Sound(SlotsGiven(k, r, start, num)) /\ SlotsGiven(k, r, start, num).fault = k.fault
<1> DEFINE n == start + num
           tk == toks[r]
           k1 == allocate_new_blocks(k, r, n)
<1>1. tk \in Seq(Token) /\ Len(tk) \in Nat /\ Len(tk) < MaxModelLen /\ n \in Nat
  BY HybridAssumption DEF HybridAssumption
<1>2. SlotTokens(start, num) = n /\ Least(n, Len(tk)) = n
  BY <1>1, Parameters DEF SlotTokens, Least
<1> HIDE DEF n
<1>3. /\ Sound(k1) /\ k1.fault = k.fault
      /\ \A g \in Groups : Len(k1.req_to_blocks[r][g]) >= cdiv(n, BlockSize)
  BY <1>1, <1>2, GrowKeeps
<1>4. n \div BlockSize \in Nat /\ cdiv(n, BlockSize) \in Nat /\ n \div BlockSize <= cdiv(n, BlockSize)
  <2>1. n + BlockSize - 1 \in Nat /\ n <= n + BlockSize - 1
    BY <1>1, Parameters
  <2>2. n \div BlockSize \in Nat /\ cdiv(n, BlockSize) \in Nat
    BY <1>1, Parameters, CdivBounds, DivBounds
  <2>3. n \div BlockSize <= (n + BlockSize - 1) \div BlockSize
    BY <1>1, <2>1, Parameters, DivMonotone
  <2> QED  BY <2>2, <2>3 DEF cdiv
<1> HIDE DEF k1
<1>5. \A g \in Groups : n \div BlockSize <= Len(k1.req_to_blocks[r][g])
  <2> SUFFICES ASSUME NEW g \in Groups PROVE n \div BlockSize <= Len(k1.req_to_blocks[r][g])
    OBVIOUS
  <2>1. Len(k1.req_to_blocks[r][g]) \in Nat
    BY <1>3, TableFields DEF Sound
  <2> QED  BY <1>3, <1>4, <2>1
<1>6. /\ Sound(cache_blocks(k1, r, tk, n))
      /\ cache_blocks(k1, r, tk, n).fault = k1.fault
  <2>1. n <= Len(tk)
    BY DEF n
  <2> HIDE DEF tk
  <2> QED  BY <1>1, <1>3, <1>5, <2>1, CacheKeeps
<1>7. SlotsGiven(k, r, start, num) = cache_blocks(k1, r, tk, n)
  BY <1>2 DEF SlotsGiven, k1, n
<1> QED  BY <1>3, <1>6, <1>7

----------------------------------------------------------------------------
(* The capacity check *)

LEMMA SumIsTotal ==
  ASSUME NEW f
  PROVE  SumFunction(f) = Total(f)
BY DEF SumFunction, SumFunctionOnSet, Total, FoldFunction

LEMMA FreeBlocksBound ==
  ASSUME NEW pool \in PoolType, FreeListOK(pool)
  PROVE  /\ Len(pool.free_block_queue) \in Nat
         /\ Len(pool.free_block_queue) <= NumGpuBlocks - 1
<1> DEFINE q == pool.free_block_queue
<1>1. q \in Seq(Blocks) /\ IsInjective(q)
  BY PoolFields DEF FreeListOK
<1> HIDE DEF q
<1>2. Range(q) \in SUBSET Blocks
  BY <1>1 DEF Range
<1>3. Cardinality(Range(q)) <= Cardinality(Blocks)
  BY <1>2, BlocksAreNat, FS_Subset
<1>4. Len(q) = Cardinality(Range(q)) /\ Len(q) \in Nat
  BY <1>1, InjectiveLen
<1> QED  BY <1>3, <1>4, BlocksAreNat DEF q

(* What a running request needs of every group. *)
LEMMA RunningFits ==
  ASSUME layout \in Layouts, NEW k \in HybridType, NEW r \in Running,
         NEW start \in Nat, NEW num \in Nat, SlotsFit(k, r, NoHits, start, num, 0)
  PROVE  LET need == [g \in Groups |->
                 Greatest(cdiv(SlotTokens(start, num), BlockSize)
                              - Len(k.req_to_blocks[r][g]), 0)]
         IN  need \in [Groups -> Nat] /\ Total(need) <= Len(k.pool.free_block_queue)
<1> DEFINE n == SlotTokens(start, num)
           need == [g \in Groups |->
                       Greatest(cdiv(n, BlockSize) - Len(k.req_to_blocks[r][g]), 0)]
           all == [g \in Groups |->
                       blocks_to_allocate(k, r, g, n, NoHits[g], start, FALSE)]
<1>1. n \in Nat
  BY Parameters DEF SlotTokens, Least
<1> HIDE DEF n
<1>2. r \in Req
  BY DEF Running
<1>3. ASSUME NEW g \in Groups
      PROVE  /\ Greatest(cdiv(n, BlockSize) - Len(k.req_to_blocks[r][g]), 0) \in Nat
             /\ blocks_to_allocate(k, r, g, n, NoHits[g], start, FALSE)
                    = Greatest(cdiv(n, BlockSize) - Len(k.req_to_blocks[r][g]), 0)
  <2>1. cdiv(n, BlockSize) \in Nat
    BY <1>1, Parameters, CdivBounds
  <2>2. Len(k.req_to_blocks[r][g]) \in Nat
    BY <1>2, TableFields
  <2>3. NoHits[g] = << >>
    BY DEF NoHits
  <2>4. num_required_blocks(layout[g], n, FALSE) = cdiv(n, BlockSize)
    BY DEF num_required_blocks
  <2>5. blocks_to_allocate(k, r, g, n, NoHits[g], start, FALSE)
            = Greatest(cdiv(n, BlockSize) - Len(k.req_to_blocks[r][g]), 0)
    <3>1. r \in Running /\ ~(NoHits[g] # << >>)
      BY <2>3
    <3> HIDE DEF need, all
    <3> QED  BY <2>4, <3>1, Zenon DEF blocks_to_allocate
  <2>6. Greatest(cdiv(n, BlockSize) - Len(k.req_to_blocks[r][g]), 0) \in Nat
    <3> DEFINE a == cdiv(n, BlockSize)
               l == Len(k.req_to_blocks[r][g])
    <3>1. a \in Nat /\ l \in Nat
      BY <2>1, <2>2
    <3> HIDE DEF a, l
    <3>2. Greatest(a - l, 0) \in Nat
      BY <3>1 DEF Greatest
    <3> QED  BY <3>2 DEF a, l
  <2> QED  BY <2>5, <2>6
<1>4. need \in [Groups -> Nat] /\ all = need
  BY <1>3
<1>5. get_num_blocks_to_allocate(k, r, n, NoHits, start, FALSE) = Total(need)
  BY <1>4, SumIsTotal DEF get_num_blocks_to_allocate
<1> HIDE DEF need
<1>6. Total(need) \in Nat
  BY <1>4, GroupsFinite, TotalFacts
<1>7. Total(need) + 0 <= Len(k.pool.free_block_queue)
  BY <1>5 DEF SlotsFit, n, get_num_free_blocks
<1>8. Total(need) <= Len(k.pool.free_block_queue)
  BY <1>6, <1>7
<1> QED  BY <1>4, <1>8 DEF need, n

(* What an admission needs, and the idle hits it takes off the free list;  *)
(* a state to wait for asks for more than there is.                        *)
LEMMA AdmissionFits ==
  ASSUME layout \in Layouts, Sound(kv), NEW r \in Req, r \notin Running,
         NEW hits, \A g \in Groups : hits[g] \in Seq(Entries),
         NEW start \in Nat, NEW num \in Nat, NEW w \in Nat,
         SlotsFit(kv, r, hits, start, num, w)
  PROVE  LET skipped(g) == SkippedBlocks(layout[g], start)
             need == [g \in Groups |->
                 Greatest(cdiv(SlotTokens(start, num), BlockSize)
                              - Greatest(skipped(g), Len(hits[g])), 0)]
             idle == [g \in Groups |->
                 Cardinality(Evictable(kv.pool, hits[g], skipped(g)))]
         IN  /\ need \in [Groups -> Nat] /\ idle \in [Groups -> Nat]
             /\ Total([g \in Groups |-> idle[g] + need[g]]) <= Len(kv.pool.free_block_queue)
<1> DEFINE n == SlotTokens(start, num)
           skipped(g) == SkippedBlocks(layout[g], start)
           need == [g \in Groups |->
               Greatest(cdiv(n, BlockSize) - Greatest(skipped(g), Len(hits[g])), 0)]
           idle == [g \in Groups |->
               Cardinality(Evictable(kv.pool, hits[g], skipped(g)))]
           sum == [g \in Groups |-> idle[g] + need[g]]
           all == [g \in Groups |-> blocks_to_allocate(kv, r, g, n, hits[g], start, FALSE)]
           wait(g) == /\ layout[g] = "mamba" /\ hits[g] # << >>
                      /\ kv.pool.block_hash[Last(hits[g])] \in kv.cached_blocks_this_step
<1>1. n \in Nat
  BY Parameters DEF SlotTokens, Least
<1> HIDE DEF n
<1>2. ASSUME NEW g \in Groups
      PROVE  need[g] \in Nat /\ idle[g] \in Nat
  <2>1. cdiv(n, BlockSize) \in Nat
    BY <1>1, Parameters, CdivBounds
  <2>2. layout[g] \in Kinds
    BY GroupsFinite DEF Groups
  <2>3. skipped(g) \in Nat /\ Len(hits[g]) \in Nat
    <3>1. SkippedBlocks(layout[g], start) \in Nat
      BY <2>2, SkippedBlocksBounds
    <3>2. hits[g] \in Seq(Entries)
      OBVIOUS
    <3>3. Len(hits[g]) \in Nat
      BY <3>2
    <3> QED  BY <3>1, <3>3
  <2>4. Evictable(kv.pool, hits[g], skipped(g)) \in SUBSET Blocks
    <3> DEFINE h == hits[g]
               s == skipped(g)
    <3>1. \A i \in DOMAIN h : h[i] # Null => h[i] \in Blocks
      <4>1. h \in Seq(Entries)
        OBVIOUS
      <4> HIDE DEF h
      <4> QED  BY <4>1 DEF Entries
    <3> HIDE DEF h, s
    <3>2. Evictable(kv.pool, h, s) \in SUBSET Blocks
      BY <3>1 DEF Evictable
    <3> QED  BY <3>2 DEF h, s
  <2>5. idle[g] \in Nat
    BY <2>4, BlocksAreNat, FS_Subset, FS_CardinalityType
  <2> HIDE DEF skipped, idle
  <2> QED  BY <2>1, <2>3, <2>5 DEF Greatest
<1>3. ASSUME NEW g \in Groups
      PROVE  all[g] = IF wait(g) THEN NumGpuBlocks + 1 ELSE idle[g] + need[g]
  <2>1. num_required_blocks(layout[g], n, FALSE) = cdiv(n, BlockSize)
    BY DEF num_required_blocks
  <2> DEFINE a == Greatest(cdiv(n, BlockSize) - Greatest(skipped(g), Len(hits[g])), 0)
             c == Cardinality(Evictable(kv.pool, hits[g], skipped(g)))
  <2>2. all[g] = IF wait(g) THEN NumGpuBlocks + 1 ELSE a + c
    <3>1. all[g] = blocks_to_allocate(kv, r, g, n, hits[g], start, FALSE)
      OBVIOUS
    <3> HIDE DEF all
    <3> QED  BY <2>1, <3>1 DEF blocks_to_allocate, Evictable
  <2>3. a = need[g] /\ c = idle[g]
    OBVIOUS
  <2>4. a + c = idle[g] + need[g]
    <3> HIDE DEF need, idle, a, c
    <3> QED  BY <1>2, <2>3
  <2> HIDE DEF need, idle, a, c, all, wait
  <2> QED  BY <2>2, <2>4
<1> HIDE DEF need, idle, wait
<1>4. all \in [Groups -> Nat] /\ sum \in [Groups -> Nat]
  <2>1. NumGpuBlocks + 1 \in Nat
    BY PoolAssumption DEF PoolAssumption
  <2>2. \A g \in Groups : idle[g] + need[g] \in Nat
    BY <1>2
  <2>3. \A g \in Groups : all[g] \in Nat
    BY <1>3, <2>1, <2>2
  <2>4. all = [g \in Groups |-> all[g]]
    OBVIOUS
  <2> HIDE DEF all
  <2> QED  BY <2>2, <2>3, <2>4
<1>5. get_num_blocks_to_allocate(kv, r, n, hits, start, FALSE) = Total(all)
  BY SumIsTotal DEF get_num_blocks_to_allocate
<1>6. Total(all) + w <= Len(kv.pool.free_block_queue)
  BY <1>5 DEF SlotsFit, n, get_num_free_blocks
<1> HIDE DEF all, sum
<1>7. /\ Len(kv.pool.free_block_queue) \in Nat
      /\ Len(kv.pool.free_block_queue) <= NumGpuBlocks - 1
  BY FreeBlocksBound DEF Sound, HybridType
<1>8. \A g \in Groups : Total(all) \in Nat /\ all[g] \in Nat /\ all[g] <= Total(all)
  BY <1>4, GroupsFinite, TotalAtLeast
<1>9. Total(all) \in Nat
  <2>1. /\ Total(all) = TotalOf(all, Groups)[Groups]
        /\ \A s \in SUBSET Groups : TotalOf(all, Groups)[s] \in Nat
    BY <1>4, GroupsFinite, TotalFacts
  <2>2. Groups \in SUBSET Groups
    OBVIOUS
  <2> QED  BY <2>1, <2>2
<1>10. \A g \in Groups : ~wait(g)
  <2> SUFFICES ASSUME NEW g \in Groups, wait(g) PROVE FALSE
    OBVIOUS
  <2>1. NumGpuBlocks \in Nat
    BY PoolAssumption DEF PoolAssumption
  <2> QED  BY <1>3, <1>6, <1>7, <1>8, <2>1
<1>11. all = sum
  <2>1. \A g \in Groups : all[g] = sum[g]
    BY <1>3, <1>10 DEF sum
  <2> QED  BY <1>4, <2>1
<1>12. Total(sum) <= Len(kv.pool.free_block_queue)
  BY <1>6, <1>7, <1>9, <1>11
<1>13. need \in [Groups -> Nat] /\ idle \in [Groups -> Nat]
  <2>1. need = [g \in Groups |-> need[g]] /\ idle = [g \in Groups |-> idle[g]]
    BY DEF need, idle
  <2> QED  BY <1>2, <2>1
<1> QED  BY <1>12, <1>13 DEF need, idle, sum, n

----------------------------------------------------------------------------
(* What a lookup returns *)

(* There is a run to choose: up to the first place that is not cached. *)
LEMMA RunFromFacts ==
  ASSUME NEW kind, NEW tk, NEW s \in Nat, NEW n \in Nat, s <= n
  PROVE  /\ RunFrom(kind, tk, s, n) \in s .. n
         /\ \A i \in s + 1 .. RunFrom(kind, tk, s, n) : HitAt(kind, tk, i)
         /\ RunFrom(kind, tk, s, n) < n => ~HitAt(kind, tk, RunFrom(kind, tk, s, n) + 1)
<1> DEFINE Run(k) == /\ \A i \in s + 1 .. k : HitAt(kind, tk, i)
                     /\ k < n => ~HitAt(kind, tk, k + 1)
           Bad == {i \in s + 1 .. n : ~HitAt(kind, tk, i)}
<1>1. \E k \in s .. n : Run(k)
  <2>1. CASE Bad = {}
    <3>1. n \in s .. n /\ Run(n)
      BY <2>1
    <3> QED  BY <3>1
  <2>2. CASE Bad # {}
    <3>1. Bad \subseteq Nat
      OBVIOUS
    <3>2. PICK i \in Bad : \A j \in Bad : i <= j
      <4> HIDE DEF Bad
      <4> QED  BY <2>2, <3>1, LeastNatural
    <3>3. i - 1 \in s .. n /\ (i - 1) + 1 = i
      BY <3>2
    <3>4. \A j \in s + 1 .. i - 1 : HitAt(kind, tk, j)
      <4> SUFFICES ASSUME NEW j \in s + 1 .. i - 1, ~HitAt(kind, tk, j) PROVE FALSE
        OBVIOUS
      <4>1. j \in Bad /\ ~(i <= j)
        BY <3>2
      <4> QED  BY <3>2, <4>1
    <3>5. Run(i - 1)
      BY <3>2, <3>3, <3>4
    <3> QED  BY <3>3, <3>5
  <2> QED  BY <2>1, <2>2
<1>2. RunFrom(kind, tk, s, n) = CHOOSE k \in s .. n : Run(k)
  BY DEF RunFrom
<1> DEFINE c == RunFrom(kind, tk, s, n)
<1> HIDE DEF c
<1>3. c \in s .. n /\ Run(c)
  <2> HIDE DEF Run
  <2> QED  BY <1>1, <1>2 DEF c
<1> QED  BY <1>3 DEF c

LEMMA MaxIsIn ==
  ASSUME NEW n \in Nat, NEW S, S \subseteq 0 .. n, S # {}
  PROVE  Max(S) \in S /\ \A y \in S : y <= Max(S)
<1> DEFINE R == {n - e : e \in S}
<1>1. R \subseteq Nat /\ R # {}
  <2>1. \A e \in S : e \in 0 .. n
    OBVIOUS
  <2>2. \A e \in S : n - e \in Nat
    BY <2>1
  <2> QED  BY <2>2
<1>2. PICK x \in R : \A y \in R : x <= y
  <2> HIDE DEF R
  <2> QED  BY <1>1, LeastNatural
<1>3. PICK e \in S : x = n - e
  BY <1>2
<1>4. \A y \in S : e >= y
  <2> SUFFICES ASSUME NEW y \in S PROVE e >= y
    OBVIOUS
  <2>1. n - e <= n - y
    BY <1>2, <1>3
  <2>2. e \in 0 .. n /\ y \in 0 .. n
    OBVIOUS
  <2> QED  BY <2>1, <2>2
<1> QED  BY <1>4 DEF Max

(* A hit of one kind: as long as the tokens, real where it is cached. *)
HitRecords == [len : Nat, real : SUBSET Nat]

Usable(kind, tk, hit) ==
    /\ hit \in HitRecords
    /\ hit.len * BlockSize <= Len(tk)
    /\ \A i \in hit.real : i * BlockSize <= Len(tk) /\ HitAt(kind, tk, i)

(* Blocks up to the n-th end within the tokens. *)
LEMMA Within ==
  ASSUME NEW tk \in Seq(Token), NEW n \in Nat, n * BlockSize <= Len(tk), NEW i \in Nat, i <= n
  PROVE  i * BlockSize <= Len(tk)
<1> DEFINE a == i * BlockSize
           b == n * BlockSize
<1>1. a \in Nat /\ b \in Nat /\ a <= b
  BY Parameters, TimesMonotonic
<1>2. Len(tk) \in Nat /\ b <= Len(tk)
  OBVIOUS
<1> HIDE DEF a, b
<1>3. a <= Len(tk)
  BY <1>1, <1>2
<1> QED  BY <1>3 DEF a

LEMMA UsableHit ==
  ASSUME NEW kind, NEW tk \in Seq(Token), NEW n \in Nat, n * BlockSize <= Len(tk),
         NEW l \in 0 .. n, NEW R, R \subseteq 0 .. n, \A i \in R : HitAt(kind, tk, i)
  PROVE  Usable(kind, tk, [len |-> l, real |-> R])
<1>1. l * BlockSize <= Len(tk) /\ \A i \in R : i * BlockSize <= Len(tk)
  BY Within
<1>2. [len |-> l, real |-> R] \in HitRecords
  BY DEF HitRecords
<1> QED  BY <1>1, <1>2 DEF Usable

LEMMA FindIsUsable ==
  ASSUME NEW kind \in Kinds, NEW tk \in Seq(Token), NEW m \in Nat, m <= Len(tk)
  PROVE  Usable(kind, tk, find_in(kind, tk, m))
<1> DEFINE n == Least(m, Len(tk)) \div BlockSize
<1>1. Len(tk) \in Nat /\ Least(m, Len(tk)) = m
  BY DEF Least
<1>2. n \in Nat /\ n * BlockSize <= m /\ n = m \div BlockSize
  BY <1>1, Parameters, DivBounds
<1>3. n * BlockSize <= Len(tk)
  <2> DEFINE b == n * BlockSize
  <2> HIDE DEF n
  <2>1. b \in Nat /\ b <= m
    BY <1>2, Parameters
  <2> HIDE DEF b
  <2>2. b <= Len(tk)
    BY <1>1, <2>1
  <2> QED  BY <2>2 DEF b
<1> HIDE DEF n
<1>4. CASE kind = "full"
  <2> DEFINE k == RunFrom("full", tk, 0, n)
  <2>1. k \in 0 .. n /\ \A i \in 0 + 1 .. k : HitAt("full", tk, i)
    BY <1>2, RunFromFacts
  <2> HIDE DEF k
  <2>2. 1 .. k \subseteq 0 .. n /\ \A i \in 1 .. k : HitAt("full", tk, i)
    BY <1>2, <2>1
  <2>3. find_in(kind, tk, m) = [len |-> k, real |-> 1 .. k]
    BY <1>4 DEF find_in, full_find, n, k
  <2> QED  BY <1>2, <1>3, <1>4, <2>1, <2>2, <2>3, UsableHit
<1>5. CASE kind = "sliding"
  <2> DEFINE c == contiguous_blocks_for_hit
             ends == {e \in c .. n : \A i \in e - c + 1 .. e : HitAt("sliding", tk, i)}
             k == RunFrom("sliding", tk, 0, n)
             x == Max(ends)
  <2>1. k \in 0 .. n /\ \A i \in 0 + 1 .. k : HitAt("sliding", tk, i)
    BY <1>2, RunFromFacts
  <2>2. c \in Nat
    <3>1. SlidingWindow - 1 \in Nat
      BY Parameters
    <3> QED  BY <3>1, Parameters, CdivBounds DEF contiguous_blocks_for_hit
  <2> HIDE DEF k, c
  <2>3. find_in(kind, tk, m) = IF ends = {} THEN [len |-> k, real |-> 1 .. k]
                               ELSE [len |-> x, real |-> x - c + 1 .. x]
    BY <1>5 DEF find_in, sliding_find, n, k, c
  <2>4. CASE ends = {}
    <3>1. 1 .. k \subseteq 0 .. n /\ \A i \in 1 .. k : HitAt("sliding", tk, i)
      BY <1>2, <2>1
    <3> QED  BY <1>2, <1>3, <1>5, <2>1, <2>3, <2>4, <3>1, UsableHit
  <2>5. CASE ends # {}
    <3>1. ends \subseteq 0 .. n
      BY <1>2, <2>2
    <3>2. x \in ends
      <4> HIDE DEF ends
      <4> QED  BY <1>2, <2>5, <3>1, MaxIsIn
    <3> HIDE DEF x
    <3>3. /\ x \in c .. n /\ x \in 0 .. n
          /\ \A i \in x - c + 1 .. x : HitAt("sliding", tk, i)
      BY <3>1, <3>2
    <3>4. x - c + 1 .. x \subseteq 0 .. n
      BY <1>2, <2>2, <3>3
    <3> HIDE DEF ends
    <3> QED  BY <1>2, <1>3, <1>5, <2>3, <2>5, <3>3, <3>4, UsableHit
  <2> QED  BY <2>4, <2>5
<1>6. CASE kind = "chunked"
  <2> DEFINE s == SkippedBlocks("chunked", m)
             k == RunFrom("chunked", tk, s, n)
  <2>1. s \in Nat /\ s <= n
    <3> DEFINE t == get_num_skipped_tokens("chunked", m)
    <3>1. /\ s \in Nat /\ s * BlockSize <= t /\ t \in Nat
      BY SkippedBlocksBounds, SkippedIsNat DEF Kinds
    <3>2. t <= m
      <4> DEFINE q == m \div ChunkSize
      <4>1. q \in Nat /\ q * ChunkSize <= m
        BY Parameters, DivBounds
      <4> QED  BY <4>1 DEF get_num_skipped_tokens
    <3>3. m < n * BlockSize + BlockSize
      BY <1>2, Parameters, DivBounds
    <3> DEFINE a == s * BlockSize
               b == n * BlockSize
    <3> HIDE DEF s, t
    <3>4. a \in Nat /\ b \in Nat
      BY <1>2, <3>1, Parameters
    <3>5. a < b + BlockSize
      <4>1. a <= t /\ m < b + BlockSize
        BY <3>1, <3>3
      <4> HIDE DEF a, b
      <4> QED  BY <3>1, <3>2, <3>4, <4>1, Parameters
    <3>6. s <= n
      BY <1>2, <3>1, <3>5, Parameters, TimesCancels
    <3> QED  BY <3>1, <3>6
  <2>2. k \in s .. n /\ \A i \in s + 1 .. k : HitAt("chunked", tk, i)
    <3> HIDE DEF s
    <3> QED  BY <1>2, <2>1, RunFromFacts
  <2> HIDE DEF k, s
  <2>3. find_in(kind, tk, m) = [len |-> k, real |-> s + 1 .. k]
    BY <1>6 DEF find_in, chunked_find, n, k, s
  <2>4. k \in 0 .. n /\ s + 1 .. k \subseteq 0 .. n
    BY <1>2, <2>1, <2>2
  <2> QED  BY <1>2, <1>3, <1>6, <2>2, <2>3, <2>4, UsableHit
<1>7. CASE kind = "mamba"
  <2> DEFINE states == {i \in 1 .. n : HitAt("mamba", tk, i)}
             x == Max(states)
  <2>1. find_in(kind, tk, m) = IF states = {} THEN NoHit ELSE [len |-> x, real |-> {x}]
    BY <1>7 DEF find_in, mamba_find, n
  <2>2. CASE states = {}
    <3>1. 0 \in 0 .. n /\ {} \subseteq 0 .. n
      BY <1>2
    <3> HIDE DEF states
    <3>2. find_in(kind, tk, m) = [len |-> 0, real |-> {}]
      BY <2>1, <2>2 DEF NoHit
    <3> QED  BY <1>2, <1>3, <3>1, <3>2, UsableHit
  <2>3. CASE states # {}
    <3>1. states \subseteq 0 .. n
      BY <1>2
    <3>2. x \in states
      <4> HIDE DEF states
      <4> QED  BY <1>2, <2>3, <3>1, MaxIsIn
    <3> HIDE DEF x
    <3>3. x \in 0 .. n /\ {x} \subseteq 0 .. n /\ \A i \in {x} : HitAt("mamba", tk, i)
      BY <3>1, <3>2
    <3> HIDE DEF states
    <3> QED  BY <1>2, <1>3, <1>7, <2>1, <2>3, <3>3, UsableHit
  <2> QED  BY <2>2, <2>3
<1> QED  BY <1>4, <1>5, <1>6, <1>7 DEF Kinds

(* The specs looked up are the kinds of the model. *)
LEMMA AttentionGroupsType ==
  ASSUME layout \in Layouts
  PROVE  /\ attention_groups \in Seq(Kinds)
         /\ \A g \in Groups : \E i \in 1 .. Len(attention_groups) : attention_groups[i] = layout[g]
         /\ \A i \in 1 .. Len(attention_groups) : \E g \in Groups : layout[g] = attention_groups[i]
<1> DEFINE l == layout
           D == DOMAIN l
           groups == [g \in D |-> g]
           first == {g \in D : \A h \in 1 .. g - 1 : l[h] # l[g]}
           fulls == {g \in first : l[g] = "full"}
           a == Keep(groups, fulls)
           b == Keep(groups, first \ fulls)
           order == a \o b
<1>1. l \in Seq(Kinds) /\ D = 1 .. Len(l) /\ Len(l) \in Nat
  BY GroupsFinite
<1>2. attention_groups = [i \in DOMAIN order |-> l[order[i]]]
  BY DEF attention_groups, AttentionGroups, attention_groups_of
<1>3. groups \in Seq(D)
  BY <1>1
<1>8. \A g \in D : \E h \in first : l[h] = l[g]
  <2> SUFFICES ASSUME NEW g \in D PROVE \E h \in first : l[h] = l[g]
    OBVIOUS
  <2> DEFINE same == {h \in D : l[h] = l[g]}
  <2>1. same \subseteq Nat /\ same # {}
    BY <1>1
  <2>2. PICK h \in same : \A j \in same : h <= j
    <3> HIDE DEF same
    <3> QED  BY <2>1, LeastNatural
  <2>3. \A j \in 1 .. h - 1 : j \in D /\ ~(h <= j)
    BY <1>1
  <2>4. \A j \in 1 .. h - 1 : l[j] # l[h]
    BY <2>2, <2>3
  <2> QED  BY <2>2, <2>4
<1>9. Range(groups) = D /\ fulls \subseteq first /\ first \subseteq D
  BY DEF Range
<1> HIDE DEF groups, first, fulls, D
<1>4. /\ a \in Seq(D) /\ b \in Seq(D)
      /\ Range(a) = Range(groups) \cap fulls /\ Range(b) = Range(groups) \cap (first \ fulls)
  BY <1>3, KeepFacts
<1> HIDE DEF a, b
<1>5. order \in Seq(D) /\ Range(order) = Range(a) \cup Range(b)
  BY <1>4, ConcatFacts
<1> HIDE DEF order
<1>10. \A g \in D : \E i \in DOMAIN order : l[order[i]] = l[g]
  <2> SUFFICES ASSUME NEW g \in D PROVE \E i \in DOMAIN order : l[order[i]] = l[g]
    OBVIOUS
  <2>1. PICK h \in first : l[h] = l[g]
    BY <1>8
  <2>2. h \in Range(order)
    BY <1>4, <1>5, <1>9
  <2> QED  BY <2>1, <2>2 DEF Range
<1>6. Len(order) \in Nat /\ DOMAIN order = 1 .. Len(order)
      /\ \A i \in 1 .. Len(order) : order[i] \in D
  BY <1>5
<1>7. \A i \in 1 .. Len(order) : l[order[i]] \in Kinds
  BY <1>1, <1>6 DEF D
<1>11. D = Groups
  BY DEF D, Groups
<1> HIDE DEF l
<1>12. DOMAIN attention_groups = 1 .. Len(order) /\ Len(attention_groups) = Len(order)
  BY <1>2, <1>6
<1>13. \A i \in 1 .. Len(order) : attention_groups[i] = l[order[i]]
  BY <1>2, <1>6
<1> QED  BY <1>2, <1>6, <1>7, <1>10, <1>11, <1>12, <1>13 DEF l

----------------------------------------------------------------------------
(* How long a hit is *)

LEMMA QuotientIs ==
  ASSUME NEW p \in Nat, NEW d \in Nat \ {0}, NEW i \in Nat, i * d <= p, p < i * d + d
  PROVE  p \div d = i
<1> DEFINE q == p \div d
<1>1. q \in Nat /\ q * d <= p /\ p < q * d + d
  BY DivBounds
<1> HIDE DEF q
<1> DEFINE a == q * d
           b == i * d
<1>2. a \in Nat /\ b \in Nat /\ a < b + d /\ b < a + d
  <2>1. a \in Nat /\ b \in Nat /\ a <= p /\ p < a + d /\ b <= p /\ p < b + d
    BY <1>1
  <2> HIDE DEF a, b
  <2> QED  BY <2>1
<1>3. q <= i /\ i <= q
  BY <1>1, <1>2, TimesCancels
<1> QED  BY <1>1, <1>3 DEF q

(* The first and the last position of a block are in it. *)
LEMMA PositionsOfBlock ==
  ASSUME NEW n \in Nat, NEW i \in 1 .. n
  PROVE  /\ i * BlockSize \in Nat /\ (i - 1) * BlockSize \in Nat
         /\ i * BlockSize - 1 \in Nat
         /\ i * BlockSize = (i - 1) * BlockSize + BlockSize
         /\ i * BlockSize <= n * BlockSize
         /\ ((i - 1) * BlockSize) \div BlockSize + 1 = i
         /\ (i * BlockSize - 1) \div BlockSize + 1 = i
<1> DEFINE a == (i - 1) * BlockSize
           b == i * BlockSize
<1>1. a \in Nat /\ b \in Nat /\ b = a + BlockSize /\ i - 1 \in Nat
  BY Parameters
<1>2. b <= n * BlockSize
  BY Parameters, TimesMonotonic
<1>3. a \div BlockSize = i - 1
  <2>1. (i - 1) * BlockSize <= a /\ a < (i - 1) * BlockSize + BlockSize
    BY <1>1, Parameters
  <2> QED  BY <1>1, <2>1, Parameters, QuotientIs
<1>4. b - 1 \in Nat /\ (b - 1) \div BlockSize = i - 1
  <2> DEFINE c == b - 1
  <2>1. c \in Nat /\ (i - 1) * BlockSize <= c /\ c < (i - 1) * BlockSize + BlockSize
    <3>1. (i - 1) * BlockSize = a
      OBVIOUS
    <3> HIDE DEF a, b
    <3> QED  BY <1>1, <3>1, Parameters
  <2> HIDE DEF c
  <2>2. c \div BlockSize = i - 1
    BY <1>1, <2>1, Parameters, QuotientIs
  <2> QED  BY <2>1, <2>2 DEF c
<1>5. a \div BlockSize + 1 = i /\ (b - 1) \div BlockSize + 1 = i
  BY <1>3, <1>4
<1> QED  BY <1>1, <1>2, <1>4, <1>5

(* Of n blocks, those that what follows them reads. *)
ReadBehind(kind, n) == BlocksOf(Reads(kind, n * BlockSize)) \cap 1 .. n

CachedFor(kind, tk, n) == \A i \in ReadBehind(kind, n) : HitAt(kind, tk, i)

(* A hit is real wherever what follows it reads; one of full attention,    *)
(* wherever what follows a shorter one does.                               *)
Serves(kind, h) ==
    /\ ReadBehind(kind, h.len) \subseteq h.real
    /\ kind = "full" => h.real = 1 .. h.len

Longest(kind, tk, m, h) ==
    /\ h.len * BlockSize <= m
    /\ \A q \in Nat : q * BlockSize <= m /\ CachedFor(kind, tk, q) => q <= h.len

LEMMA ReadsBlock ==
  ASSUME NEW kind, NEW n \in Nat, NEW i \in 1 .. n, NEW p \in Nat,
         p \div BlockSize + 1 = i, p \in Reads(kind, n * BlockSize)
  PROVE  i \in ReadBehind(kind, n)
BY DEF ReadBehind, BlocksOf

LEMMA FullReads ==
  ASSUME NEW n \in Nat, NEW i \in 1 .. n
  PROVE  i \in ReadBehind("full", n)
<1> DEFINE p == (i - 1) * BlockSize
           b == n * BlockSize
<1>1. p \in Nat /\ p \div BlockSize + 1 = i /\ b \in Nat /\ p <= b
  <2>1. /\ p \in Nat /\ p \div BlockSize + 1 = i
        /\ i * BlockSize \in Nat
        /\ i * BlockSize = p + BlockSize /\ i * BlockSize <= b
    BY PositionsOfBlock
  <2>2. b \in Nat
    BY Parameters
  <2> DEFINE e == i * BlockSize
  <2> HIDE DEF p, b, e
  <2>3. p <= b
    BY <2>1, <2>2, Parameters DEF e
  <2> QED  BY <2>1, <2>2, <2>3
<1>2. p \in Reads("full", b)
  <2> HIDE DEF p, b
  <2> QED  BY <1>1 DEF Reads
<1> QED  BY <1>1, <1>2, ReadsBlock

(* The window reaches into as many blocks as a hit of the group needs. *)
LEMMA WindowReads ==
  ASSUME NEW n \in Nat, NEW i \in 1 .. n
  PROVE  i \in ReadBehind("sliding", n) <=> i >= n - contiguous_blocks_for_hit + 1
<1> DEFINE c == contiguous_blocks_for_hit
           p == i * BlockSize - 1
           b == n * BlockSize
           d == (n - i) * BlockSize
<1>1. /\ c \in Nat /\ SlidingWindow - 1 <= c * BlockSize
      /\ (c - 1) * BlockSize < SlidingWindow - 1
  <2>1. SlidingWindow - 1 \in Nat
    BY Parameters
  <2> QED  BY <2>1, Parameters, CdivBounds DEF contiguous_blocks_for_hit
<1> HIDE DEF c
<1>2. /\ p \in Nat /\ p \div BlockSize + 1 = i
      /\ i * BlockSize <= b /\ i * BlockSize \in Nat
  BY PositionsOfBlock
<1>3. b \in Nat /\ d \in Nat /\ d = b - i * BlockSize /\ n - i \in Nat
  BY Parameters
<1>4. CASE i >= n - c + 1
  <2>1. n - i <= c - 1 /\ c - 1 \in Nat
    BY <1>1, <1>3, <1>4
  <2>2. d <= (c - 1) * BlockSize
    BY <1>3, <2>1, Parameters, TimesMonotonic
  <2>3. d < SlidingWindow - 1
    <3> DEFINE e == (c - 1) * BlockSize
    <3>1. e \in Nat /\ e < SlidingWindow - 1 /\ d <= e
      BY <1>1, <2>1, <2>2, Parameters
    <3> HIDE DEF e, d
    <3> QED  BY <1>3, <3>1, Parameters
  <2>4. p \in 0 .. b /\ b - p < SlidingWindow
    <3> DEFINE e == i * BlockSize
    <3>1. e \in Nat /\ p = e - 1 /\ d = b - e /\ e <= b
      BY <1>2, <1>3
    <3> HIDE DEF e, d, p, b
    <3> QED  BY <1>2, <1>3, <2>3, <3>1, Parameters
  <2>5. p \in Reads("sliding", b)
    <3> HIDE DEF p, b
    <3> QED  BY <2>4 DEF Reads
  <2>6. i \in ReadBehind("sliding", n)
    <3> HIDE DEF p
    <3> QED  BY <1>2, <2>5, ReadsBlock
  <2> QED  BY <1>4, <2>6 DEF c
<1>5. CASE ~(i >= n - c + 1)
  <2> SUFFICES ASSUME i \in ReadBehind("sliding", n) PROVE FALSE
    BY <1>5 DEF c
  <2>1. PICK x \in Reads("sliding", b) : i = x \div BlockSize + 1
    BY DEF ReadBehind, BlocksOf
  <2>2. x \in 0 .. b /\ b - x < SlidingWindow
    <3> HIDE DEF b
    <3> QED  BY <2>1 DEF Reads
  <2>3. x < i * BlockSize
    <3> DEFINE y == x \div BlockSize
    <3>1. y \in Nat /\ x < y * BlockSize + BlockSize
      BY <1>3, <2>2, Parameters, DivBounds
    <3>2. i = y + 1
      BY <2>1
    <3> HIDE DEF y
    <3>3. i * BlockSize = y * BlockSize + BlockSize
      BY <3>1, <3>2, Parameters
    <3> QED  BY <3>1, <3>3
  <2>4. d < SlidingWindow - 1
    <3> DEFINE e == i * BlockSize
    <3>1. e \in Nat /\ x < e /\ d = b - e
      BY <1>2, <1>3, <2>3
    <3> HIDE DEF e, d, b
    <3> QED  BY <1>3, <2>2, <3>1, Parameters
  <2>5. d < c * BlockSize
    <3> DEFINE e == c * BlockSize
    <3>1. e \in Nat /\ d \in Nat /\ SlidingWindow - 1 <= e /\ SlidingWindow \in Nat
      BY <1>1, <1>3, Parameters
    <3> HIDE DEF e, d
    <3>2. d < e
      BY <2>4, <3>1
    <3> QED  BY <3>2 DEF e
  <2>6. n - i < c
    BY <1>1, <1>3, <2>5, Parameters, FactorCancels
  <2> QED  BY <1>1, <1>5, <2>6
<1> QED  BY <1>4, <1>5

(* The state after the last block is the one read. *)
LEMMA StateReads ==
  ASSUME NEW n \in Nat
  PROVE  /\ ReadBehind("mamba", n) \subseteq {n}
         /\ n > 0 => n \in ReadBehind("mamba", n)
<1> DEFINE b == n * BlockSize
<1>1. ASSUME NEW i \in ReadBehind("mamba", n) PROVE i = n
  <2>1. PICK x \in Reads("mamba", b) : i = x \div BlockSize + 1
    BY <1>1 DEF ReadBehind, BlocksOf
  <2>2. b \in Nat /\ i \in 1 .. n
    BY <1>1, Parameters DEF ReadBehind
  <2>3. x \in 0 .. b /\ b - x <= 1
    <3> HIDE DEF b
    <3> QED  BY <2>1 DEF Reads
  <2> DEFINE a == (n - 1) * BlockSize
  <2>4. a \in Nat /\ b = a + BlockSize /\ n - 1 \in Nat
    BY <2>2, Parameters
  <2>5. a <= x
    <3> HIDE DEF a, b
    <3> QED  BY <2>2, <2>3, <2>4, Parameters
  <2>6. n - 1 <= x \div BlockSize
    <3> DEFINE y == x \div BlockSize
    <3>1. y \in Nat /\ x < y * BlockSize + BlockSize
      BY <2>2, <2>3, Parameters, DivBounds
    <3> HIDE DEF y
    <3>2. (n - 1) * BlockSize < y * BlockSize + BlockSize
      <4> DEFINE e == y * BlockSize
      <4>1. e \in Nat /\ x < e + BlockSize
        BY <3>1, Parameters
      <4> HIDE DEF e
      <4>2. a < e + BlockSize
        <5> HIDE DEF a
        <5> QED  BY <2>2, <2>3, <2>4, <2>5, <4>1, Parameters
      <4> QED  BY <4>2 DEF e
    <3> QED  BY <2>4, <3>1, <3>2, Parameters, TimesCancels DEF y
  <2> DEFINE y == x \div BlockSize
  <2>7. y \in Nat /\ i = y + 1 /\ n - 1 <= y
    BY <2>1, <2>2, <2>3, <2>6, Parameters, DivBounds
  <2> HIDE DEF y
  <2> QED  BY <2>2, <2>7
<1>2. ASSUME n > 0 PROVE n \in ReadBehind("mamba", n)
  <2> DEFINE p == n * BlockSize - 1
  <2>1. n \in 1 .. n /\ p \in Nat /\ p \div BlockSize + 1 = n
    BY <1>2, PositionsOfBlock
  <2>2. b \in Nat /\ p \in 0 .. b /\ b - p <= 1
    <3>1. b \in Nat /\ p = b - 1
      BY Parameters
    <3> HIDE DEF b, p
    <3> QED  BY <2>1, <3>1
  <2>3. p \in Reads("mamba", b)
    <3> HIDE DEF b, p
    <3> QED  BY <2>2 DEF Reads
  <2> HIDE DEF p
  <2> QED  BY <2>1, <2>3, ReadsBlock
<1> QED  BY <1>1, <1>2

(* Positions of one chunk. *)
LEMMA SameChunk ==
  ASSUME NEW m \in Nat, NEW p \in Nat, get_num_skipped_tokens("chunked", m) <= p, p <= m
  PROVE  p \div ChunkSize = m \div ChunkSize
<1> DEFINE q == m \div ChunkSize
           a == q * ChunkSize
<1>1. q \in Nat /\ a <= m /\ m < a + ChunkSize
  BY Parameters, DivBounds
<1>2. a <= p
  BY DEF get_num_skipped_tokens
<1>3. a \in Nat
  BY <1>1, Parameters
<1> HIDE DEF q, a
<1>4. p < a + ChunkSize
  BY <1>1, <1>3, Parameters
<1>5. q * ChunkSize <= p /\ p < q * ChunkSize + ChunkSize
  BY <1>2, <1>4 DEF a
<1>6. p \div ChunkSize = q
  BY <1>1, <1>5, Parameters, QuotientIs
<1> QED  BY <1>6 DEF q

(* Of n blocks behind which a lookup of m tokens still is in the chunk     *)
(* that m is in, those from the chunk's beginning on are read.             *)
LEMMA ChunkReads ==
  ASSUME NEW m \in Nat, NEW n \in Nat, n * BlockSize <= m,
         SkippedBlocks("chunked", m) <= n, NEW i \in 1 .. n
  PROVE  i \in ReadBehind("chunked", n) <=> i > SkippedBlocks("chunked", m)
<1> DEFINE s == SkippedBlocks("chunked", m)
           t == get_num_skipped_tokens("chunked", m)
           b == n * BlockSize
<1>1. s \in Nat /\ t \in Nat /\ s * BlockSize = t
  BY SkippedBlocksBounds, SkippedIsNat, ChunksAreAligned DEF Kinds
<1>2. b \in Nat /\ b <= m
  BY Parameters
<1>3. t <= b
  <2> HIDE DEF s, t
  <2>1. s <= n
    BY DEF s
  <2> QED  BY <1>1, <2>1, Parameters, TimesMonotonic
<1>4. b \div ChunkSize = m \div ChunkSize
  <2> HIDE DEF b
  <2> QED  BY <1>2, <1>3, SameChunk
<1> HIDE DEF s
<1>5. CASE i > s
  <2> DEFINE p == (i - 1) * BlockSize
  <2>1. p \in Nat /\ p \div BlockSize + 1 = i /\ i * BlockSize = p + BlockSize
        /\ i * BlockSize <= b /\ i * BlockSize \in Nat
    BY PositionsOfBlock
  <2>2. t <= p
    <3>1. s <= i - 1 /\ i - 1 \in Nat
      BY <1>1, <1>5
    <3> QED  BY <1>1, <3>1, Parameters, TimesMonotonic
  <2>3. p <= b
    <3> DEFINE e == i * BlockSize
    <3> HIDE DEF p, b, e
    <3> QED  BY <1>2, <2>1, Parameters DEF e
  <2> HIDE DEF p, b, t
  <2>4. p <= m
    BY <1>2, <2>1, <2>3
  <2>5. p \div ChunkSize = b \div ChunkSize
    BY <1>4, <2>1, <2>2, <2>4, SameChunk DEF t
  <2>6. p \in Reads("chunked", b)
    BY <1>2, <2>1, <2>3, <2>5 DEF Reads
  <2>7. i \in ReadBehind("chunked", n)
    BY <2>1, <2>6, ReadsBlock DEF b
  <2> QED  BY <1>5, <2>7 DEF s
<1>6. CASE ~(i > s)
  <2> SUFFICES ASSUME i \in ReadBehind("chunked", n) PROVE FALSE
    BY <1>6 DEF s
  <2>1. PICK x \in Reads("chunked", b) : i = x \div BlockSize + 1
    BY DEF ReadBehind, BlocksOf
  <2>2. x \in 0 .. b /\ x \div ChunkSize = b \div ChunkSize
    <3> HIDE DEF b
    <3> QED  BY <2>1 DEF Reads
  <2>3. t <= x
    <3> DEFINE q == x \div ChunkSize
    <3>1. q \in Nat /\ q * ChunkSize <= x
      BY <1>2, <2>2, Parameters, DivBounds
    <3>2. q = m \div ChunkSize
      BY <1>4, <2>2
    <3> HIDE DEF q
    <3>3. t = q * ChunkSize
      BY <3>2 DEF get_num_skipped_tokens
    <3> QED  BY <3>1, <3>3
  <2>4. x < i * BlockSize
    <3> DEFINE y == x \div BlockSize
    <3>1. y \in Nat /\ x < y * BlockSize + BlockSize
      BY <1>2, <2>2, Parameters, DivBounds
    <3>2. i = y + 1
      BY <2>1
    <3> HIDE DEF y
    <3>3. i * BlockSize = y * BlockSize + BlockSize
      BY <3>1, <3>2, Parameters
    <3> QED  BY <3>1, <3>3
  <2>5. i * BlockSize <= s * BlockSize
    <3>1. i <= s
      BY <1>1, <1>6
    <3> QED  BY <1>1, <3>1, Parameters, TimesMonotonic
  <2> DEFINE e == i * BlockSize
  <2>6. e \in Nat /\ x < e /\ e <= t
    BY <1>1, <2>4, <2>5, Parameters
  <2> HIDE DEF e, t
  <2> QED  BY <1>1, <1>2, <2>2, <2>3, <2>6
<1> QED  BY <1>5, <1>6

(* A run reaches as far as what is cached without a gap. *)
LEMMA RunReaches ==
  ASSUME NEW kind, NEW tk, NEW s \in Nat, NEW n \in Nat, s <= n, NEW q \in Nat, q <= n,
         \A i \in s + 1 .. q : HitAt(kind, tk, i)
  PROVE  q <= RunFrom(kind, tk, s, n)
<1> DEFINE k == RunFrom(kind, tk, s, n)
<1>1. k \in s .. n /\ (k < n => ~HitAt(kind, tk, k + 1))
  BY RunFromFacts
<1> HIDE DEF k
<1> SUFFICES ASSUME ~(q <= k) PROVE FALSE
  BY DEF k
<1>2. k < n /\ k + 1 \in s + 1 .. q
  BY <1>1
<1> QED  BY <1>1, <1>2

(* A lookup finds the longest hit of its kind. *)
LEMMA FindIsLongest ==
  ASSUME NEW kind \in Kinds, NEW tk \in Seq(Token), NEW m \in Nat, m <= Len(tk)
  PROVE  Serves(kind, find_in(kind, tk, m)) /\ Longest(kind, tk, m, find_in(kind, tk, m))
<1> DEFINE n == Least(m, Len(tk)) \div BlockSize
           h == find_in(kind, tk, m)
<1>1. Least(m, Len(tk)) = m /\ Len(tk) \in Nat
  BY DEF Least
<1>2. n \in Nat /\ n = m \div BlockSize /\ n * BlockSize <= m /\ m < n * BlockSize + BlockSize
  BY <1>1, Parameters, DivBounds
<1> HIDE DEF n, h
<1>3. \A q \in 0 .. n : q * BlockSize <= m
  <2> SUFFICES ASSUME NEW q \in 0 .. n PROVE q * BlockSize <= m
    OBVIOUS
  <2> DEFINE a == q * BlockSize
             b == n * BlockSize
  <2>1. a \in Nat /\ b \in Nat /\ a <= b
    BY <1>2, Parameters, TimesMonotonic
  <2>2. b <= m
    BY <1>2
  <2> HIDE DEF a, b
  <2>3. a <= m
    BY <2>1, <2>2
  <2> QED  BY <2>3 DEF a
<1>4. \A q \in Nat : q * BlockSize <= m => q <= n
  <2> SUFFICES ASSUME NEW q \in Nat, q * BlockSize <= m PROVE q <= n
    OBVIOUS
  <2> DEFINE a == q * BlockSize
             b == n * BlockSize
  <2>1. a \in Nat /\ b \in Nat /\ a <= m /\ m < b + BlockSize
    BY <1>2, Parameters
  <2> HIDE DEF a, b
  <2>2. a < b + BlockSize
    BY <2>1, Parameters
  <2> QED  BY <1>2, <2>2, Parameters, TimesCancels DEF a, b
<1>5. ASSUME h.len \in 0 .. n, \A q \in 0 .. n : CachedFor(kind, tk, q) => q <= h.len
      PROVE  Longest(kind, tk, m, h)
  <2>1. h.len * BlockSize <= m
    BY <1>3, <1>5
  <2>2. \A q \in Nat : q * BlockSize <= m /\ CachedFor(kind, tk, q) => q \in 0 .. n
    BY <1>2, <1>4
  <2> QED  BY <1>5, <2>1, <2>2 DEF Longest
<1>6. CASE kind = "full"
  <2> DEFINE k == RunFrom("full", tk, 0, n)
  <2>1. k \in 0 .. n
    BY <1>2, RunFromFacts
  <2>2. \A q \in 0 .. n : CachedFor("full", tk, q) => q <= k
    <3> SUFFICES ASSUME NEW q \in 0 .. n, CachedFor("full", tk, q) PROVE q <= k
      OBVIOUS
    <3>1. \A i \in 0 + 1 .. q : HitAt("full", tk, i)
      BY FullReads DEF CachedFor
    <3> QED  BY <1>2, <3>1, RunReaches
  <2> HIDE DEF k
  <2>3. h = [len |-> k, real |-> 1 .. k]
    BY <1>6 DEF h, find_in, full_find, n, k
  <2>4. h.len = k /\ h.real = 1 .. k
    BY <2>3
  <2>5. Serves(kind, h)
    BY <2>4 DEF Serves, ReadBehind
  <2> QED  BY <1>5, <1>6, <2>1, <2>2, <2>4, <2>5 DEF h
<1>7. CASE kind = "sliding"
  <2> DEFINE c == contiguous_blocks_for_hit
             ends == {e \in c .. n : \A i \in e - c + 1 .. e : HitAt("sliding", tk, i)}
             k == RunFrom("sliding", tk, 0, n)
             x == Max(ends)
  <2>1. k \in 0 .. n
    BY <1>2, RunFromFacts
  <2>2. c \in Nat
    <3>1. SlidingWindow - 1 \in Nat
      BY Parameters
    <3> QED  BY <3>1, Parameters, CdivBounds DEF contiguous_blocks_for_hit
  <2>3. \A q \in 0 .. n : q < c /\ CachedFor("sliding", tk, q) => q <= k
    <3> SUFFICES ASSUME NEW q \in 0 .. n, q < c, CachedFor("sliding", tk, q) PROVE q <= k
      OBVIOUS
    <3>1. \A i \in 1 .. q : i >= q - c + 1
      BY <2>2
    <3> HIDE DEF k
    <3>2. \A i \in 0 + 1 .. q : HitAt("sliding", tk, i)
      BY <3>1, WindowReads DEF CachedFor
    <3> QED  BY <1>2, <3>2, RunReaches DEF k
  <2>4. \A q \in 0 .. n : q >= c /\ CachedFor("sliding", tk, q) => q \in ends
    <3> SUFFICES ASSUME NEW q \in 0 .. n, q >= c, CachedFor("sliding", tk, q) PROVE q \in ends
      OBVIOUS
    <3>1. \A i \in q - c + 1 .. q : i \in 1 .. q /\ i >= q - c + 1
      BY <2>2
    <3>2. \A i \in q - c + 1 .. q : HitAt("sliding", tk, i)
      BY <3>1, WindowReads DEF CachedFor
    <3> QED  BY <2>2, <3>2
  <2> HIDE DEF k
  <2>5. h = IF ends = {} THEN [len |-> k, real |-> 1 .. k]
            ELSE [len |-> x, real |-> x - c + 1 .. x]
    BY <1>7 DEF h, find_in, sliding_find, n, k
  <2> HIDE DEF c
  <2>6. CASE ends = {}
    <3> HIDE DEF ends
    <3>1. h.len = k /\ h.real = 1 .. k
      BY <2>5, <2>6
    <3>2. Serves(kind, h)
      BY <1>7, <3>1 DEF Serves, ReadBehind
    <3>3. \A q \in 0 .. n : CachedFor("sliding", tk, q) => q <= k
      <4> SUFFICES ASSUME NEW q \in 0 .. n, CachedFor("sliding", tk, q) PROVE q <= k
        OBVIOUS
      <4>1. q < c
        BY <2>2, <2>4, <2>6
      <4> QED  BY <2>3, <4>1
    <3> QED  BY <1>5, <1>7, <2>1, <3>1, <3>2, <3>3 DEF h
  <2>7. CASE ends # {}
    <3>1. ends \subseteq 0 .. n /\ \A e \in ends : e >= c
      BY <1>2, <2>2
    <3> HIDE DEF ends
    <3>2. x \in ends /\ \A y \in ends : y <= x
      BY <1>2, <2>7, <3>1, MaxIsIn
    <3> HIDE DEF x
    <3>3. h.len = x /\ h.real = x - c + 1 .. x /\ x \in 0 .. n /\ x >= c
      BY <2>5, <2>7, <3>1, <3>2
    <3>4. ReadBehind("sliding", x) \subseteq x - c + 1 .. x
      <4> SUFFICES ASSUME NEW i \in ReadBehind("sliding", x) PROVE i \in x - c + 1 .. x
        OBVIOUS
      <4>1. i \in 1 .. x
        BY DEF ReadBehind
      <4>2. i >= x - c + 1
        BY <3>3, <4>1, WindowReads DEF c
      <4> QED  BY <2>2, <3>3, <4>1, <4>2
    <3>5. Serves(kind, h)
      BY <1>7, <3>3, <3>4 DEF Serves
    <3>6. \A q \in 0 .. n : CachedFor("sliding", tk, q) => q <= x
      <4> SUFFICES ASSUME NEW q \in 0 .. n, CachedFor("sliding", tk, q) PROVE q <= x
        OBVIOUS
      <4>1. CASE q < c
        BY <2>2, <3>3, <4>1
      <4>2. CASE ~(q < c)
        BY <2>2, <2>4, <3>2, <4>2
      <4> QED  BY <4>1, <4>2
    <3> QED  BY <1>5, <1>7, <3>3, <3>5, <3>6 DEF h
  <2> QED  BY <2>6, <2>7
<1>8. CASE kind = "chunked"
  <2> DEFINE s == SkippedBlocks("chunked", m)
             k == RunFrom("chunked", tk, s, n)
  <2>1. s \in Nat /\ s <= n
    <3> DEFINE t == get_num_skipped_tokens("chunked", m)
               q == m \div ChunkSize
    <3>1. s \in Nat /\ s * BlockSize = t
      BY SkippedBlocksBounds, ChunksAreAligned DEF Kinds
    <3>2. q * ChunkSize <= m
      BY Parameters, DivBounds
    <3>3. t <= m
      BY <3>2 DEF get_num_skipped_tokens
    <3> HIDE DEF s, t
    <3> QED  BY <1>4, <3>1, <3>3
  <2>2. k \in s .. n
    <3> HIDE DEF s
    <3> QED  BY <1>2, <2>1, RunFromFacts
  <2>3. h = [len |-> k, real |-> s + 1 .. k]
    BY <1>8 DEF h, find_in, chunked_find, n
  <2>4. \A q \in 0 .. n : CachedFor("chunked", tk, q) => q <= k
    <3> SUFFICES ASSUME NEW q \in 0 .. n, CachedFor("chunked", tk, q) PROVE q <= k
      OBVIOUS
    <3> HIDE DEF k
    <3>1. CASE q <= s
      <4> HIDE DEF s
      <4> QED  BY <2>1, <2>2, <3>1
    <3>2. CASE ~(q <= s)
      <4>1. q * BlockSize <= m /\ s <= q
        BY <1>3, <2>1, <3>2
      <4>2. \A i \in s + 1 .. q : i \in 1 .. q /\ i > s
        BY <2>1
      <4>3. \A i \in s + 1 .. q : HitAt("chunked", tk, i)
        BY <4>1, <4>2, ChunkReads DEF CachedFor
      <4> HIDE DEF s
      <4> QED  BY <1>2, <2>1, <4>3, RunReaches DEF k
    <3> QED  BY <3>1, <3>2
  <2> HIDE DEF k
  <2>5. h.len = k /\ h.real = s + 1 .. k /\ k \in 0 .. n
    BY <2>1, <2>2, <2>3
  <2>6. ReadBehind("chunked", k) \subseteq s + 1 .. k
    <3> SUFFICES ASSUME NEW i \in ReadBehind("chunked", k) PROVE i \in s + 1 .. k
      OBVIOUS
    <3>1. i \in 1 .. k
      BY DEF ReadBehind
    <3>2. k * BlockSize <= m /\ s <= k
      BY <1>3, <2>1, <2>2, <2>5
    <3>3. i > s
      BY <2>5, <3>1, <3>2, ChunkReads
    <3> QED  BY <2>1, <2>5, <3>1, <3>3
  <2>7. Serves(kind, h)
    BY <1>8, <2>5, <2>6 DEF Serves
  <2> QED  BY <1>5, <1>8, <2>4, <2>5, <2>7 DEF h
<1>9. CASE kind = "mamba"
  <2> DEFINE states == {i \in 1 .. n : HitAt("mamba", tk, i)}
             x == Max(states)
  <2>1. h = IF states = {} THEN NoHit ELSE [len |-> x, real |-> {x}]
    BY <1>9 DEF h, find_in, mamba_find, n
  <2>2. \A q \in 0 .. n : CachedFor("mamba", tk, q) /\ q > 0 => q \in states
    BY StateReads DEF CachedFor
  <2>3. CASE states = {}
    <3> HIDE DEF states
    <3>1. h.len = 0
      BY <2>1, <2>3 DEF NoHit
    <3>2. Serves(kind, h)
      BY <1>9, <3>1 DEF Serves, ReadBehind
    <3>3. \A q \in 0 .. n : CachedFor("mamba", tk, q) => q <= 0
      BY <2>2, <2>3
    <3> QED  BY <1>2, <1>5, <1>9, <3>1, <3>2, <3>3 DEF h
  <2>4. CASE states # {}
    <3>1. states \subseteq 0 .. n
      BY <1>2
    <3> HIDE DEF states
    <3>2. x \in states /\ \A y \in states : y <= x
      BY <1>2, <2>4, <3>1, MaxIsIn
    <3> HIDE DEF x
    <3>3. h.len = x /\ h.real = {x} /\ x \in 0 .. n
      BY <2>1, <2>4, <3>1, <3>2
    <3>4. Serves(kind, h)
      BY <1>9, <3>3, StateReads DEF Serves
    <3>5. \A q \in 0 .. n : CachedFor("mamba", tk, q) => q <= x
      <4> SUFFICES ASSUME NEW q \in 0 .. n, CachedFor("mamba", tk, q) PROVE q <= x
        OBVIOUS
      <4> QED  BY <2>2, <3>2, <3>3
    <3> QED  BY <1>5, <1>9, <3>3, <3>4, <3>5 DEF h
  <2> QED  BY <2>3, <2>4
<1> QED  BY <1>6, <1>7, <1>8, <1>9 DEF Kinds

----------------------------------------------------------------------------
(* The passes of a lookup *)

Accs == [length : Nat, hit : [Kinds -> HitRecords]]

(* What a pass has found so far can be used, in every kind. *)
GoodPass(tk) == {acc \in Accs : /\ acc.length <= Len(tk)
                                /\ \A kind \in Kinds : Usable(kind, tk, acc.hit[kind])}

(* Every kind can use q blocks. *)
UsableByAll(tk, q) ==
    \A j \in 1 .. Len(attention_groups) : CachedFor(attention_groups[j], tk, q)

(* After i specs the hits found serve as far as the length, which is that  *)
(* of the last one, and no hit that all can use is longer.                 *)
Passed(tk, l, i) == {acc \in GoodPass(tk) :
    /\ acc.length <= l
    /\ i > 0 => acc.length = acc.hit[attention_groups[i]].len * BlockSize
    /\ \A j \in 1 .. i : LET h == acc.hit[attention_groups[j]]
                        IN  /\ Serves(attention_groups[j], h)
                            /\ acc.length <= h.len * BlockSize /\ h.len * BlockSize <= l
    /\ \A q \in Nat : q * BlockSize <= l /\ UsableByAll(tk, q) => q * BlockSize <= acc.length}

(* All hits serve one length.  Full attention may have found more.         *)
Agreed(acc) ==
    /\ \E n \in Nat : acc.length = n * BlockSize
    /\ \A j \in 1 .. Len(attention_groups) :
           LET kind == attention_groups[j]
               h    == acc.hit[kind]
           IN  /\ Serves(kind, h)
               /\ acc.length <= h.len * BlockSize
               /\ kind = "full" \/ acc.length = h.len * BlockSize

Final(tk, l) == {acc \in GoodPass(tk) :
    /\ Agreed(acc)
    /\ \A q \in Nat : q * BlockSize <= l /\ UsableByAll(tk, q) => q * BlockSize <= acc.length}

PassStep(tk, acc, i) == TakeHit(acc, attention_groups[i],
                                find_in(attention_groups[i], tk, acc.length))

NoHitsYet(l) == [length |-> l, hit |-> [k \in Kinds |-> NoHit]]

PassedUpTo(tk, l) ==
    CHOOSE f : f = [i \in 0 .. Len(attention_groups) |->
                       IF i = 0 THEN NoHitsYet(l) ELSE PassStep(tk, f[i - 1], i)]

LEMMA PassStepGood ==
  ASSUME layout \in Layouts, NEW tk \in Seq(Token), NEW acc \in GoodPass(tk),
         NEW i \in 1 .. Len(attention_groups)
  PROVE  PassStep(tk, acc, i) \in GoodPass(tk)
<1> DEFINE kind == attention_groups[i]
           h == find_in(kind, tk, acc.length)
           y == [length |-> h.len * BlockSize, hit |-> [acc.hit EXCEPT ![kind] = h]]
<1>1. kind \in Kinds
  BY AttentionGroupsType
<1>2. /\ acc.length \in Nat /\ acc.length <= Len(tk) /\ acc.hit \in [Kinds -> HitRecords]
      /\ \A q \in Kinds : Usable(q, tk, acc.hit[q])
  BY DEF GoodPass, Accs
<1>3. PassStep(tk, acc, i) = y
  BY DEF PassStep, TakeHit
<1> HIDE DEF kind
<1>4. Usable(kind, tk, h)
  BY <1>1, <1>2, FindIsUsable
<1> HIDE DEF h
<1>5. h \in HitRecords /\ h.len \in Nat /\ h.len * BlockSize <= Len(tk)
  BY <1>4 DEF Usable, HitRecords
<1>6. h.len * BlockSize \in Nat
  BY <1>5, Parameters
<1> DEFINE hit2 == [acc.hit EXCEPT ![kind] = h]
<1>7. hit2 \in [Kinds -> HitRecords] /\ \A q \in Kinds : Usable(q, tk, hit2[q])
  BY <1>1, <1>2, <1>4, <1>5
<1> HIDE DEF hit2
<1>8. y = [length |-> h.len * BlockSize, hit |-> hit2]
  BY DEF hit2
<1> HIDE DEF y
<1>9. y \in GoodPass(tk)
  BY <1>5, <1>6, <1>7, <1>8 DEF GoodPass, Accs
<1> QED  BY <1>3, <1>9

LEMMA PassStepPasses ==
  ASSUME layout \in Layouts, NEW tk \in Seq(Token), NEW l \in 0 .. Len(tk),
         NEW i \in 1 .. Len(attention_groups), NEW acc \in Passed(tk, l, i - 1)
  PROVE  PassStep(tk, acc, i) \in Passed(tk, l, i)
<1> DEFINE kind == attention_groups[i]
           m == acc.length
           h == find_in(kind, tk, m)
           y == PassStep(tk, acc, i)
<1>1. /\ acc \in GoodPass(tk) /\ m \in Nat /\ m <= Len(tk) /\ m <= l /\ l \in Nat
      /\ acc.hit \in [Kinds -> HitRecords]
      /\ \A j \in 1 .. i - 1 : LET g == acc.hit[attention_groups[j]]
                              IN  /\ Serves(attention_groups[j], g)
                                  /\ m <= g.len * BlockSize /\ g.len * BlockSize <= l
      /\ \A q \in Nat : q * BlockSize <= l /\ UsableByAll(tk, q) => q * BlockSize <= m
  BY DEF Passed, GoodPass, Accs
<1>2. attention_groups \in Seq(Kinds) /\ kind \in Kinds /\ i \in Nat
  BY AttentionGroupsType
<1>3. y \in GoodPass(tk)
  BY <1>1, PassStepGood
<1>4. y.length = h.len * BlockSize /\ y.hit = [acc.hit EXCEPT ![kind] = h]
  BY DEF PassStep, TakeHit
<1>5. Serves(kind, h) /\ Longest(kind, tk, m, h) /\ Usable(kind, tk, h)
  BY <1>1, <1>2, FindIsLongest, FindIsUsable
<1> HIDE DEF y, h
<1>6. y.length <= m /\ y.length \in Nat /\ h.len \in Nat
  BY <1>3, <1>4, <1>5 DEF Longest, GoodPass, Accs, Usable, HitRecords
<1>7. y.hit[kind] = h
  BY <1>1, <1>2, <1>4
<1>8. ASSUME NEW j \in 1 .. i
      PROVE  LET g == y.hit[attention_groups[j]]
             IN  /\ Serves(attention_groups[j], g)
                 /\ y.length <= g.len * BlockSize /\ g.len * BlockSize <= l
  <2>1. CASE attention_groups[j] = kind
    <3>1. y.length <= h.len * BlockSize /\ h.len * BlockSize <= l
      BY <1>1, <1>4, <1>6
    <3> QED  BY <1>5, <1>7, <2>1, <3>1
  <2>2. CASE attention_groups[j] # kind
    <3>1. j \in 1 .. i - 1 /\ attention_groups[j] \in Kinds
      BY <1>2, <2>2
    <3> DEFINE g == acc.hit[attention_groups[j]]
               e == g.len * BlockSize
    <3>2. y.hit[attention_groups[j]] = g
      BY <1>1, <1>4, <2>2, <3>1
    <3>3. Serves(attention_groups[j], g) /\ m <= e /\ e <= l
      BY <1>1, <3>1
    <3>4. e \in Nat
      <4>1. g \in HitRecords
        BY <1>1, <3>1
      <4> HIDE DEF g
      <4> QED  BY <4>1, Parameters DEF HitRecords
    <3> HIDE DEF e
    <3>5. y.length <= e
      BY <1>1, <1>6, <3>3, <3>4
    <3> QED  BY <3>2, <3>3, <3>5 DEF e
  <2> QED  BY <2>1, <2>2
<1>9. \A q \in Nat : q * BlockSize <= l /\ UsableByAll(tk, q) => q * BlockSize <= y.length
  <2> SUFFICES ASSUME NEW q \in Nat, q * BlockSize <= l, UsableByAll(tk, q)
               PROVE  q * BlockSize <= y.length
    OBVIOUS
  <2>1. q * BlockSize <= m /\ CachedFor(kind, tk, q)
    BY <1>1 DEF UsableByAll
  <2>2. q <= h.len
    BY <1>5, <2>1 DEF Longest
  <2>3. q * BlockSize <= h.len * BlockSize
    BY <1>6, <2>2, Parameters, TimesMonotonic
  <2> QED  BY <1>4, <2>3
<1>10. y.length <= l
  BY <1>1, <1>6
<1> HIDE DEF kind
<1>11. y.length = y.hit[attention_groups[i]].len * BlockSize
  BY <1>4, <1>7 DEF kind
<1> QED  BY <1>3, <1>8, <1>9, <1>10, <1>11 DEF Passed, y

LEMMA PassIsBest ==
  ASSUME layout \in Layouts, NEW tk \in Seq(Token), NEW l \in 0 .. Len(tk)
  PROVE  Pass(tk, l) \in Passed(tk, l, Len(attention_groups))
<1> DEFINE n == Len(attention_groups)
           G == GoodPass(tk)
           base == NoHitsYet(l)
           P == [i \in 0 .. n |-> Passed(tk, l, i)]
           F == [p \in G \X (1 .. n) |-> PassStep(tk, p[1], p[2])]
           c == PassedUpTo(tk, l)
<1>1. n \in Nat
  BY AttentionGroupsType
<1>2. \A i \in 1 .. n : \A x \in Passed(tk, l, i - 1) : PassStep(tk, x, i) \in Passed(tk, l, i)
  BY PassStepPasses
<1>14. \A i : Passed(tk, l, i) \subseteq G
  BY DEF Passed
<1>3. base \in Passed(tk, l, 0)
  <2>1. Len(tk) \in Nat /\ l \in Nat /\ l <= Len(tk)
    OBVIOUS
  <2>2. \A kind \in Kinds : Usable(kind, tk, NoHit)
    <3>1. 0 \in Nat /\ 0 * BlockSize <= Len(tk) /\ 0 \in 0 .. 0 /\ {} \subseteq 0 .. 0
      BY <2>1, Parameters
    <3> QED  BY <3>1, UsableHit DEF NoHit
  <2>3. NoHit \in HitRecords
    BY DEF NoHit, HitRecords
  <2>4. [k \in Kinds |-> NoHit] \in [Kinds -> HitRecords]
    BY <2>3
  <2>5. base \in GoodPass(tk)
    BY <2>1, <2>2, <2>4 DEF GoodPass, Accs, NoHitsYet
  <2>6. base.length = l
    BY DEF NoHitsYet
  <2> HIDE DEF base
  <2> QED  BY <2>1, <2>5, <2>6 DEF Passed
<1> HIDE DEF n, G, base
<1>4. \A i \in 1 .. n : \A x \in P[i - 1] : F[<<x, i>>] = PassStep(tk, x, i) /\ F[<<x, i>>] \in P[i]
  <2> SUFFICES ASSUME NEW i \in 1 .. n, NEW x \in P[i - 1]
               PROVE  F[<<x, i>>] = PassStep(tk, x, i) /\ F[<<x, i>>] \in P[i]
    OBVIOUS
  <2>1. i - 1 \in 0 .. n /\ i \in 0 .. n
    BY <1>1
  <2>2. x \in Passed(tk, l, i - 1)
    BY <2>1
  <2>3. x \in G /\ F[<<x, i>>] = PassStep(tk, x, i)
    BY <1>14, <2>2
  <2> QED  BY <1>2, <2>1, <2>2, <2>3
<1>5. base \in P[0]
  BY <1>1, <1>3
<1> HIDE DEF P, F
<1>6. PICK f : Steps(F, base, n, f) /\ \A i \in 0 .. n : f[i] \in P[i]
  BY <1>1, <1>4, <1>5, ChainLeads
<1>7. f = [i \in 0 .. n |-> IF i = 0 THEN base ELSE PassStep(tk, f[i - 1], i)]
  <2>1. \A i \in 0 .. n : i # 0 => i \in 1 .. n /\ f[i - 1] \in P[i - 1]
    BY <1>1, <1>6
  <2> QED  BY <1>4, <1>6, <2>1 DEF Steps
<1>8. c = [i \in 0 .. n |-> IF i = 0 THEN base ELSE PassStep(tk, c[i - 1], i)]
  BY <1>7 DEF PassedUpTo, n, base
<1> HIDE DEF c
<1>9. c[0] = base /\ \A i \in 1 .. n : c[i] = PassStep(tk, c[i - 1], i)
  <2>1. 0 \in 0 .. n /\ \A i \in 1 .. n : i \in 0 .. n /\ i # 0
    BY <1>1
  <2> QED  BY <1>8, <2>1
<1>10. \A i \in 1 .. n : c[i - 1] \in P[i - 1] => c[i] \in P[i]
  BY <1>4, <1>9
<1>11. c[n] \in P[n]
  <2>1. \A i \in 0 .. n : c[i] \in P[i]
    BY <1>1, <1>5, <1>9, <1>10, ChainStays
  <2> QED  BY <1>1, <2>1
<1>12. c[n] \in Passed(tk, l, n)
  BY <1>1, <1>11 DEF P
<1>13. Pass(tk, l) = c[n]
  BY DEF Pass, Chain, c, PassedUpTo, PassStep, NoHitsYet, n
<1> QED  BY <1>12, <1>13 DEF n

(* The pass that ends the lookup: nothing was taken away, or full          *)
(* attention came first and one other spec behind it.                      *)
LEMMA LastPassAgrees ==
  ASSUME layout \in Layouts, NEW tk \in Seq(Token), NEW l \in 0 .. Len(tk),
         Pass(tk, l).length >= l \/ is_simple_hybrid
  PROVE  Pass(tk, l) \in Final(tk, l)
<1> DEFINE acc == Pass(tk, l)
           n == Len(attention_groups)
<1>1. attention_groups \in Seq(Kinds) /\ n \in Nat
  BY AttentionGroupsType
<1>2. n > 0
  <2>1. \E g : g \in Groups
    <3>1. layout \in Seq(Kinds) /\ Cardinality(Range(layout)) > 1
      BY HybridAssumption DEF HybridAssumption
    <3>2. Range(layout) # {}
      <4>1. Cardinality({}) = 0
        BY FS_EmptySet
      <4>2. ASSUME Range(layout) = {} PROVE Cardinality(Range(layout)) = 0
        BY <4>1, <4>2, Zenon
      <4>3. ~(0 > 1)
        OBVIOUS
      <4> QED  BY <3>1, <4>2, <4>3, Zenon
    <3> QED  BY <3>2 DEF Range, Groups
  <2> QED  BY <1>1, <2>1, AttentionGroupsType
<1>3. acc \in Passed(tk, l, n)
  BY PassIsBest
<1>4. acc.length >= l \/ is_simple_hybrid
  OBVIOUS
<1> HIDE DEF acc
<1>5. /\ acc \in GoodPass(tk) /\ acc.length \in Nat /\ acc.length <= l /\ l \in Nat
      /\ acc.hit \in [Kinds -> HitRecords]
      /\ acc.length = acc.hit[attention_groups[n]].len * BlockSize
      /\ \A j \in 1 .. n : LET h == acc.hit[attention_groups[j]]
                          IN  /\ Serves(attention_groups[j], h)
                              /\ acc.length <= h.len * BlockSize /\ h.len * BlockSize <= l
      /\ \A q \in Nat : q * BlockSize <= l /\ UsableByAll(tk, q) => q * BlockSize <= acc.length
  BY <1>2, <1>3 DEF Passed, GoodPass, Accs
<1>6. \A j \in 1 .. n : acc.hit[attention_groups[j]].len \in Nat
  BY <1>1, <1>5 DEF HitRecords
<1>7. \E k \in Nat : acc.length = k * BlockSize
  <2>1. n \in 1 .. n
    BY <1>1, <1>2
  <2> QED  BY <1>5, <1>6, <2>1
<1>8. ASSUME NEW j \in 1 .. n, attention_groups[j] # "full"
      PROVE  acc.length = acc.hit[attention_groups[j]].len * BlockSize
  <2> DEFINE e == acc.hit[attention_groups[j]].len * BlockSize
  <2>1. CASE acc.length >= l
    <3>1. acc.length <= e /\ e <= l /\ e \in Nat
      BY <1>5, <1>6, Parameters
    <3> HIDE DEF e
    <3>2. acc.length = e
      BY <1>5, <2>1, <3>1
    <3> QED  BY <3>2 DEF e
  <2>2. CASE is_simple_hybrid
    <3>1. n = 2 /\ attention_groups[1] = "full"
      BY <2>2 DEF is_simple_hybrid
    <3>2. j = n
      BY <1>8, <3>1
    <3> QED  BY <1>5, <3>2
  <2> QED  BY <1>4, <2>1, <2>2
<1>9. Agreed(acc)
  BY <1>5, <1>7, <1>8 DEF Agreed
<1> QED  BY <1>5, <1>9 DEF Final, acc


(* The passes end: each is over fewer tokens than the one before. *)
SettleStep(tk, f, l) ==
    IF Pass(tk, l).length >= l \/ is_simple_hybrid THEN Pass(tk, l) ELSE f[Pass(tk, l).length]

SettledUpTo(tk, n) == CHOOSE f : f = [l \in 0 .. n |-> SettleStep(tk, f, l)]

LEMMA SettleIsFinal ==
  ASSUME layout \in Layouts, NEW tk \in Seq(Token), tk # << >>
  PROVE  Settle(tk) \in Final(tk, Len(tk) - 1)
<1> DEFINE n == Len(tk)
           S == {m \in 0 .. n : \E f : f = [l \in 0 .. m |-> SettleStep(tk, f, l)]}
           Ends(l) == Pass(tk, l).length >= l \/ is_simple_hybrid
           len(l) == Pass(tk, l).length
           c == SettledUpTo(tk, n)
<1>1. n \in Nat /\ n - 1 \in 0 .. n
  BY Len(tk) # 0
<1>2. \A l \in 0 .. n : len(l) \in Nat
  BY PassIsBest DEF Passed, GoodPass, Accs
<1>11. \A l \in 0 .. n : Ends(l) => Pass(tk, l) \in Final(tk, l)
  BY LastPassAgrees
<1>12. \A l \in 0 .. n : \A q \in Nat :
           q * BlockSize <= l /\ UsableByAll(tk, q) => q * BlockSize <= len(l)
  BY PassIsBest DEF Passed
<1> HIDE DEF n
<1>3. \A l \in 0 .. n : ~Ends(l) => len(l) \in 0 .. l - 1
  BY <1>1, <1>2
<1> HIDE DEF Ends, len
<1>4. \A f, l : SettleStep(tk, f, l) = IF Ends(l) THEN Pass(tk, l) ELSE f[len(l)]
  BY DEF SettleStep, Ends, len
<1>5. 0 \in S
  <2> DEFINE f == [l \in 0 .. 0 |-> Pass(tk, 0)]
  <2>1. Ends(0)
    BY <1>1, <1>3
  <2>2. f = [l \in 0 .. 0 |-> SettleStep(tk, f, l)]
    BY <1>4, <2>1
  <2> HIDE DEF f
  <2> QED  BY <1>1, <2>2
<1>6. ASSUME NEW m \in 1 .. n, m - 1 \in S PROVE m \in S
  <2>1. PICK f : f = [l \in 0 .. m - 1 |-> SettleStep(tk, f, l)]
    BY <1>6
  <2> DEFINE h == [l \in 0 .. m |-> IF l = m THEN SettleStep(tk, f, m) ELSE f[l]]
  <2>2. m \in 0 .. n /\ m \in Nat
    BY <1>1
  <2>3. \A l \in 0 .. m - 1 : h[l] = f[l] /\ l \in 0 .. n
    BY <1>1
  <2>4. ASSUME NEW l \in 0 .. m PROVE h[l] = SettleStep(tk, h, l)
    <3>1. l \in 0 .. n /\ h[l] = SettleStep(tk, f, l)
      <4>1. CASE l = m
        BY <2>2, <4>1
      <4>2. CASE l # m
        <5>1. l \in 0 .. m - 1
          BY <2>2, <4>2
        <5> QED  BY <2>1, <2>3, <5>1
      <4> QED  BY <4>1, <4>2
    <3>2. ~Ends(l) => len(l) \in 0 .. m - 1
      BY <1>3, <2>2, <3>1
    <3>3. ~Ends(l) => h[len(l)] = f[len(l)]
      BY <2>3, <3>2
    <3> HIDE DEF h
    <3> QED  BY <1>4, <3>1, <3>3
  <2>5. h = [l \in 0 .. m |-> SettleStep(tk, h, l)]
    <3>1. DOMAIN h = 0 .. m /\ h = [l \in 0 .. m |-> h[l]]
      OBVIOUS
    <3> HIDE DEF h
    <3> QED  BY <2>4, <3>1
  <2> HIDE DEF h
  <2> QED  BY <2>2, <2>5
<1>7. n \in S
  <2>1. 0 .. n \subseteq S
    <3> HIDE DEF S
    <3> QED  BY <1>1, <1>5, <1>6, UpTo0
  <2> QED  BY <1>1, <2>1
<1>8. c = [l \in 0 .. n |-> SettleStep(tk, c, l)]
  BY <1>7 DEF SettledUpTo
<1> HIDE DEF c, S
<1>9. \A l \in 0 .. n : c[l] \in Final(tk, l)
  <2> DEFINE Bad == {l \in 0 .. n : c[l] \notin Final(tk, l)}
  <2> SUFFICES ASSUME Bad # {} PROVE FALSE
    OBVIOUS
  <2>1. PICK l \in Bad : \A j \in Bad : l <= j
    <3>1. Bad \subseteq Nat
      OBVIOUS
    <3> HIDE DEF Bad
    <3> QED  BY <3>1, LeastNatural
  <2>2. l \in 0 .. n /\ c[l] = IF Ends(l) THEN Pass(tk, l) ELSE c[len(l)]
    BY <1>4, <1>8, <2>1
  <2>3. CASE Ends(l)
    BY <1>11, <2>1, <2>2, <2>3
  <2>4. CASE ~Ends(l)
    <3>1. len(l) \in 0 .. n /\ ~(l <= len(l))
      BY <1>1, <1>3, <2>2, <2>4
    <3>2. c[len(l)] \in Final(tk, len(l))
      BY <2>1, <3>1
    <3>3. c[l] \in Final(tk, l)
      BY <1>12, <2>2, <2>4, <3>2 DEF Final
    <3> QED  BY <2>1, <3>3
  <2> QED  BY <2>3, <2>4
<1>10. Settle(tk) = c[n - 1]
  BY DEF Settle, c, SettledUpTo, SettleStep, n
<1> QED  BY <1>1, <1>9, <1>10 DEF n

(* find_longest_cache_hit. *)
LEMMA LookupFacts ==
  ASSUME layout \in Layouts, Sound(kv), NEW tk \in Seq(Token), tk # << >>
  PROVE  LET found == find_longest_cache_hit(tk)
         IN  /\ found.length \in Nat
             /\ \A g \in Groups : HitsFor(kv.pool, g, tk, found.blocks[g])
<1> DEFINE pass == Settle(tk)
           found == find_longest_cache_hit(tk)
<1>1. pass \in GoodPass(tk)
  BY SettleIsFinal DEF Final
<1> HIDE DEF pass
<1>2. found = [length |-> pass.length, blocks |-> HitBlocks(tk, pass)]
  BY DEF find_longest_cache_hit, WithBlocks, pass
<1>3. pass.length \in Nat /\ \A kind \in Kinds : Usable(kind, tk, pass.hit[kind])
  BY <1>1 DEF GoodPass, Accs
<1>4. HashMapOK(kv.pool) /\ kv.pool.block_hash \in [Blocks -> Hash]
  BY HybridFields DEF Sound
<1>5. ASSUME NEW g \in Groups PROVE HitsFor(kv.pool, g, tk, found.blocks[g])
  <2> DEFINE kind == layout[g]
             h == pass.hit[kind]
             l == IF layout[g] = "full" THEN Least(h.len, pass.length \div BlockSize) ELSE h.len
             s == [i \in 1 .. l |-> IF i \in h.real THEN get_cached_block(kv.pool, GroupHash(g, tk, i))
                                    ELSE Null]
  <2>1. kind \in Kinds
    BY GroupsFinite DEF Groups
  <2>2. found.blocks[g] = s
    BY <1>2 DEF HitBlocks
  <2> HIDE DEF found
  <2>3. /\ h.len \in Nat /\ \A i \in h.real : /\ i * BlockSize <= Len(tk)
                                              /\ HitAt(kind, tk, i)
    BY <1>3, <2>1 DEF Usable, HitRecords
  <2>4. l \in Nat
    BY <1>3, <2>3, Parameters, DivBounds DEF Least
  <2>5. \A i \in h.real : LET b == get_cached_block(kv.pool, GroupHash(g, tk, i))
                          IN  b \in Blocks /\ kv.pool.block_hash[b] = GroupHash(g, tk, i)
    <3> SUFFICES ASSUME NEW i \in h.real
                 PROVE  LET b == get_cached_block(kv.pool, GroupHash(g, tk, i))
                        IN  b \in Blocks /\ kv.pool.block_hash[b] = GroupHash(g, tk, i)
      OBVIOUS
    <3> DEFINE x == GroupHash(g, tk, i)
               b == get_cached_block(kv.pool, x)
    <3>1. CachedUnder(kv.pool, x) # {}
      <4>1. HitAt(kind, tk, i) /\ g \in GroupsOf(kind)
        BY <2>3 DEF GroupsOf
      <4> QED  BY <4>1 DEF HitAt
    <3> HIDE DEF x
    <3>2. b \in CachedUnder(kv.pool, x)
      BY <3>1, CachedBlock
    <3> HIDE DEF b
    <3>3. b \in Blocks /\ <<x, b>> \in kv.pool.cached_block_hash_to_block
      BY <3>2 DEF CachedUnder
    <3>4. kv.pool.block_hash[b] = x
      BY <1>4, <3>3 DEF HashMapOK
    <3> QED  BY <3>3, <3>4 DEF b, x
  <2> HIDE DEF h, l
  <2>6. s \in Seq(Entries) /\ DOMAIN s = 1 .. l
    <3>1. \A i \in 1 .. l : s[i] \in Entries
      BY <2>5 DEF Entries
    <3>2. s = [i \in 1 .. l |-> s[i]]
      OBVIOUS
    <3> HIDE DEF s
    <3> QED  BY <2>4, <3>1, <3>2
  <2>7. \A i \in DOMAIN s : s[i] # Null =>
            i * BlockSize <= Len(tk) /\ kv.pool.block_hash[s[i]] = GroupHash(g, tk, i)
    BY <2>3, <2>5, <2>6
  <2> HIDE DEF s
  <2> QED  BY <2>2, <2>6, <2>7 DEF HitsFor
<1> QED  BY <1>2, <1>3, <1>5 DEF found

----------------------------------------------------------------------------
(* The invariant *)

(* Pool and tables agree, no throw was reached, and no request has         *)
(* computed more than it has.                                              *)
IInv ==
    /\ layout \in Layouts
    /\ Sound(kv) /\ kv.fault = "none"
    /\ computed \in [Req -> Nat] /\ sched \in [Req -> Nat]
    /\ \A r \in Req : computed[r] <= Len(toks[r]) /\ sched[r] <= computed[r]
    /\ admissions \in 0 .. MaxAdmissions

LEMMA TokenFacts ==
  ASSUME NEW r \in Req
  PROVE  toks[r] \in Seq(Token) /\ toks[r] # << >> /\ Len(toks[r]) \in Nat
BY HybridAssumption DEF HybridAssumption

LEMMA InitIsSound == Init => IInv
<1> SUFFICES ASSUME Init PROVE IInv
  OBVIOUS
<1> DEFINE pool == [free_block_queue |-> [i \in Blocks |-> i],
                    ref_cnt |-> [b \in Blocks |-> 0],
                    block_hash |-> [b \in Blocks |-> NoHash],
                    cached_block_hash_to_block |-> {}]
<1>1. /\ layout \in Layouts
      /\ kv = [pool |-> pool,
               req_to_blocks |-> [r \in Req |-> [g \in DOMAIN layout |-> << >>]],
               num_cached_block |-> [r \in Req |-> [g \in DOMAIN layout |-> 0]],
               cached_blocks_this_step |-> {},
               data |-> [b \in Blocks |-> NoHash],
               fault |-> "none"]
      /\ computed = [r \in Req |-> 0] /\ sched = [r \in Req |-> 0] /\ admissions = 0
  BY DEF Init
<1>2. NoHash \in Hash /\ NumGpuBlocks - 1 \in Nat /\ MaxAdmissions \in Nat
  BY PoolAssumption, HybridAssumption DEF NoHash, Hash, HybridAssumption
<1>3. pool.free_block_queue \in Seq(Blocks)
  BY <1>2 DEF Blocks
<1>4. pool \in PoolType /\ FreeListOK(pool) /\ HashMapOK(pool)
  <2>1. pool \in PoolType
    <3> HIDE <1>1
    <3> QED  BY <1>2, <1>3 DEF PoolType
  <2>2. FreeListOK(pool)
    BY DEF FreeListOK, IsInjective, Range
  <2>3. HashMapOK(pool)
    BY DEF HashMapOK
  <2> QED  BY <2>1, <2>2, <2>3
<1>5. \A b \in Blocks : pool.ref_cnt[b] = 0
  OBVIOUS
<1> HIDE DEF pool
<1>6. /\ kv.pool = pool /\ kv.fault = "none"
      /\ \A r \in Req, g \in Groups : /\ kv.req_to_blocks[r][g] = << >>
                                      /\ kv.num_cached_block[r][g] = 0
  BY <1>1 DEF Groups
<1>7. kv \in HybridType
  <2>1. /\ [r \in Req |-> [g \in DOMAIN layout |-> << >>]] \in [Req -> [Groups -> Seq(Entries)]]
        /\ [r \in Req |-> [g \in DOMAIN layout |-> 0]] \in [Req -> [Groups -> Nat]]
        /\ [b \in Blocks |-> NoHash] \in [Blocks -> Hash]
    BY <1>2 DEF Groups
  <2>2. {} \in SUBSET Hash /\ "none" \in HybridFaults
    BY DEF HybridFaults
  <2> QED  BY <1>1, <1>4, <2>1, <2>2 DEF HybridType
<1>8. \A b \in Blocks : kv.pool.ref_cnt[b] = Cardinality(HoldersIn(kv, b))
  <2> SUFFICES ASSUME NEW b \in Blocks PROVE kv.pool.ref_cnt[b] = Cardinality(HoldersIn(kv, b))
    OBVIOUS
  <2>1. Range(<< >>) = {}
    BY DEF Range
  <2>2. HoldersIn(kv, b) = {}
    BY <1>6, <2>1 DEF HoldersIn
  <2> QED  BY <1>5, <1>6, <2>2, FS_EmptySet
<1>9. \A r \in Req, g \in Groups : TableSound(kv, r, g)
  <2>1. Once(<< >>) /\ Private(<< >>, 0) = {} /\ 0 <= Len(<< >>)
    BY DEF Once, Private
  <2> QED  BY <1>6, <2>1 DEF TableSound
<1>10. Sound(kv)
  BY <1>4, <1>6, <1>7, <1>8, <1>9 DEF Sound
<1>11. \A r \in Req : Len(toks[r]) \in Nat
  BY TokenFacts
<1> QED  BY <1>1, <1>2, <1>6, <1>10, <1>11 DEF IInv

(* What is asked for is there to be computed. *)
LEMMA NewTokensBound ==
  ASSUME IInv, NEW r \in Req, NEW start \in Nat, NEW t \in Thresholds,
         NewTokens(r, start, t) > 0
  PROVE  /\ NewTokens(r, start, t) \in Nat
         /\ start + NewTokens(r, start, t) <= Len(toks[r])
<1> DEFINE rest == MaxBatchedTokens - SumFunction(sched)
           l == Len(toks[r])
<1>1. l \in Nat
  BY TokenFacts
<1>2. t \in Nat /\ MaxBatchedTokens \in Nat
  BY HybridAssumption, Parameters DEF HybridAssumption
<1>3. rest \in Int
  <2>1. IsFiniteSet(Req) /\ sched \in [Req -> Nat]
    BY HybridAssumption DEF HybridAssumption, IInv
  <2>2. /\ Total(sched) = TotalOf(sched, Req)[Req]
        /\ \A s \in SUBSET Req : TotalOf(sched, Req)[s] \in Nat
    BY <2>1, TotalFacts
  <2>3. SumFunction(sched) \in Nat
    BY <2>2, SumIsTotal
  <2> QED  BY <1>2, <2>3
<1>4. NewTokens(r, start, t) = Least(Least(l - start, t), rest)
  BY DEF NewTokens
<1> HIDE DEF l, rest
<1>5. Least(Least(l - start, t), rest) \in Int /\ Least(Least(l - start, t), rest) <= l - start
  BY <1>1, <1>2, <1>3 DEF Least
<1> QED  BY <1>1, <1>4, <1>5 DEF l

LEMMA AdmitIsSound ==
  ASSUME IInv, NEW r \in Req \ Running, Admit(r)
  PROVE  IInv'
<1> DEFINE found == find_longest_cache_hit(toks[r])
<1>1. PICK t \in Thresholds : AdmitWith(r, found, t)
  BY DEF Admit
<1>2. toks[r] \in Seq(Token) /\ toks[r] # << >>
  BY TokenFacts
<1>3. layout \in Layouts /\ Sound(kv) /\ kv.fault = "none"
  BY DEF IInv
<1>4. found.length \in Nat /\ \A g \in Groups : HitsFor(kv.pool, g, toks[r], found.blocks[g])
  BY <1>2, <1>3, LookupFacts
<1> HIDE DEF found
<1> DEFINE start == found.length
           hits == found.blocks
           num == NewTokens(r, start, t)
           w == IF Running = {} THEN 0 ELSE WatermarkBlocks
           k1 == allocate_new_computed_blocks(kv, r, hits, start)
           k2 == SlotsGiven(k1, r, start, num)
<1>5. /\ num > 0 /\ admissions < MaxAdmissions /\ SlotsFit(kv, r, hits, start, num, w)
      /\ kv' = k2 /\ computed' = [computed EXCEPT ![r] = start + num]
      /\ sched' = [sched EXCEPT ![r] = num] /\ admissions' = admissions + 1
      /\ layout' = layout
  BY <1>1 DEF AdmitWith
<1>6. w \in Nat
  BY HybridAssumption DEF HybridAssumption
<1>7. num \in Nat /\ start + num <= Len(toks[r])
  BY <1>4, <1>5, NewTokensBound
<1> HIDE DEF start, hits, num, w
<1> DEFINE skipped(g) == SkippedBlocks(layout[g], start)
           need == [g \in Groups |->
               Greatest(cdiv(SlotTokens(start, num), BlockSize)
                            - Greatest(skipped(g), Len(hits[g])), 0)]
           idle == [g \in Groups |-> Cardinality(Evictable(kv.pool, hits[g], skipped(g)))]
<1>8. /\ need \in [Groups -> Nat] /\ idle \in [Groups -> Nat]
      /\ Total([g \in Groups |-> idle[g] + need[g]]) <= Len(kv.pool.free_block_queue)
  <2>1. \A g \in Groups : hits[g] \in Seq(Entries)
    BY <1>4 DEF HitsFor, hits
  <2>2. start \in Nat /\ r \in Req /\ r \notin Running
    BY <1>4 DEF start
  <2> QED  BY <1>3, <1>5, <1>6, <1>7, <2>1, <2>2, AdmissionFits
<1>9. /\ Sound(k1) /\ k1.fault = kv.fault
      /\ \A g \in Groups : Len(k1.req_to_blocks[r][g]) = Greatest(skipped(g), Len(hits[g]))
      /\ Total(need) <= Len(k1.pool.free_block_queue)
  <2>1. \A g \in Groups : HitsFor(kv.pool, g, toks[r], hits[g]) /\ kv.req_to_blocks[r][g] = << >>
    BY <1>4 DEF hits, Running
  <2>2. \A g \in Groups : idle[g] =
            Cardinality(Evictable(kv.pool, hits[g], SkippedBlocks(layout[g], start)))
    OBVIOUS
  <2>3. start \in Nat
    BY <1>4 DEF start
  <2> HIDE DEF need, idle
  <2> QED  BY <1>2, <1>3, <1>8, <2>1, <2>2, <2>3, OwnKeeps
<1>10. \A g \in Groups : need[g] = Greatest(cdiv(SlotTokens(start, num), BlockSize)
                                                - Len(k1.req_to_blocks[r][g]), 0)
  BY <1>9
<1> HIDE DEF k1, need, idle
<1>11. Sound(k2) /\ k2.fault = k1.fault
  <2>1. start \in Nat
    BY <1>4 DEF start
  <2> QED  BY <1>3, <1>7, <1>8, <1>9, <1>10, <2>1, SlotsGivenKeeps
<1>12. Sound(kv)' /\ kv'.fault = "none"
  <2>1. Sound(kv)' = Sound(k2)
    BY <1>5 DEF Sound, HybridType, HoldersIn, TableSound, Groups
  <2> QED  BY <1>3, <1>5, <1>9, <1>11, <2>1
<1>13. /\ computed' \in [Req -> Nat] /\ sched' \in [Req -> Nat]
       /\ \A q \in Req : computed'[q] <= Len(toks[q]) /\ sched'[q] <= computed'[q]
  <2>1. start \in Nat
    BY <1>4 DEF start
  <2>2. /\ computed \in [Req -> Nat] /\ sched \in [Req -> Nat]
        /\ \A q \in Req : computed[q] <= Len(toks[q]) /\ sched[q] <= computed[q]
    BY DEF IInv
  <2> QED  BY <1>5, <1>7, <2>1, <2>2
<1>14. admissions' \in 0 .. MaxAdmissions
  <2>1. MaxAdmissions \in Nat /\ admissions \in 0 .. MaxAdmissions
    BY HybridAssumption DEF HybridAssumption, IInv
  <2> QED  BY <1>5, <2>1
<1> QED  BY <1>3, <1>5, <1>12, <1>13, <1>14 DEF IInv

LEMMA ExtendIsSound ==
  ASSUME IInv, NEW r \in Running, Extend(r)
  PROVE  IInv'
<1> DEFINE start == computed[r]
           k == remove_skipped_blocks(kv, r, start)
<1>1. PICK t \in Thresholds :
          LET num == NewTokens(r, start, t)
          IN  /\ num > 0
              /\ IF SlotsFit(k, r, NoHits, start, num, 0)
                 THEN /\ kv' = SlotsGiven(k, r, start, num)
                      /\ computed' = [computed EXCEPT ![r] = @ + num]
                      /\ sched' = [sched EXCEPT ![r] = num]
                 ELSE kv' = k /\ UNCHANGED <<computed, sched>>
              /\ UNCHANGED <<layout, admissions>>
  BY DEF Extend
<1> DEFINE num == NewTokens(r, start, t)
<1>2. /\ layout \in Layouts /\ Sound(kv) /\ kv.fault = "none"
      /\ computed \in [Req -> Nat] /\ sched \in [Req -> Nat]
      /\ \A q \in Req : computed[q] <= Len(toks[q]) /\ sched[q] <= computed[q]
      /\ admissions \in 0 .. MaxAdmissions
  BY DEF IInv
<1>3. r \in Req /\ start \in Nat
  BY <1>2 DEF Running
<1>4. num \in Nat /\ num > 0 /\ start + num <= Len(toks[r])
  BY <1>1, <1>3, NewTokensBound
<1>5. Sound(k) /\ k.fault = "none"
  BY <1>2, <1>3, RemoveKeeps
<1>6. layout' = layout /\ admissions' = admissions
  BY <1>1
<1> HIDE DEF num, k
<1>7. CASE SlotsFit(k, r, NoHits, start, num, 0)
  <2> DEFINE need == [g \in Groups |-> Greatest(cdiv(SlotTokens(start, num), BlockSize)
                                                    - Len(k.req_to_blocks[r][g]), 0)]
             k2 == SlotsGiven(k, r, start, num)
  <2>1. /\ kv' = k2 /\ computed' = [computed EXCEPT ![r] = @ + num]
        /\ sched' = [sched EXCEPT ![r] = num]
    BY <1>1, <1>7 DEF num
  <2>2. need \in [Groups -> Nat] /\ Total(need) <= Len(k.pool.free_block_queue)
    <3>1. k \in HybridType
      BY <1>5 DEF Sound
    <3> HIDE DEF start
    <3> QED  BY <1>2, <1>3, <1>4, <1>7, <3>1, RunningFits
  <2>3. \A g \in Groups : need[g] = Greatest(cdiv(SlotTokens(start, num), BlockSize)
                                                 - Len(k.req_to_blocks[r][g]), 0)
    OBVIOUS
  <2> HIDE DEF need
  <2>4. Sound(k2) /\ k2.fault = "none"
    <3> HIDE DEF start
    <3> QED  BY <1>2, <1>3, <1>4, <1>5, <2>2, <2>3, SlotsGivenKeeps
  <2> HIDE DEF k2
  <2>5. Sound(kv)' /\ kv'.fault = "none"
    <3>1. Sound(kv)' = Sound(k2)
      BY <1>6, <2>1 DEF Sound, HybridType, HoldersIn, TableSound, Groups
    <3> QED  BY <2>1, <2>4, <3>1
  <2>6. /\ computed' \in [Req -> Nat] /\ sched' \in [Req -> Nat]
        /\ \A q \in Req : computed'[q] <= Len(toks[q]) /\ sched'[q] <= computed'[q]
    BY <1>2, <1>3, <1>4, <2>1
  <2> QED  BY <1>2, <1>6, <2>5, <2>6 DEF IInv
<1>8. CASE ~SlotsFit(k, r, NoHits, start, num, 0)
  <2>1. kv' = k /\ computed' = computed /\ sched' = sched
    BY <1>1, <1>8 DEF num
  <2>2. Sound(kv)' /\ kv'.fault = "none"
    <3>1. Sound(kv)' = Sound(k)
      BY <1>6, <2>1 DEF Sound, HybridType, HoldersIn, TableSound, Groups
    <3> QED  BY <1>5, <2>1, <3>1
  <2> QED  BY <1>2, <1>6, <2>1, <2>2 DEF IInv
<1> QED  BY <1>7, <1>8

(* A step changes what the blocks hold, and nothing of who holds them. *)
LEMMA ExecuteIsSound ==
  ASSUME IInv, Execute
  PROVE  IInv'
<1>1. /\ layout \in Layouts /\ Sound(kv) /\ kv.fault = "none" /\ kv \in HybridType
      /\ computed \in [Req -> Nat] /\ sched \in [Req -> Nat]
      /\ \A q \in Req : computed[q] <= Len(toks[q]) /\ sched[q] <= computed[q]
      /\ admissions \in 0 .. MaxAdmissions
  BY DEF IInv, Sound
<1>2. /\ kv' = [kv EXCEPT !.data = DataAfterStep, !.cached_blocks_this_step = {}]
      /\ sched' = [r \in Req |-> 0]
      /\ layout' = layout /\ computed' = computed /\ admissions' = admissions
  BY DEF Execute
<1>3. ASSUME NEW w \in Writes PROVE w[2] \in Hash
  <2>1. PICK r \in Req, g \in Groups : \E i \in WrittenBy(r, g) :
            w = <<kv.req_to_blocks[r][g][i], Held(r, g, i, computed[r])>>
    BY <1>3 DEF Writes
  <2>11. PICK i \in WrittenBy(r, g) :
            w = <<kv.req_to_blocks[r][g][i], Held(r, g, i, computed[r])>>
    BY <2>1
  <2>2. computed[r] \in Nat /\ Before(r) \in Nat /\ BlockSize \in Nat \ {0}
    BY <1>1, Parameters DEF Before
  <2>3. i \in Nat
    <3>1. Before(r) \div BlockSize \in Nat
      BY <2>2, DivBounds
    <3>2. cdiv(computed[r], BlockSize) \in Nat
      BY <2>2, CdivBounds
    <3> QED  BY <3>1, <3>2 DEF WrittenBy
  <2> DEFINE e == i * BlockSize
             n == Least(computed[r], e)
  <2>4. e \in Nat
    BY <2>2, <2>3
  <2> HIDE DEF e
  <2>5. n \in Nat /\ n <= Len(toks[r])
    BY <1>1, <2>2, <2>4, TokenFacts DEF Least
  <2>6. w[2] = <<g>> \o SubSeq(toks[r], 1, n)
    BY <2>11 DEF Held, GroupPrefix, e
  <2> HIDE DEF n
  <2>7. g \in Nat
    BY <1>1, GroupsFinite
  <2> DEFINE s == SubSeq(toks[r], 1, n)
             T == Token \cup Nat
  <2>8. s \in Seq(T)
    <3>1. toks[r] \in Seq(Token) /\ Len(toks[r]) \in Nat
      BY TokenFacts
    <3>2. \A j \in 1 .. n : toks[r][j] \in Token
      BY <2>5, <3>1
    <3>3. s = [j \in 1 .. n |-> toks[r][j]]
      BY <2>5, <3>1
    <3> HIDE DEF s
    <3> QED  BY <2>5, <3>2, <3>3
  <2>9. <<g>> \in Seq(T)
    BY <2>7
  <2> HIDE DEF s, T
  <2>10. <<g>> \o s \in Seq(T)
    BY <2>8, <2>9
  <2> QED  BY <2>6, <2>10 DEF s, T, Hash
<1>4. DataAfterStep \in [Blocks -> Hash]
  <2>1. ASSUME NEW b \in Blocks, \E w \in Writes : w[1] = b
        PROVE  (CHOOSE w \in Writes : w[1] = b)[2] \in Hash
    BY <1>3, <2>1
  <2>2. kv.data \in [Blocks -> Hash]
    BY <1>1, HybridFields
  <2> QED  BY <2>1, <2>2 DEF DataAfterStep
<1> DEFINE k == [kv EXCEPT !.data = DataAfterStep, !.cached_blocks_this_step = {}]
<1>5. /\ k \in HybridType
      /\ k.pool = kv.pool /\ k.req_to_blocks = kv.req_to_blocks
      /\ k.num_cached_block = kv.num_cached_block /\ k.fault = kv.fault
  BY <1>1, <1>4 DEF HybridType
<1> HIDE DEF k
<1>6. \A b : HoldersIn(k, b) = HoldersIn(kv, b)
  BY <1>5 DEF HoldersIn
<1>7. Sound(k)
  BY <1>1, <1>5, <1>6 DEF Sound, TableSound
<1>8. Sound(kv)' /\ kv'.fault = "none"
  <2>1. kv' = k
    BY <1>2 DEF k
  <2>2. layout' = layout
    BY <1>2
  <2>3. Sound(kv)' = Sound(k)
    BY <2>1, <2>2 DEF Sound, HybridType, HoldersIn, TableSound, Groups
  <2> QED  BY <1>1, <1>5, <1>7, <2>1, <2>3
<1>9. /\ sched' \in [Req -> Nat]
      /\ \A q \in Req : computed'[q] <= Len(toks[q]) /\ sched'[q] <= computed'[q]
  BY <1>1, <1>2
<1> QED  BY <1>1, <1>2, <1>8, <1>9 DEF IInv

LEMMA ReleaseIsSound ==
  ASSUME IInv, NEW r \in Running, sched[r] = 0, Release(r)
  PROVE  IInv'
<1>1. /\ layout \in Layouts /\ Sound(kv) /\ kv.fault = "none"
      /\ computed \in [Req -> Nat] /\ sched \in [Req -> Nat]
      /\ \A q \in Req : computed[q] <= Len(toks[q]) /\ sched[q] <= computed[q]
      /\ admissions \in 0 .. MaxAdmissions
  BY DEF IInv
<1>2. r \in Req
  BY DEF Running
<1> DEFINE k == free(kv, r)
<1>3. kv' = k /\ computed' = [computed EXCEPT ![r] = 0]
      /\ layout' = layout /\ sched' = sched /\ admissions' = admissions
  BY DEF Release
<1>4. Sound(k) /\ k.fault = "none"
  BY <1>1, <1>2, FreeKeeps
<1> HIDE DEF k
<1>5. Sound(kv)' /\ kv'.fault = "none"
  <2>1. Sound(kv)' = Sound(k)
    BY <1>3 DEF Sound, HybridType, HoldersIn, TableSound, Groups
  <2> QED  BY <1>3, <1>4, <2>1
<1>6. /\ computed' \in [Req -> Nat]
      /\ \A q \in Req : computed'[q] <= Len(toks[q]) /\ sched'[q] <= computed'[q]
  <2>1. \A q \in Req : Len(toks[q]) \in Nat
    BY TokenFacts
  <2> QED  BY <1>1, <1>2, <1>3, <2>1
<1> QED  BY <1>1, <1>3, <1>5, <1>6 DEF IInv

(* Under every client of HybridKVCacheCoordinator that keeps the           *)
(* scheduler's protocol, the pool and the tables of all groups agree after *)
(* every call of allocate_slots, of remove_skipped_blocks and of free.     *)
THEOREM Invariance == Spec => []IInv
<1>1. Init => IInv
  BY InitIsSound
<1>2. IInv /\ [Next]_vars => IInv'
  <2> SUFFICES ASSUME IInv, [Next]_vars PROVE IInv'
    OBVIOUS
  <2>1. ASSUME NEW r \in Req \ Running, Admit(r) PROVE IInv'
    BY <2>1, AdmitIsSound
  <2>2. ASSUME NEW r \in Running, Extend(r) PROVE IInv'
    BY <2>2, ExtendIsSound
  <2>3. CASE Execute
    BY <2>3, ExecuteIsSound
  <2>4. ASSUME NEW r \in Running, sched[r] = 0, Release(r) PROVE IInv'
    BY <2>4, ReleaseIsSound
  <2>5. CASE UNCHANGED vars
    <3>1. kv' = kv /\ layout' = layout /\ computed' = computed /\ sched' = sched
          /\ admissions' = admissions
      BY <2>5 DEF vars
    <3>2. Sound(kv)' = Sound(kv)
      BY <3>1 DEF Sound, HybridType, HoldersIn, TableSound, Groups
    <3> QED  BY <3>1, <3>2 DEF IInv
  <2> QED  BY <2>1, <2>2, <2>3, <2>4, <2>5 DEF Next
<1> QED  BY <1>1, <1>2, PTL DEF Spec

(* The coordinator keeps its state in its types whatever the layout of the *)
(* model: no counter of owners goes below zero, and every table holds      *)
(* blocks of the pool or the null block.                                   *)
THEOREM TypeCorrect == Spec => []TypeInv
<1>1. IInv => TypeInv
  <2> SUFFICES ASSUME IInv PROVE TypeInv
    OBVIOUS
  <2>1. /\ layout \in Layouts /\ Sound(kv) /\ kv \in HybridType
        /\ computed \in [Req -> Nat] /\ sched \in [Req -> Nat]
        /\ admissions \in 0 .. MaxAdmissions
    BY DEF IInv, Sound
  <2>2. kv.pool.ref_cnt \in [Blocks -> Nat]
    <3>1. \A b \in Blocks : kv.pool.ref_cnt[b] \in Nat
      BY <2>1, HeldIsOwned
    <3>2. kv.pool.ref_cnt \in [Blocks -> Int]
      BY <2>1, HybridFields
    <3> QED  BY <3>1, <3>2
  <2>3. /\ kv.pool.free_block_queue \in Seq(Blocks)
        /\ kv.req_to_blocks \in [Req -> [Groups -> Seq(Blocks \cup {Null})]]
        /\ kv.num_cached_block \in [Req -> [Groups -> Nat]]
        /\ kv.fault \in {"none", "no_free_blocks", "block_already_hashed"}
    BY <2>1, HybridFields DEF Entries, HybridFaults
  <2> QED  BY <2>1, <2>2, <2>3 DEF TypeInv
<1> QED  BY <1>1, Invariance, PTL

(* Whatever has been given back out of the middle of a table, and whatever *)
(* groups the model has: the ref_cnt of a block is the number of tables    *)
(* that hold it, the free list is what has none, once each, the hash map   *)
(* is what the blocks say of themselves, and the capacity check of         *)
(* allocate_slots leaves none of the pool's throws reachable.              *)
THEOREM PoolIsExact == Spec => []PoolExact
<1>1. IInv => PoolExact
  <2> SUFFICES ASSUME IInv PROVE PoolExact
    OBVIOUS
  <2>1. /\ Sound(kv) /\ kv.fault = "none"
        /\ FreeListOK(kv.pool) /\ HashMapOK(kv.pool)
        /\ \A b \in Blocks : kv.pool.ref_cnt[b] = Cardinality(HoldersIn(kv, b))
        /\ \A r \in Req, g \in Groups : TableSound(kv, r, g)
    BY DEF IInv, Sound
  <2>2. RefCountsExact
    <3>1. \A b : OwnersOf(b) = HoldersIn(kv, b)
      BY DEF OwnersOf, HoldersIn, Table
    <3>2. ASSUME NEW r \in Req, NEW g \in Groups,
                 NEW i \in RealAt(r, g), NEW j \in RealAt(r, g),
                 Table(r, g)[i] = Table(r, g)[j]
          PROVE  i = j
      <4>1. Once(Table(r, g))
        BY <2>1 DEF TableSound, Table
      <4> QED  BY <3>2, <4>1 DEF Once, RealAt
    <3> QED  BY <2>1, <3>1, <3>2 DEF RefCountsExact
  <2>3. FreeListExact /\ HashMapExact
    BY <2>1 DEF FreeListOK, HashMapOK, FreeListExact, HashMapExact
  <2> QED  BY <2>1, <2>2, <2>3 DEF PoolExact
<1> QED  BY <1>1, Invariance, PTL

(* find_longest_cache_hit gives every group as many blocks as the others,  *)
(* cached under the request's own prefix wherever the group still reads,   *)
(* and no longer prefix, short of the whole sequence, could be used by all *)
(* groups: whatever their kinds, and however often one spec takes away     *)
(* what another has found.                                                 *)
THEOREM LookupIsLongest == Spec => []HitIsLongest
<1>1. IInv => HitIsLongest
  <2> SUFFICES ASSUME IInv, NEW r \in Req
               PROVE  LET hit == find_longest_cache_hit(toks[r])
                          n   == hit.length \div BlockSize
                      IN  /\ \A g \in Groups :
                                 /\ Len(hit.blocks[g]) = n /\ hit.length = n * BlockSize
                                 /\ \A i \in BlocksHit(g, n) :
                                        <<GroupHash(g, toks[r], i), hit.blocks[g][i]>>
                                            \in kv.pool.cached_block_hash_to_block
                          /\ \A m \in n + 1 .. (Len(toks[r]) - 1) \div BlockSize :
                                 \E g \in Groups : ~UsableIn(g, toks[r], m)
    BY DEF HitIsLongest
  <2> DEFINE tk == toks[r]
             pass == Settle(tk)
             hit == find_longest_cache_hit(tk)
  <2>1. layout \in Layouts /\ tk \in Seq(Token) /\ tk # << >> /\ Len(tk) - 1 \in Nat
    <3>1. layout \in Layouts
      BY DEF IInv
    <3>2. tk \in Seq(Token) /\ tk # << >>
      BY TokenFacts
    <3> QED  BY <3>1, <3>2
  <2> HIDE DEF tk
  <2>2. pass \in Final(tk, Len(tk) - 1)
    BY <2>1, SettleIsFinal
  <2>3. hit = [length |-> pass.length, blocks |-> HitBlocks(tk, pass)]
    BY DEF find_longest_cache_hit, WithBlocks
  <2> HIDE DEF pass, hit
  <2>4. /\ pass.length \in Nat /\ pass.hit \in [Kinds -> HitRecords]
        /\ \A kind \in Kinds : Usable(kind, tk, pass.hit[kind])
        /\ \A q \in Nat : q * BlockSize <= Len(tk) - 1 /\ UsableByAll(tk, q)
                             => q * BlockSize <= pass.length
    BY <2>2 DEF Final, GoodPass, Accs
  <2>5. PICK n \in Nat : pass.length = n * BlockSize
    BY <2>2 DEF Final, Agreed
  <2>6. pass.length \div BlockSize = n
    <3>1. n * BlockSize <= pass.length /\ pass.length < n * BlockSize + BlockSize
      BY <2>4, <2>5, Parameters
    <3> QED  BY <2>4, <3>1, Parameters, QuotientIs
  <2>7. ASSUME NEW g \in Groups
        PROVE  /\ Len(hit.blocks[g]) = n
               /\ \A i \in BlocksHit(g, n) : <<GroupHash(g, tk, i), hit.blocks[g][i]>>
                                                 \in kv.pool.cached_block_hash_to_block
    <3> DEFINE kind == layout[g]
               h == pass.hit[kind]
               l == IF layout[g] = "full" THEN Least(h.len, n) ELSE h.len
    <3>1. kind \in Kinds
      BY <2>1, GroupsFinite DEF Groups
    <3>2. h \in HitRecords /\ h.len \in Nat /\ Usable(kind, tk, h)
      BY <2>4, <3>1 DEF HitRecords
    <3>3. /\ Serves(kind, h)
          /\ n * BlockSize <= h.len * BlockSize
          /\ kind = "full" \/ n * BlockSize = h.len * BlockSize
      BY <2>1, <2>2, <2>5, AttentionGroupsType DEF Final, Agreed
    <3>4. hit.blocks[g] = [i \in 1 .. l |-> IF i \in h.real
                                            THEN get_cached_block(kv.pool, GroupHash(g, tk, i))
                                            ELSE Null]
      BY <2>3, <2>6 DEF HitBlocks
    <3> HIDE DEF h
    <3>5. n <= h.len /\ (kind = "full" \/ n = h.len)
      <4> DEFINE a == n * BlockSize
                 b == h.len * BlockSize
      <4>1. a \in Nat /\ b \in Nat /\ a <= b
        BY <3>2, <3>3, Parameters
      <4>2. kind = "full" \/ a = b
        BY <3>3
      <4> HIDE DEF a, b
      <4>3. a < b + BlockSize /\ (kind = "full" \/ b < a + BlockSize)
        BY <4>1, <4>2, Parameters
      <4>4. n <= h.len
        BY <3>2, <4>3, Parameters, TimesCancels DEF a, b
      <4>5. kind = "full" \/ h.len <= n
        BY <3>2, <4>3, Parameters, TimesCancels DEF a, b
      <4> QED  BY <3>2, <4>4, <4>5
    <3>6. l = n
      BY <3>2, <3>5 DEF Least
    <3> HIDE DEF l
    <3>7. Len(hit.blocks[g]) = n
      BY <3>4, <3>6
    <3>8. ASSUME NEW i \in BlocksHit(g, n)
          PROVE  <<GroupHash(g, tk, i), hit.blocks[g][i]>> \in kv.pool.cached_block_hash_to_block
      <4>1. i \in ReadBehind(kind, n) /\ i \in 1 .. n
        BY <3>8 DEF BlocksHit, ReadBehind
      <4>2. i \in h.real
        <5>1. CASE kind = "full"
          BY <3>2, <3>3, <3>5, <4>1, <5>1 DEF Serves
        <5>2. CASE kind # "full"
          <6>1. n = h.len
            BY <3>5, <5>2
          <6> QED  BY <3>3, <4>1, <6>1 DEF Serves
        <5> QED  BY <5>1, <5>2
      <4> DEFINE x == GroupHash(g, tk, i)
      <4>3. hit.blocks[g][i] = get_cached_block(kv.pool, x)
        BY <3>4, <3>6, <4>1, <4>2
      <4>4. CachedUnder(kv.pool, x) # {}
        <5>1. HitAt(kind, tk, i) /\ g \in GroupsOf(kind)
          BY <3>2, <4>2 DEF Usable, GroupsOf
        <5> QED  BY <5>1 DEF HitAt
      <4> HIDE DEF x
      <4>5. get_cached_block(kv.pool, x) \in CachedUnder(kv.pool, x)
        BY <4>4, CachedBlock
      <4> QED  BY <4>3, <4>5 DEF CachedUnder, x
    <3> QED  BY <3>7, <3>8
  <2>8. ASSUME NEW m \in n + 1 .. (Len(tk) - 1) \div BlockSize, \A g \in Groups : UsableIn(g, tk, m)
        PROVE  FALSE
    <3> DEFINE k == (Len(tk) - 1) \div BlockSize
    <3>1. k \in Nat /\ k * BlockSize <= Len(tk) - 1
      BY <2>1, Parameters, DivBounds
    <3>2. m \in Nat /\ m <= k /\ n + 1 <= m
      BY <2>5, <3>1
    <3> HIDE DEF k
    <3> DEFINE a == m * BlockSize
               b == k * BlockSize
               c == n * BlockSize
    <3>3. a \in Nat /\ b \in Nat /\ c \in Nat /\ a <= b
      BY <2>5, <3>1, <3>2, Parameters, TimesMonotonic
    <3>4. a <= Len(tk) - 1
      <4>1. b <= Len(tk) - 1
        BY <3>1
      <4> HIDE DEF a, b
      <4> QED  BY <2>1, <3>3, <4>1
    <3>5. UsableByAll(tk, m)
      <4> SUFFICES ASSUME NEW j \in 1 .. Len(attention_groups)
                   PROVE  CachedFor(attention_groups[j], tk, m)
        BY DEF UsableByAll
      <4>1. PICK g \in Groups : layout[g] = attention_groups[j]
        BY <2>1, AttentionGroupsType
      <4>2. UsableIn(g, tk, m)
        BY <2>8
      <4>3. ReadBehind(attention_groups[j], m) = BlocksHit(g, m)
        BY <4>1 DEF ReadBehind, BlocksHit
      <4> QED  BY <4>1, <4>2, <4>3 DEF UsableIn, CachedFor
    <3>6. a <= c
      BY <2>4, <2>5, <3>2, <3>4, <3>5
    <3>7. m <= n
      <4>1. a < c + BlockSize
        <5> HIDE DEF a, c
        <5> QED  BY <3>3, <3>6, Parameters
      <4> QED  BY <2>5, <3>2, <4>1, Parameters, TimesCancels
    <3> QED  BY <2>5, <3>2, <3>7
  <2>9. hit.length = pass.length
    BY <2>3
  <2> QED  BY <2>5, <2>6, <2>7, <2>8, <2>9 DEF tk, hit
<1> QED  BY <1>1, Invariance, PTL
=============================================================================
