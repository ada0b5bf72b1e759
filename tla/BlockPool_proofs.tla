--------------------------- MODULE BlockPool_proofs ---------------------------
(***************************************************************************)
(* Lemmas about the sequences, sets and numbers of BlockPool and           *)
(* KVCacheManager.                                                         *)
(***************************************************************************)
EXTENDS BlockPool, FiniteSetTheorems, WellFoundedInduction, TLAPS

(* Every nonempty set of naturals has a least element. *)
LEMMA LeastNatural ==
  ASSUME NEW S, S \subseteq Nat, S # {}
  PROVE  \E x \in S : \A y \in S : x <= y
<1> DEFINE R == {ss \in Nat \X Nat : ss[1] < ss[2]}
<1>1. IsWellFoundedOn(R, Nat)
  BY NatLessThanWellFounded DEF OpToRel
<1>2. PICK x \in S : \A y \in S : ~(<<y, x>> \in R)
  <2> HIDE DEF R
  <2> QED  BY <1>1, WFMin
<1>3. \A y \in S : x <= y
  <2> SUFFICES ASSUME NEW y \in S PROVE x <= y
    OBVIOUS
  <2>1. <<y, x>> \notin R  BY <1>2
  <2>2. ~(y < x)  BY <2>1
  <2> QED  BY <2>2
<1> QED  BY <1>3

(* Division rounds down. *)
LEMMA DivBounds ==
  ASSUME NEW n \in Nat, NEW d \in Nat \ {0}
  PROVE  /\ n \div d \in Nat
         /\ (n \div d) * d <= n
         /\ n < (n \div d) * d + d
  OBVIOUS

(* Multiples of a positive number are ordered as their factors. *)
LEMMA TimesMonotonic ==
  ASSUME NEW a \in Nat, NEW b \in Nat, NEW d \in Nat, a <= b
  PROVE  /\ a * d \in Nat
         /\ a * d <= b * d
  OBVIOUS

(* A product bounds its factor: blocks that fit fewer tokens are fewer. *)
LEMMA TimesCancels ==
  ASSUME NEW a \in Nat, NEW b \in Nat, NEW d \in Nat \ {0}, a * d < b * d + d
  PROVE  a <= b
  OBVIOUS

----------------------------------------------------------------------------
(* Keep *)

(* In a finite set of numbers every rank from 0 to one less than its size  *)
(* is taken once.                                                          *)
LEMMA Ranks ==
  ASSUME NEW K, K \subseteq Nat, IsFiniteSet(K)
  PROVE  /\ Cardinality(K) \in Nat
         /\ \A i \in K : RankIn(K, i) \in 0 .. Cardinality(K) - 1
         /\ \A i, k \in K : i < k => RankIn(K, i) < RankIn(K, k)
         /\ \A i, k \in K : RankIn(K, i) = RankIn(K, k) => i = k
         /\ \A j \in 0 .. Cardinality(K) - 1 : \E i \in K : RankIn(K, i) = j
<1> DEFINE Below(i) == {k \in K : k < i}
           N == 0 .. Cardinality(K) - 1
<1>1. Cardinality(K) \in Nat
  BY FS_CardinalityType
<1>2. \A i \in K : IsFiniteSet(Below(i)) /\ RankIn(K, i) \in N
  <2> SUFFICES ASSUME NEW i \in K
               PROVE  IsFiniteSet(Below(i)) /\ RankIn(K, i) \in N
    OBVIOUS
  <2>1. /\ IsFiniteSet(Below(i))
        /\ Cardinality(Below(i)) <= Cardinality(K)
        /\ Cardinality(K) = Cardinality(Below(i)) => K = Below(i)
    BY FS_Subset, Below(i) \in SUBSET K
  <2>2. i \notin Below(i)
    OBVIOUS
  <2>3. Cardinality(Below(i)) \in Nat
    BY <2>1, FS_CardinalityType
  <2> QED  BY <1>1, <2>1, <2>2, <2>3 DEF RankIn
<1>3. \A i, k \in K : i < k => RankIn(K, i) < RankIn(K, k)
  <2> SUFFICES ASSUME NEW i \in K, NEW k \in K, i < k
               PROVE  RankIn(K, i) < RankIn(K, k)
    OBVIOUS
  <2>1. Below(i) \subseteq Below(k)
    <3>1. ASSUME NEW x \in Below(i) PROVE x \in Below(k)
      <4>1. x \in K /\ x < i /\ x \in Nat /\ i \in Nat /\ k \in Nat
        OBVIOUS
      <4> QED  BY <4>1
    <3> QED  BY <3>1
  <2>2. i \in Below(k) /\ i \notin Below(i)
    OBVIOUS
  <2>3. /\ Cardinality(Below(i)) <= Cardinality(Below(k))
        /\ Cardinality(Below(k)) = Cardinality(Below(i)) => Below(k) = Below(i)
    BY <1>2, <2>1, FS_Subset, Below(i) \in SUBSET Below(k)
  <2>4. Cardinality(Below(i)) \in Nat /\ Cardinality(Below(k)) \in Nat
    BY <1>2, FS_CardinalityType
  <2> QED  BY <2>2, <2>3, <2>4 DEF RankIn
<1>4. \A i, k \in K : RankIn(K, i) = RankIn(K, k) => i = k
  <2> SUFFICES ASSUME NEW i \in K, NEW k \in K, RankIn(K, i) = RankIn(K, k), i # k
               PROVE  FALSE
    OBVIOUS
  <2>1. i < k \/ k < i
    OBVIOUS
  <2>2. RankIn(K, i) \in N /\ RankIn(K, k) \in N
    BY <1>2
  <2>3. RankIn(K, i) \in Int /\ RankIn(K, k) \in Int
    BY <1>1, <2>2
  <2> QED  BY <1>3, <2>1, <2>3
<1>5. \A j \in N : \E i \in K : RankIn(K, i) = j
  <2> DEFINE rank == [i \in K |-> RankIn(K, i)]
  <2>1. rank \in Injection(K, N)
    BY <1>2, <1>4 DEF Injection, IsInjective
  <2>2. IsFiniteSet(N) /\ Cardinality(N) = Cardinality(K)
    <3> DEFINE m == Cardinality(K) - 1
    <3>1. m \in Int /\ 0 \in Int /\ -1 <= m
      BY <1>1
    <3> HIDE DEF m
    <3>2. /\ IsFiniteSet(0 .. m)
          /\ Cardinality(0 .. m) = IF 0 > m THEN 0 ELSE m - 0 + 1
      BY <3>1, FS_Interval
    <3>3. Cardinality(0 .. m) = m + 1
      BY <3>1, <3>2
    <3> QED  BY <1>1, <3>2, <3>3 DEF m
  <2>3. rank \in Surjection(K, N)
    BY <2>1, <2>2, FS_Injection
  <2> QED  BY <2>3 DEF Surjection
<1> QED  BY <1>1, <1>2, <1>3, <1>4, <1>5

(* Keep(q, S) is the sub-sequence of the elements in S: it holds no other  *)
(* element, each of them, and none twice that q does not hold twice.       *)
LEMMA KeepFacts ==
  ASSUME NEW E, NEW q \in Seq(E), NEW S
  PROVE  /\ Keep(q, S) \in Seq(E)
         /\ Range(Keep(q, S)) = Range(q) \cap S
         /\ (\A i, j \in DOMAIN q : q[i] = q[j] /\ q[i] \in S => i = j)
                => IsInjective(Keep(q, S))
         /\ IsInjective(q) => IsInjective(Keep(q, S))
<1> DEFINE K == KeptAt(q, S)
           n == Cardinality(K)
           at(j) == CHOOSE i \in K : RankIn(K, i) = j - 1
<1>1. K \subseteq DOMAIN q /\ K \subseteq Nat /\ IsFiniteSet(K)
  <2>1. DOMAIN q = 1 .. Len(q) /\ Len(q) \in Nat
    OBVIOUS
  <2>2. K \subseteq 1 .. Len(q)
    BY <2>1 DEF KeptAt
  <2>3. IsFiniteSet(1 .. Len(q))
    BY <2>1, FS_Interval
  <2> QED  BY <2>1, <2>2, <2>3, FS_Subset, K \in SUBSET (1 .. Len(q))
<1>2. n \in Nat
  BY <1>1, Ranks
<1>3. \A j \in 1 .. n : at(j) \in K /\ RankIn(K, at(j)) = j - 1
  <2> SUFFICES ASSUME NEW j \in 1 .. n
               PROVE  at(j) \in K /\ RankIn(K, at(j)) = j - 1
    OBVIOUS
  <2>1. j - 1 \in 0 .. n - 1
    BY <1>2
  <2>2. \E i \in K : RankIn(K, i) = j - 1
    BY <1>1, <2>1, Ranks
  <2> QED  BY <2>2
<1>4. Keep(q, S) = [j \in 1 .. n |-> q[at(j)]]
  BY DEF Keep
<1>5. \A j \in 1 .. n : q[at(j)] \in E /\ q[at(j)] \in Range(q) \cap S
  <2> SUFFICES ASSUME NEW j \in 1 .. n
               PROVE  q[at(j)] \in E /\ q[at(j)] \in Range(q) \cap S
    OBVIOUS
  <2>1. at(j) \in K
    BY <1>3
  <2> HIDE DEF at
  <2>2. at(j) \in DOMAIN q /\ q[at(j)] \in S
    BY <2>1 DEF KeptAt
  <2> QED  BY <2>2 DEF Range
<1> HIDE DEF at
<1>6. Keep(q, S) \in Seq(E)
  BY <1>2, <1>4, <1>5
<1>7. Range(Keep(q, S)) = Range(q) \cap S
  <2>1. ASSUME NEW x \in Range(q) \cap S PROVE x \in Range(Keep(q, S))
    <3>1. PICK i \in DOMAIN q : q[i] = x
      BY DEF Range
    <3>2. i \in K
      BY <3>1 DEF KeptAt
    <3> DEFINE j == RankIn(K, i) + 1
    <3>3. j \in 1 .. n
      BY <1>1, <1>2, <3>2, Ranks
    <3>4. at(j) = i
      <4>1. RankIn(K, at(j)) = RankIn(K, i) /\ at(j) \in K
        <5>1. RankIn(K, i) \in Int
          BY <1>1, <1>2, <3>2, Ranks
        <5> QED  BY <1>3, <3>3, <5>1
      <4> QED  BY <1>1, <3>2, <4>1, Ranks
    <3> QED  BY <1>4, <3>1, <3>3, <3>4 DEF Range
  <2> QED  BY <1>4, <1>5, <2>1 DEF Range
<1>8. ASSUME \A i, j \in DOMAIN q : q[i] = q[j] /\ q[i] \in S => i = j
      PROVE  IsInjective(Keep(q, S))
  <2> SUFFICES ASSUME NEW i \in 1 .. n, NEW j \in 1 .. n, q[at(i)] = q[at(j)]
               PROVE  i = j
    BY <1>4 DEF IsInjective
  <2>1. at(i) \in DOMAIN q /\ at(j) \in DOMAIN q /\ q[at(i)] \in S
    BY <1>3 DEF KeptAt
  <2>2. at(i) = at(j)
    BY <1>8, <2>1
  <2> QED  BY <1>2, <1>3, <2>2
<1>9. IsInjective(q) => \A i, j \in DOMAIN q : q[i] = q[j] /\ q[i] \in S => i = j
  BY DEF IsInjective
<1> QED  BY <1>6, <1>7, <1>8, <1>9

(* A sequence without repetition is as long as its range is large. *)
LEMMA InjectiveLen ==
  ASSUME NEW E, NEW q \in Seq(E), IsInjective(q)
  PROVE  /\ IsFiniteSet(Range(q))
         /\ Cardinality(Range(q)) = Len(q)
<1>1. Len(q) \in Nat /\ DOMAIN q = 1 .. Len(q)
  OBVIOUS
<1>2. q \in Bijection(1 .. Len(q), Range(q))
  BY <1>1 DEF Bijection, Injection, Surjection, Range, IsInjective
<1>3. IsFiniteSet(1 .. Len(q)) /\ Cardinality(1 .. Len(q)) = Len(q)
  BY <1>1, FS_Interval
<1> QED  BY <1>2, <1>3, FS_Bijection DEF ExistsBijection

(* Taking a set of its elements out shortens a sequence by their number.   *)
LEMMA RemoveLen ==
  ASSUME NEW E, NEW q \in Seq(E), IsInjective(q), NEW S, S \subseteq Range(q)
  PROVE  Len(remove(q, S)) = Len(q) - Cardinality(S)
<1> DEFINE T == Range(q) \ S
<1>1. IsFiniteSet(Range(q)) /\ Cardinality(Range(q)) = Len(q)
  BY InjectiveLen
<1>2. IsFiniteSet(S) /\ IsFiniteSet(T)
  BY <1>1, FS_Subset, S \in SUBSET Range(q), T \in SUBSET Range(q)
<1>3. Cardinality(S) \in Nat /\ Cardinality(T) \in Nat
  BY <1>2, FS_CardinalityType
<1>4. S \cup T = Range(q) /\ S \cap T = {}
  OBVIOUS
<1>5. Cardinality(S \cup T) = Cardinality(S) + Cardinality(T) - Cardinality(S \cap T)
  BY <1>2, FS_Union
<1>6. Cardinality(S \cap T) = 0
  BY <1>4, FS_EmptySet
<1>7. Cardinality(Range(q)) = Cardinality(S) + Cardinality(T)
  <2>1. Cardinality(S \cup T) = Cardinality(S) + Cardinality(T)
    BY <1>3, <1>5, <1>6
  <2> QED  BY <1>4, <2>1
<1>8. /\ remove(q, S) \in Seq(E)
      /\ IsInjective(remove(q, S))
      /\ Range(remove(q, S)) = T
  BY KeepFacts DEF remove
<1>9. Cardinality(T) = Len(remove(q, S))
  BY <1>8, InjectiveLen
<1> QED  BY <1>1, <1>3, <1>7, <1>9

(* Cutting a sequence after its first n elements. *)
LEMMA PopFacts ==
  ASSUME NEW E, NEW q \in Seq(E), NEW n \in 0 .. Len(q)
  PROVE  LET p == popleft_n(q, n)
         IN  /\ p.taken \in Seq(E) /\ p.rest \in Seq(E)
             /\ Len(p.taken) = n /\ Len(p.rest) = Len(q) - n
             /\ Range(p.taken) \cup Range(p.rest) = Range(q)
             /\ IsInjective(q) =>
                   /\ IsInjective(p.taken) /\ IsInjective(p.rest)
                   /\ Range(p.taken) \cap Range(p.rest) = {}
<1> DEFINE t == SubSeq(q, 1, n)
           s == SubSeq(q, n + 1, Len(q))
<1>0. popleft_n(q, n).taken = t /\ popleft_n(q, n).rest = s
  BY DEF popleft_n
<1>1. /\ t \in Seq(E) /\ Len(t) = n /\ DOMAIN t = 1 .. n
      /\ \A i \in 1 .. n : t[i] = q[i]
  OBVIOUS
<1>2. /\ s \in Seq(E) /\ Len(s) = Len(q) - n /\ DOMAIN s = 1 .. Len(q) - n
      /\ \A i \in 1 .. Len(q) - n : s[i] = q[n + i]
  OBVIOUS
<1>3. DOMAIN q = 1 .. Len(q) /\ Len(q) \in Nat
  OBVIOUS
<1> HIDE DEF t, s
<1>4. Range(t) \cup Range(s) = Range(q)
  <2>1. ASSUME NEW x \in Range(q) PROVE x \in Range(t) \cup Range(s)
    <3>1. PICK i \in 1 .. Len(q) : q[i] = x
      BY <1>3 DEF Range
    <3>2. CASE i <= n
      BY <1>1, <3>1, <3>2 DEF Range
    <3>3. CASE i > n
      <4>1. i - n \in 1 .. Len(q) - n /\ n + (i - n) = i
        BY <1>3, <3>3
      <4> QED  BY <1>2, <3>1, <4>1 DEF Range
    <3> QED  BY <3>2, <3>3
  <2>2. Range(t) \subseteq Range(q)
    BY <1>1, <1>3 DEF Range
  <2>3. Range(s) \subseteq Range(q)
    <3>1. ASSUME NEW i \in 1 .. Len(q) - n PROVE n + i \in DOMAIN q
      BY <1>3
    <3> QED  BY <1>2, <3>1 DEF Range
  <2> QED  BY <2>1, <2>2, <2>3
<1>5. ASSUME IsInjective(q)
      PROVE  IsInjective(t) /\ IsInjective(s) /\ Range(t) \cap Range(s) = {}
  <2>1. IsInjective(t)
    BY <1>1, <1>3, <1>5 DEF IsInjective
  <2>2. IsInjective(s)
    <3> SUFFICES ASSUME NEW i \in 1 .. Len(q) - n, NEW j \in 1 .. Len(q) - n, s[i] = s[j]
                 PROVE  i = j
      BY <1>2 DEF IsInjective
    <3>1. q[n + i] = q[n + j] /\ n + i \in DOMAIN q /\ n + j \in DOMAIN q
      BY <1>2, <1>3
    <3>2. n + i = n + j
      BY <1>5, <3>1 DEF IsInjective
    <3> QED  BY <1>3, <3>2
  <2>3. ASSUME NEW i \in 1 .. n, NEW j \in 1 .. Len(q) - n, t[i] = s[j] PROVE FALSE
    <3>1. q[i] = q[n + j] /\ i \in DOMAIN q /\ n + j \in DOMAIN q
      BY <1>1, <1>2, <1>3, <2>3
    <3> QED  BY <1>3, <1>5, <3>1 DEF IsInjective
  <2> QED  BY <1>1, <1>2, <2>1, <2>2, <2>3 DEF Range
<1> QED  BY <1>0, <1>1, <1>2, <1>4, <1>5

(* Joining two sequences. *)
LEMMA ConcatFacts ==
  ASSUME NEW E, NEW s \in Seq(E), NEW t \in Seq(E)
  PROVE  /\ s \o t \in Seq(E)
         /\ Range(s \o t) = Range(s) \cup Range(t)
         /\ IsInjective(s) /\ IsInjective(t) /\ Range(s) \cap Range(t) = {}
               => IsInjective(s \o t)
<1>1. /\ s \o t \in Seq(E) /\ DOMAIN (s \o t) = 1 .. Len(s) + Len(t)
      /\ \A i \in 1 .. Len(s) + Len(t) :
           (s \o t)[i] = IF i <= Len(s) THEN s[i] ELSE t[i - Len(s)]
  OBVIOUS
<1>2. /\ Len(s) \in Nat /\ DOMAIN s = 1 .. Len(s)
      /\ Len(t) \in Nat /\ DOMAIN t = 1 .. Len(t)
  OBVIOUS
<1> DEFINE u == s \o t
<1> HIDE DEF u
<1>3. Range(u) = Range(s) \cup Range(t)
  <2>1. ASSUME NEW i \in DOMAIN s PROVE s[i] \in Range(u)
    <3>1. i \in 1 .. Len(s) + Len(t) /\ u[i] = s[i]
      BY <1>1, <1>2 DEF u
    <3> QED  BY <1>1, <3>1 DEF Range, u
  <2>2. ASSUME NEW i \in DOMAIN t PROVE t[i] \in Range(u)
    <3>1. Len(s) + i \in 1 .. Len(s) + Len(t) /\ u[Len(s) + i] = t[i]
      BY <1>1, <1>2 DEF u
    <3> QED  BY <1>1, <3>1 DEF Range, u
  <2>3. ASSUME NEW i \in DOMAIN u PROVE u[i] \in Range(s) \cup Range(t)
    <3>1. CASE i <= Len(s)
      BY <1>1, <1>2, <3>1 DEF Range, u
    <3>2. CASE i > Len(s)
      <4>1. i - Len(s) \in DOMAIN t /\ u[i] = t[i - Len(s)]
        BY <1>1, <1>2, <3>2 DEF u
      <4> QED  BY <4>1 DEF Range
    <3> QED  BY <1>1, <1>2, <3>1, <3>2 DEF u
  <2> QED  BY <2>1, <2>2, <2>3 DEF Range
<1>4. ASSUME IsInjective(s), IsInjective(t), Range(s) \cap Range(t) = {}
      PROVE  IsInjective(u)
  <2>1. ASSUME NEW i \in DOMAIN s, NEW j \in DOMAIN t PROVE s[i] # t[j]
    BY <1>4 DEF Range
  <2> SUFFICES ASSUME NEW i \in 1 .. Len(s) + Len(t), NEW j \in 1 .. Len(s) + Len(t),
                      u[i] = u[j]
               PROVE  i = j
    BY <1>1 DEF IsInjective, u
  <2>2. /\ i <= Len(s) => i \in DOMAIN s /\ u[i] = s[i]
        /\ i > Len(s) => i - Len(s) \in DOMAIN t /\ u[i] = t[i - Len(s)]
        /\ j <= Len(s) => j \in DOMAIN s /\ u[j] = s[j]
        /\ j > Len(s) => j - Len(s) \in DOMAIN t /\ u[j] = t[j - Len(s)]
    BY <1>1, <1>2 DEF u
  <2> QED  BY <1>2, <1>4, <2>1, <2>2 DEF IsInjective
<1> QED  BY <1>1, <1>3, <1>4 DEF u

(* free gives back the blocks of a table, whatever the order. *)
LEMMA ReverseFacts ==
  ASSUME NEW E, NEW s \in Seq(E)
  PROVE  /\ ReverseOf(s) \in Seq(E)
         /\ Range(ReverseOf(s)) = Range(s)
         /\ IsInjective(s) => IsInjective(ReverseOf(s))
<1>1. Len(s) \in Nat /\ DOMAIN s = 1 .. Len(s) /\ \A i \in 1 .. Len(s) : s[i] \in E
  OBVIOUS
<1>2. \A i \in 1 .. Len(s) : Len(s) + 1 - i \in 1 .. Len(s)
  BY <1>1
<1> DEFINE v == ReverseOf(s)
<1>3. /\ v = [i \in 1 .. Len(s) |-> s[Len(s) + 1 - i]]
      /\ DOMAIN v = 1 .. Len(s)
  BY DEF ReverseOf
<1> HIDE DEF v
<1>4. v \in Seq(E)
  BY <1>1, <1>2, <1>3
<1>5. Range(v) = Range(s)
  <2>1. ASSUME NEW i \in DOMAIN s PROVE s[i] \in Range(v)
    <3>1. /\ Len(s) + 1 - i \in DOMAIN v
          /\ Len(s) + 1 - (Len(s) + 1 - i) = i
      BY <1>1, <1>2, <1>3
    <3>2. v[Len(s) + 1 - i] = s[i]
      BY <1>2, <1>3, <3>1
    <3> QED  BY <3>1, <3>2 DEF Range
  <2>2. ASSUME NEW i \in DOMAIN v PROVE v[i] \in Range(s)
    BY <1>1, <1>2, <1>3 DEF Range
  <2> QED  BY <2>1, <2>2 DEF Range
<1>6. ASSUME IsInjective(s) PROVE IsInjective(v)
  <2> SUFFICES ASSUME NEW i \in 1 .. Len(s), NEW j \in 1 .. Len(s), v[i] = v[j]
               PROVE  i = j
    BY <1>3 DEF IsInjective
  <2>1. s[Len(s) + 1 - i] = s[Len(s) + 1 - j]
    BY <1>3
  <2>2. Len(s) + 1 - i = Len(s) + 1 - j
    BY <1>1, <1>2, <1>6, <2>1 DEF IsInjective
  <2> QED  BY <1>1, <2>2
<1> QED  BY <1>4, <1>5, <1>6 DEF v

----------------------------------------------------------------------------
(* Lists: what joins or leaves one, and where the others are then. *)

(* The elements of a sequence. *)
LEMMA RangeFacts ==
    ASSUME NEW E, NEW q \in Seq(E)
    PROVE  /\ Range(q) \subseteq E
           /\ \A x : x \in Range(q) <=> \E i \in 1 .. Len(q) : q[i] = x
           /\ IsInjective(q) <=> \A i, j \in 1 .. Len(q) : q[i] = q[j] => i = j
  BY DEF Range, IsInjective

(* An element put behind a sequence that does not hold it. *)
LEMMA AppendFacts ==
    ASSUME NEW E, NEW q \in Seq(E), NEW x \in E
    PROVE  /\ Append(q, x) \in Seq(E)
           /\ Range(Append(q, x)) = Range(q) \cup {x}
           /\ IsInjective(q) /\ x \notin Range(q) => IsInjective(Append(q, x))
  <1> DEFINE a == Append(q, x)
  <1>1. /\ a \in Seq(E) /\ Len(a) = Len(q) + 1 /\ Len(q) \in Nat /\ a[Len(q) + 1] = x
        /\ \A i \in 1 .. Len(q) : a[i] = q[i]
    OBVIOUS
  <1> HIDE DEF a
  <1>2. Range(a) = Range(q) \cup {x}
    BY <1>1, RangeFacts
  <1>3. ASSUME IsInjective(q), x \notin Range(q) PROVE IsInjective(a)
    <2> SUFFICES ASSUME NEW i \in 1 .. Len(a), NEW j \in 1 .. Len(a), a[i] = a[j] PROVE i = j
      BY <1>1, RangeFacts
    <2>1. \A k \in 1 .. Len(q) : q[k] # x
      BY <1>3, RangeFacts
    <2>2. \A k, l \in 1 .. Len(q) : q[k] = q[l] => k = l
      BY <1>3, RangeFacts
    <2> QED BY <1>1, <2>1, <2>2
  <1> QED BY <1>1, <1>2, <1>3 DEF a

(* A sequence without its head. *)
LEMMA TailFacts ==
    ASSUME NEW E, NEW q \in Seq(E), q # << >>
    PROVE  /\ Tail(q) \in Seq(E) /\ Head(q) \in E /\ Head(q) \in Range(q)
           /\ Range(Tail(q)) \subseteq Range(q)
           /\ Range(q) = Range(Tail(q)) \cup {Head(q)}
           /\ IsInjective(q) => IsInjective(Tail(q)) /\ Head(q) \notin Range(Tail(q))
  <1> DEFINE t == Tail(q)
  <1>1. /\ t \in Seq(E) /\ Len(q) \in Nat \ {0} /\ Len(t) = Len(q) - 1 /\ Head(q) = q[1]
        /\ \A i \in 1 .. Len(q) - 1 : t[i] = q[i + 1]
    OBVIOUS
  <1> HIDE DEF t
  <1>2. q[1] \in Range(q) /\ q[1] \in E
    BY <1>1, RangeFacts
  <1>3. Range(q) = Range(t) \cup {q[1]}
    <2>1. ASSUME NEW x \in Range(q) PROVE x \in Range(t) \cup {q[1]}
      <3>1. PICK i \in 1 .. Len(q) : q[i] = x
        BY RangeFacts
      <3>2. CASE i > 1
        <4>1. i - 1 \in 1 .. Len(t) /\ t[i - 1] = x
          BY <1>1, <3>1, <3>2
        <4> QED BY <4>1, <1>1, RangeFacts
      <3> QED BY <3>1, <3>2
    <2>2. ASSUME NEW x \in Range(t) PROVE x \in Range(q)
      <3>1. PICK i \in 1 .. Len(t) : t[i] = x
        BY <1>1, RangeFacts
      <3>2. i + 1 \in 1 .. Len(q) /\ q[i + 1] = x
        BY <1>1, <3>1
      <3> QED BY <3>2, RangeFacts
    <2> QED BY <2>1, <2>2, <1>2
  <1>4. ASSUME IsInjective(q) PROVE IsInjective(t) /\ q[1] \notin Range(t)
    <2>1. \A k, l \in 1 .. Len(q) : q[k] = q[l] => k = l
      BY <1>4, RangeFacts
    <2>2. \A k, l \in 1 .. Len(t) : t[k] = t[l] => k = l
      BY <2>1, <1>1
    <2>3. \A k \in 1 .. Len(t) : t[k] # q[1]
      BY <2>1, <1>1
    <2> QED BY <2>2, <2>3, <1>1, RangeFacts
  <1> QED BY <1>1, <1>2, <1>3, <1>4 DEF t

(* An element put in front of a sequence that does not hold it. *)
LEMMA PrependFacts ==
    ASSUME NEW E, NEW q \in Seq(E), NEW x \in E
    PROVE  /\ <<x>> \o q \in Seq(E)
           /\ Range(<<x>> \o q) = Range(q) \cup {x}
           /\ IsInjective(q) /\ x \notin Range(q) => IsInjective(<<x>> \o q)
  <1> DEFINE s == <<x>>
  <1>1. s \in Seq(E) /\ Range(s) = {x} /\ IsInjective(s)
    BY DEF Range, IsInjective
  <1> HIDE DEF s
  <1>2. /\ s \o q \in Seq(E)
        /\ Range(s \o q) = Range(s) \cup Range(q)
        /\ IsInjective(s) /\ IsInjective(q) /\ Range(s) \cap Range(q) = {}
              => IsInjective(s \o q)
    BY <1>1, ConcatFacts
  <1> QED BY <1>1, <1>2 DEF s

(* Keep takes elements in the order of the list, so that none moves back.  *)
Places(q, S, k, g) ==
    LET n == Len(k)
    IN  /\ g \in [1 .. n -> 1 .. Len(q)]
        /\ \A j \in 1 .. n : k[j] = q[g[j]] /\ q[g[j]] \in S /\ g[j] >= j
        /\ \A j, l \in 1 .. n : j < l => g[j] < g[l]
        /\ \A i \in 1 .. Len(q) : q[i] \in S => \E j \in 1 .. n : g[j] = i

(* Keep leaves the elements of S, in their order. *)
LEMMA KeepOrder ==
    ASSUME NEW E, NEW q \in Seq(E), NEW S
    PROVE  Len(Keep(q, S)) \in Nat /\ \E g : Places(q, S, Keep(q, S), g)
  <1> DEFINE K == KeptAt(q, S)
             n == Cardinality(K)
             g == [j \in 1 .. n |-> CHOOSE i \in K : RankIn(K, i) = j - 1]
  <1>1. K \subseteq 1 .. Len(q) /\ K \subseteq Nat /\ IsFiniteSet(K)
    <2>1. DOMAIN q = 1 .. Len(q) /\ Len(q) \in Nat
      OBVIOUS
    <2>2. K \subseteq 1 .. Len(q)
      BY <2>1 DEF KeptAt
    <2>3. IsFiniteSet(1 .. Len(q))
      BY <2>1, FS_Interval
    <2> QED BY <2>1, <2>2, <2>3, FS_Subset, K \in SUBSET (1 .. Len(q))
  <1>2. n \in Nat
    BY <1>1, Ranks
  <1>3. \A i \in K : q[i] \in S
    BY DEF KeptAt
  <1>4. \A i \in 1 .. Len(q) : q[i] \in S => i \in K
    BY DEF KeptAt
  <1>5. Keep(q, S) = [j \in 1 .. n |-> q[g[j]]] /\ Len(Keep(q, S)) = n
    <2>1. Keep(q, S) = [j \in 1 .. n |-> q[g[j]]]
      BY DEF Keep
    <2> QED BY <1>2, <2>1
  <1>6. \A j \in 1 .. n : g[j] \in K /\ RankIn(K, g[j]) = j - 1
    <2> SUFFICES ASSUME NEW j \in 1 .. n
                 PROVE  \E i \in K : RankIn(K, i) = j - 1
      OBVIOUS
    <2>1. j - 1 \in 0 .. n - 1
      BY <1>2
    <2> QED BY <1>1, <2>1, Ranks
  <1>7. g \in [1 .. n -> 1 .. Len(q)]
    BY <1>1, <1>6
  <1>8. /\ \A i, k \in K : i < k => RankIn(K, i) < RankIn(K, k)
        /\ \A i, k \in K : RankIn(K, i) = RankIn(K, k) => i = k
        /\ \A i \in K : RankIn(K, i) \in 0 .. n - 1
    BY <1>1, Ranks
  <1> HIDE DEF g, n, K
  <1>0. \A j \in 1 .. n : g[j] \in Nat \ {0}
    BY <1>7
  <1>9. \A j, l \in 1 .. n : j < l => g[j] < g[l]
    <2> SUFFICES ASSUME NEW j \in 1 .. n, NEW l \in 1 .. n, j < l, g[j] >= g[l] PROVE FALSE
      BY <1>0
    <2>1. g[j] \in K /\ g[l] \in K /\ g[j] \in Nat /\ g[l] \in Nat
      BY <1>1, <1>6
    <2>2. RankIn(K, g[j]) >= RankIn(K, g[l])
      BY <1>8, <2>1
    <2> QED BY <1>2, <1>6, <2>2
  <1>10. \A i \in 1 .. Len(q) : q[i] \in S => \E j \in 1 .. n : g[j] = i
    <2> SUFFICES ASSUME NEW i \in 1 .. Len(q), q[i] \in S
                 PROVE  \E j \in 1 .. n : g[j] = i
      OBVIOUS
    <2>1. i \in K /\ RankIn(K, i) \in 0 .. n - 1
      BY <1>4, <1>8
    <2> DEFINE j == RankIn(K, i) + 1
    <2>2. j \in 1 .. n /\ j - 1 = RankIn(K, i)
      BY <1>2, <2>1
    <2>3. g[j] = i
      BY <1>6, <1>8, <2>1, <2>2
    <2> QED BY <2>2, <2>3
  <1>11. \A j \in 1 .. n : g[j] >= j
    <2> DEFINE Bad == {j \in 1 .. n : g[j] < j}
    <2> SUFFICES ASSUME Bad # {} PROVE FALSE
      BY <1>0
    <2>1. PICK j \in Bad : \A l \in Bad : j <= l
      <3>1. Bad \subseteq Nat
        OBVIOUS
      <3> HIDE DEF Bad
      <3> QED BY <3>1, LeastNatural
    <2>2. j \in 1 .. n /\ g[j] < j /\ g[j] \in Nat \ {0}
      BY <1>0
    <2>3. j - 1 \in 1 .. n /\ j - 1 \notin Bad
      BY <1>2, <2>1, <2>2
    <2>4. g[j - 1] >= j - 1 /\ g[j - 1] \in Nat
      BY <1>0, <2>3
    <2>5. g[j - 1] < g[j]
      BY <1>9, <2>2, <2>3
    <2> QED BY <2>2, <2>4, <2>5
  <1>12. Places(q, S, Keep(q, S), g)
    BY <1>2, <1>3, <1>5, <1>6, <1>7, <1>9, <1>10, <1>11 DEF Places
  <1> QED BY <1>2, <1>5, <1>12

(* Taking one element out of a list: those before it stay where they are,  *)
(* those behind it move up.                                                *)
Without(E, q, p, k) ==
    /\ k \in Seq(E) /\ IsInjective(k) /\ Range(k) = Range(q) \ {q[p]}
    /\ Len(k) \in Nat /\ Len(k) <= Len(q)
    /\ \A j \in 1 .. Len(k) :
          \E i \in 1 .. Len(q) : i >= j /\ (j >= p => i > j) /\ q[i] = k[j]
    /\ \A i \in 1 .. Len(q) : i # p =>
          \E j \in 1 .. Len(k) : j <= i /\ (i > p => j < i) /\ (i < p => j = i) /\ k[j] = q[i]

(* Keeping all but one element takes it out of its place. *)
LEMMA KeepWithout ==
    ASSUME NEW E, NEW q \in Seq(E), IsInjective(q), NEW p \in 1 .. Len(q)
    PROVE  Without(E, q, p, Keep(q, E \ {q[p]}))
  <1> DEFINE S == E \ {q[p]}
             k == Keep(q, S)
             n == Len(k)
  <1>1. k \in Seq(E) /\ IsInjective(k) /\ Range(k) = Range(q) \cap S
    BY KeepFacts
  <1>2. Range(k) = Range(q) \ {q[p]}
    BY <1>1, RangeFacts
  <1>3. n \in Nat /\ \E g : Places(q, S, k, g)
    BY KeepOrder
  <1>4. PICK g : /\ g \in [1 .. n -> 1 .. Len(q)]
                 /\ \A j \in 1 .. n : k[j] = q[g[j]] /\ q[g[j]] \in S /\ g[j] >= j
                 /\ \A j, l \in 1 .. n : j < l => g[j] < g[l]
                 /\ \A i \in 1 .. Len(q) : q[i] \in S => \E j \in 1 .. n : g[j] = i
    BY <1>3 DEF Places
  <1>5. /\ \A i \in 1 .. Len(q) : q[i] \in E /\ (q[i] = q[p] <=> i = p)
        /\ Len(q) \in Nat
    BY DEF IsInjective
  <1>6. \A i \in 1 .. Len(q) : q[i] \in S <=> i # p
    BY <1>5
  <1> HIDE DEF S, k, n
  <1>7. \A j \in 1 .. n : g[j] \in 1 .. Len(q) /\ g[j] # p /\ g[j] >= j /\ k[j] = q[g[j]]
    BY <1>4, <1>6
  <1>8. \A j \in 1 .. n : j >= p => g[j] > j
    <2> DEFINE Bad == {j \in 1 .. n : j >= p /\ g[j] <= j}
    <2> SUFFICES ASSUME Bad # {} PROVE FALSE
      BY <1>7
    <2>1. PICK j \in Bad : \A l \in Bad : j <= l
      <3>1. Bad \subseteq Nat
        OBVIOUS
      <3> HIDE DEF Bad
      <3> QED BY <3>1, LeastNatural
    <2>2. j \in 1 .. n /\ j >= p /\ g[j] = j /\ j > p
      BY <1>7
    <2>3. j - 1 \in 1 .. n /\ j - 1 >= p /\ j - 1 \notin Bad
      BY <1>3, <2>1, <2>2
    <2>4. g[j - 1] >= j
      BY <1>7, <2>3
    <2>5. g[j - 1] < g[j]
      BY <1>4, <2>2, <2>3
    <2> QED BY <1>7, <2>2, <2>3, <2>4, <2>5
  <1>9. \A i \in 1 .. Len(q) : i < p => i \in 1 .. n /\ g[i] = i
    <2> DEFINE Bad == {i \in 1 .. Len(q) : i < p /\ ~(i \in 1 .. n /\ g[i] = i)}
    <2> SUFFICES ASSUME Bad # {} PROVE FALSE
      OBVIOUS
    <2>1. PICK i \in Bad : \A l \in Bad : i <= l
      <3>1. Bad \subseteq Nat
        OBVIOUS
      <3> HIDE DEF Bad
      <3> QED BY <3>1, LeastNatural
    <2>2. i \in 1 .. Len(q) /\ i < p /\ ~(i \in 1 .. n /\ g[i] = i)
      OBVIOUS
    <2>3. PICK j \in 1 .. n : g[j] = i
      BY <1>4, <1>6, <2>2
    <2>4. j >= i
      <3> SUFFICES ASSUME j < i PROVE FALSE
        BY <2>2
      <3>1. j \in 1 .. Len(q) /\ j < p /\ j \notin Bad
        BY <1>5, <2>1, <2>2
      <3> QED BY <2>2, <2>3, <3>1
    <2>5. i \in 1 .. n
      BY <1>3, <2>2, <2>4
    <2>6. j = i
      <3> SUFFICES ASSUME j > i PROVE FALSE
        BY <2>2, <2>4
      <3>1. g[i] < g[j]
        BY <1>4, <2>5
      <3> QED BY <1>7, <2>2, <2>3, <2>5, <3>1
    <2> QED BY <2>2, <2>3, <2>5, <2>6
  <1>10. ASSUME NEW i \in 1 .. Len(q), i # p
         PROVE  \E j \in 1 .. n : j <= i /\ (i > p => j < i) /\ (i < p => j = i) /\ k[j] = q[i]
    <2>1. CASE i < p
      BY <1>7, <1>9, <2>1
    <2>2. CASE i > p
      <3>1. PICK j \in 1 .. n : g[j] = i
        BY <1>4, <1>6, <1>10
      <3>2. j <= i /\ k[j] = q[i]
        BY <1>7, <3>1
      <3>3. j # i
        BY <1>8, <2>2, <3>1
      <3> QED BY <2>2, <3>2, <3>3
    <2> QED BY <1>10, <2>1, <2>2
  <1>11. n <= Len(q)
    <2>1. CASE n = 0
      BY <1>5, <2>1
    <2>2. CASE n # 0
      <3>1. n \in 1 .. n
        BY <1>3, <2>2
      <3> QED BY <1>7, <3>1, <1>5
    <2> QED BY <2>1, <2>2
  <1>12. \A j \in 1 .. n : \E i \in 1 .. Len(q) : i >= j /\ (j >= p => i > j) /\ q[i] = k[j]
    BY <1>7, <1>8
  <1>13. Without(E, q, p, k)
    BY <1>1, <1>2, <1>3, <1>10, <1>11, <1>12 DEF n, Without
  <1> QED BY <1>13 DEF k, S

(* A list gets no longer by keeping some of it. *)
LEMMA KeepLength ==
    ASSUME NEW E, NEW q \in Seq(E), NEW S
    PROVE  Len(Keep(q, S)) \in Nat /\ Len(Keep(q, S)) <= Len(q)
  <1> DEFINE k == Keep(q, S)
             n == Len(k)
  <1>1. n \in Nat /\ \E g : Places(q, S, k, g)
    BY KeepOrder
  <1>2. PICK g : /\ g \in [1 .. n -> 1 .. Len(q)]
                 /\ \A j \in 1 .. n : g[j] >= j
    BY <1>1 DEF Places
  <1>3. Len(q) \in Nat
    OBVIOUS
  <1> HIDE DEF n
  <1>4. CASE n = 0
    BY <1>3, <1>4 DEF n
  <1>5. CASE n # 0
    <2>1. n \in 1 .. n
      BY <1>1, <1>5
    <2>2. g[n] \in 1 .. Len(q) /\ g[n] >= n
      BY <1>2, <2>1
    <2>3. n <= Len(q)
      BY <1>1, <1>3, <2>2
    <2> QED BY <1>1, <2>3 DEF n
  <1> QED BY <1>4, <1>5

----------------------------------------------------------------------------
(* Sums.  The sum of a function is a fold: that over a set adds one of its *)
(* elements, Some, to that over the rest.                                  *)
Total(f) == FoldFunction(+, 0, f)
Some(s) == CHOOSE x \in s : TRUE
TotalStep(f, h, s) == IF s = {} THEN 0 ELSE f[Some(s)] + h[s \ {Some(s)}]
TotalOf(f, S) == CHOOSE h : h = [s \in SUBSET S |-> TotalStep(f, h, s)]

(* The sum of a function, unfolded to its recursive definition. *)
LEMMA TotalUnfolds ==
    ASSUME NEW S, NEW f \in [S -> Nat]
    PROVE  Total(f) = TotalOf(f, S)[S]
  <1>1. Total(f) = FoldFunctionOnSet(+, 0, f, S)
    BY DEF Total, FoldFunction
  <1>2. FoldFunctionOnSet(+, 0, f, S) =
           LET iter[s \in SUBSET S] ==
                 IF s = {} THEN 0
                 ELSE LET x == CHOOSE x \in s : TRUE
                      IN  f[x] + iter[s \ {x}]
           IN  iter[S]
    BY DEF FoldFunctionOnSet, MapThenFoldSet
  <1> QED BY <1>1, <1>2 DEF TotalOf, TotalStep, Some

(* The sets of up to n elements. *)
UpTo(S, n) == {s \in SUBSET S : Cardinality(s) <= n}

(* A set without the element that is chosen from it. *)
LEMMA SmallerSets ==
    ASSUME NEW S, IsFiniteSet(S), NEW s \in SUBSET S, s # {}
    PROVE  /\ Some(s) \in s /\ s \ {Some(s)} \in SUBSET S
           /\ Cardinality(s) \in Nat \ {0}
           /\ Cardinality(s \ {Some(s)}) = Cardinality(s) - 1
  <1>1. Some(s) \in s
    BY DEF Some
  <1>2. IsFiniteSet(s)
    BY FS_Subset
  <1>3. Cardinality(s) \in Nat /\ Cardinality(s \ {Some(s)}) = Cardinality(s) - 1
    BY <1>1, <1>2, FS_CardinalityType, FS_RemoveElement
  <1>4. Cardinality(s) # 0
    BY <1>2, FS_EmptySet
  <1> QED BY <1>1, <1>3, <1>4

(* The sums over all subsets exist, by induction on the size of the sets.  *)
LEMMA TotalsExist ==
    ASSUME NEW S, IsFiniteSet(S), NEW f \in [S -> Nat]
    PROVE  \E h \in [SUBSET S -> Nat] : \A s \in SUBSET S : h[s] = TotalStep(f, h, s)
  <1> DEFINE Sums(n, h) == \A s \in UpTo(S, n) : h[s] = TotalStep(f, h, s)
             Bad == {n \in Nat : ~ \E h \in [SUBSET S -> Nat] : Sums(n, h)}
  <1>1. Bad = {}
    <2> SUFFICES ASSUME Bad # {} PROVE FALSE
      OBVIOUS
    <2>1. PICK n \in Bad : \A m \in Bad : n <= m
      BY LeastNatural
    <2>2. n # 0
      <3> SUFFICES ASSUME n = 0 PROVE FALSE
        OBVIOUS
      <3> DEFINE h == [s \in SUBSET S |-> 0]
      <3>1. \A s \in UpTo(S, 0) : s = {}
        <4> SUFFICES ASSUME NEW s \in UpTo(S, 0), s # {} PROVE FALSE
          OBVIOUS
        <4>1. s \in SUBSET S /\ Cardinality(s) <= 0
          BY DEF UpTo
        <4>2. Cardinality(s) \in Nat \ {0}
          BY <4>1, SmallerSets
        <4> QED BY <4>1, <4>2
      <3>2. h \in [SUBSET S -> Nat] /\ {} \in SUBSET S /\ h[{}] = 0
        OBVIOUS
      <3>3. Sums(0, h)
        BY <3>1, <3>2 DEF TotalStep
      <3> QED BY <2>1, <3>2, <3>3
    <2>3. n \in Nat /\ n - 1 \in Nat /\ n - 1 \notin Bad
      <3>1. n \in Nat
        BY <2>1
      <3>2. n - 1 \in Nat /\ ~(n <= n - 1)
        BY <2>2, <3>1
      <3> QED BY <2>1, <3>1, <3>2
    <2>4. PICK g \in [SUBSET S -> Nat] : Sums(n - 1, g)
      BY <2>3
    <2> DEFINE h == [s \in SUBSET S |-> IF s \in UpTo(S, n - 1) THEN g[s] ELSE
                                        IF s = {} THEN 0 ELSE TotalStep(f, g, s)]
    <2>5. h \in [SUBSET S -> Nat]
      <3> SUFFICES ASSUME NEW s \in SUBSET S, s # {} PROVE TotalStep(f, g, s) \in Nat
        BY DEF UpTo
      <3>1. Some(s) \in S /\ s \ {Some(s)} \in SUBSET S
        BY SmallerSets
      <3>2. f[Some(s)] \in Nat /\ g[s \ {Some(s)}] \in Nat
        BY <3>1
      <3> QED BY <3>2 DEF TotalStep
    <2>6. ASSUME NEW s \in UpTo(S, n) PROVE h[s] = TotalStep(f, h, s)
      <3>1. s \in SUBSET S /\ Cardinality(s) <= n
        BY DEF UpTo
      <3>2. CASE s = {}
        <4>1. Cardinality(s) = 0
          BY <3>2, FS_EmptySet
        <4>2. s \in UpTo(S, n - 1)
          BY <2>3, <3>1, <4>1 DEF UpTo
        <4>3. h[s] = g[s] /\ g[s] = 0
          BY <2>4, <3>1, <3>2, <4>2 DEF TotalStep
        <4> QED BY <3>2, <4>3 DEF TotalStep
      <3>3. CASE s # {}
        <4>1. /\ s \ {Some(s)} \in SUBSET S /\ Cardinality(s) \in Nat
              /\ Cardinality(s \ {Some(s)}) = Cardinality(s) - 1
          BY <3>1, <3>3, SmallerSets
        <4>2. s \ {Some(s)} \in UpTo(S, n - 1)
          BY <2>3, <3>1, <4>1 DEF UpTo
        <4>3. h[s \ {Some(s)}] = g[s \ {Some(s)}]
          BY <4>1, <4>2
        <4>4. h[s] = TotalStep(f, g, s)
          BY <2>4, <3>1, <3>3
        <4> QED BY <3>3, <4>3, <4>4 DEF TotalStep
      <3> QED BY <3>2, <3>3
    <2> HIDE DEF h
    <2>7. n \notin Bad
      BY <2>5, <2>6
    <2> QED BY <2>1, <2>7
  <1>2. Cardinality(S) \in Nat
    BY FS_CardinalityType
  <1>3. PICK h \in [SUBSET S -> Nat] : Sums(Cardinality(S), h)
    BY <1>1, <1>2
  <1>4. UpTo(S, Cardinality(S)) = SUBSET S
    BY FS_Subset DEF UpTo
  <1> QED BY <1>3, <1>4

(* The sum over a set is that over the rest and one more, and a natural    *)
(* number.                                                                 *)
LEMMA TotalFacts ==
    ASSUME NEW S, IsFiniteSet(S), NEW f \in [S -> Nat]
    PROVE  /\ Total(f) = TotalOf(f, S)[S]
           /\ \A s \in SUBSET S : TotalOf(f, S)[s] = TotalStep(f, TotalOf(f, S), s)
           /\ \A s \in SUBSET S : TotalOf(f, S)[s] \in Nat
  <1> DEFINE h == TotalOf(f, S)
  <1>1. \E k : k = [s \in SUBSET S |-> TotalStep(f, k, s)]
    <2>1. PICK k \in [SUBSET S -> Nat] : \A s \in SUBSET S : k[s] = TotalStep(f, k, s)
      BY TotalsExist
    <2>2. k = [s \in SUBSET S |-> TotalStep(f, k, s)]
      BY <2>1
    <2> QED BY <2>2
  <1>2. h = [s \in SUBSET S |-> TotalStep(f, h, s)]
    BY <1>1 DEF TotalOf
  <1> HIDE DEF h
  <1>3. \A s \in SUBSET S : h[s] = TotalStep(f, h, s)
    BY <1>2
  <1>4. \A s \in SUBSET S : h[s] \in Nat
    <2> DEFINE Bad == {n \in Nat : \E s \in SUBSET S : Cardinality(s) = n /\ h[s] \notin Nat}
    <2>1. \A s \in SUBSET S : Cardinality(s) \in Nat
      BY FS_Subset, FS_CardinalityType
    <2> SUFFICES ASSUME Bad # {} PROVE FALSE
      BY <2>1
    <2>2. PICK n \in Bad : \A m \in Bad : n <= m
      BY LeastNatural
    <2>3. PICK s \in SUBSET S : Cardinality(s) = n /\ h[s] \notin Nat
      BY <2>2
    <2>4. s # {}
      BY <1>3, <2>3 DEF TotalStep
    <2>5. /\ Some(s) \in s /\ s \ {Some(s)} \in SUBSET S /\ n \in Nat \ {0}
          /\ Cardinality(s \ {Some(s)}) = n - 1
      BY <2>3, <2>4, SmallerSets
    <2>6. h[s \ {Some(s)}] \in Nat
      <3>1. n - 1 \in Nat /\ ~(n <= n - 1)
        BY <2>5
      <3>2. n - 1 \notin Bad
        BY <2>2, <3>1
      <3> QED BY <2>5, <3>1, <3>2
    <2>7. f[Some(s)] \in Nat
      BY <2>5
    <2> QED BY <1>3, <2>3, <2>4, <2>6, <2>7 DEF TotalStep
  <1> QED BY <1>3, <1>4, TotalUnfolds DEF h

(* Changing one summand changes the sum by as much. *)
LEMMA TotalUpdate ==
    ASSUME NEW S, IsFiniteSet(S), NEW f \in [S -> Nat], NEW x \in S, NEW n \in Nat,
           NEW g \in [S -> Nat], g[x] = n, \A y \in S : y # x => g[y] = f[y]
    PROVE  Total(f) \in Nat /\ Total(g) \in Nat /\ Total(g) + f[x] = Total(f) + n
  <1> DEFINE a == TotalOf(f, S)
             b == TotalOf(g, S)
  <1>1. g \in [S -> Nat] /\ g[x] = n /\ f[x] \in Nat /\ \A y \in S : y # x => g[y] = f[y]
    OBVIOUS
  <1>0. ASSUME NEW q \in [S -> Nat]
        PROVE  /\ Total(q) = TotalOf(q, S)[S]
               /\ \A s \in SUBSET S : /\ TotalOf(q, S)[s] = TotalStep(q, TotalOf(q, S), s)
                                      /\ TotalOf(q, S)[s] \in Nat
    BY TotalFacts
  <1>2. /\ Total(f) = a[S]
        /\ \A s \in SUBSET S : a[s] = TotalStep(f, a, s) /\ a[s] \in Nat
    BY <1>0
  <1>3. /\ Total(g) = b[S]
        /\ \A s \in SUBSET S : b[s] = TotalStep(g, b, s) /\ b[s] \in Nat
    BY <1>0, <1>1
  <1> HIDE DEF a, b
  <1> DEFINE Off(s) == IF x \in s THEN b[s] + f[x] # a[s] + n ELSE b[s] # a[s]
             Bad == {k \in Nat : \E s \in SUBSET S : Cardinality(s) = k /\ Off(s)}
  <1>4. \A s \in SUBSET S : ~Off(s)
    <2>1. \A s \in SUBSET S : Cardinality(s) \in Nat
      BY FS_Subset, FS_CardinalityType
    <2> SUFFICES ASSUME Bad # {} PROVE FALSE
      BY <2>1
    <2>2. PICK k \in Bad : \A m \in Bad : k <= m
      BY LeastNatural
    <2>3. PICK s \in SUBSET S : Cardinality(s) = k /\ Off(s)
      BY <2>2
    <2>4. s # {}
      <3> SUFFICES ASSUME s = {} PROVE FALSE
        OBVIOUS
      <3>1. b[s] = 0 /\ a[s] = 0
        BY <1>2, <1>3 DEF TotalStep
      <3> QED BY <2>3, <3>1
    <2> DEFINE y == Some(s)
               t == s \ {y}
    <2>5. /\ y \in s /\ y \in S /\ t \in SUBSET S /\ k \in Nat \ {0} /\ Cardinality(t) = k - 1
      BY <2>3, <2>4, SmallerSets
    <2>6. ~Off(t)
      <3>1. k - 1 \in Nat /\ ~(k <= k - 1)
        BY <2>5
      <3>2. k - 1 \notin Bad
        BY <2>2, <3>1
      <3> QED BY <2>5, <3>1, <3>2
    <2>7. /\ a[s] = f[y] + a[t] /\ b[s] = g[y] + b[t]
          /\ f[y] \in Nat /\ g[y] \in Nat /\ a[t] \in Nat /\ b[t] \in Nat
      BY <1>1, <1>2, <1>3, <2>4, <2>5 DEF TotalStep
    <2>8. x \in s <=> x \in t \/ x = y
      BY <2>5
    <2>9. y \notin t
      OBVIOUS
    <2> HIDE DEF y, t
    <2>10. CASE x = y
      <3>1. b[t] = a[t] /\ g[y] = n
        BY <1>1, <2>6, <2>9, <2>10
      <3> QED BY <1>1, <2>3, <2>7, <2>8, <2>10, <3>1
    <2>11. CASE x # y
      <3>1. g[y] = f[y]
        BY <1>1, <2>5, <2>11
      <3> QED BY <1>1, <2>3, <2>6, <2>7, <2>8, <2>11, <3>1
    <2> QED BY <2>10, <2>11
  <1>5. b[S] + f[x] = a[S] + n
    <2>1. S \in SUBSET S
      OBVIOUS
    <2> QED BY <1>4, <2>1
  <1> QED BY <1>2, <1>3, <1>5

(* The sum of nothing. *)
LEMMA TotalZero ==
    ASSUME NEW S, IsFiniteSet(S), NEW f \in [S -> Nat], \A x \in S : f[x] = 0
    PROVE  Total(f) = 0
  <1> DEFINE a == TotalOf(f, S)
             Bad == {k \in Nat : \E s \in SUBSET S : Cardinality(s) = k /\ a[s] # 0}
  <1>1. /\ Total(f) = a[S]
        /\ \A s \in SUBSET S : a[s] = TotalStep(f, a, s) /\ a[s] \in Nat
    BY TotalFacts
  <1> HIDE DEF a
  <1>2. \A s \in SUBSET S : a[s] = 0
    <2>1. \A s \in SUBSET S : Cardinality(s) \in Nat
      BY FS_Subset, FS_CardinalityType
    <2> SUFFICES ASSUME Bad # {} PROVE FALSE
      BY <2>1
    <2>2. PICK k \in Bad : \A m \in Bad : k <= m
      BY LeastNatural
    <2>3. PICK s \in SUBSET S : Cardinality(s) = k /\ a[s] # 0
      BY <2>2
    <2>4. s # {}
      BY <1>1, <2>3 DEF TotalStep
    <2>5. /\ Some(s) \in s /\ s \ {Some(s)} \in SUBSET S /\ k \in Nat \ {0}
          /\ Cardinality(s \ {Some(s)}) = k - 1
      BY <2>3, <2>4, SmallerSets
    <2>6. a[s \ {Some(s)}] = 0
      <3>1. k - 1 \in Nat /\ ~(k <= k - 1)
        BY <2>5
      <3>2. k - 1 \notin Bad
        BY <2>2, <3>1
      <3> QED BY <2>5, <3>1, <3>2
    <2>7. f[Some(s)] = 0
      BY <2>5
    <2>8. a[s] = f[Some(s)] + a[s \ {Some(s)}]
      BY <1>1, <2>3, <2>4 DEF TotalStep
    <2> QED BY <2>3, <2>6, <2>7, <2>8
  <1>3. S \in SUBSET S
    OBVIOUS
  <1> QED BY <1>1, <1>2, <1>3

(* A sum is at least any of its summands. *)
LEMMA TotalAtLeast ==
    ASSUME NEW S, IsFiniteSet(S), NEW f \in [S -> Nat], NEW x \in S
    PROVE  Total(f) \in Nat /\ f[x] <= Total(f)
  <1> DEFINE g == [f EXCEPT ![x] = 0]
  <1>1. /\ g \in [S -> Nat] /\ g[x] = 0 /\ \A y \in S : y # x => g[y] = f[y]
        /\ f[x] \in Nat
    OBVIOUS
  <1> HIDE DEF g
  <1>2. Total(f) \in Nat /\ Total(g) \in Nat /\ Total(g) + f[x] = Total(f) + 0
    BY <1>1, TotalUpdate
  <1> QED BY <1>1, <1>2

----------------------------------------------------------------------------
(* BlockPool *)

(* Block ids are a finite set of positive numbers: 0 is the null block. *)
LEMMA BlocksAreNat == Blocks \subseteq Nat \ {0} /\ IsFiniteSet(Blocks)
                      /\ Cardinality(Blocks) = NumGpuBlocks - 1
<1>1. NumGpuBlocks - 1 \in Nat
  BY PoolAssumption
<1> DEFINE m == NumGpuBlocks - 1
<1> HIDE DEF m
<1>2. IsFiniteSet(1 .. m) /\ Cardinality(1 .. m) = m
  BY <1>1, FS_Interval DEF m
<1> QED  BY <1>1, <1>2 DEF Blocks, m

(* A lookup that hits returns a block cached under the hash asked for. *)
LEMMA CachedBlock ==
  ASSUME NEW pool, NEW h, CachedUnder(pool, h) # {}
  PROVE  get_cached_block(pool, h) \in CachedUnder(pool, h)
<1>1. CachedUnder(pool, h) \subseteq Nat
  BY BlocksAreNat DEF CachedUnder
<1>2. \E b \in CachedUnder(pool, h) : \A c \in CachedUnder(pool, h) : b <= c
  BY <1>1, LeastNatural
<1> QED  BY <1>2 DEF get_cached_block

(* The block hashes of a request are the prefixes its blocks end. *)
LEMMA BlockHashes ==
  ASSUME NEW toks \in Seq(Token)
  PROVE  /\ block_hashes(toks) \in Seq(Hash)
         /\ Len(block_hashes(toks)) = Len(toks) \div BlockSize
         /\ \A i \in 1 .. Len(toks) \div BlockSize :
              /\ block_hashes(toks)[i] = SubSeq(toks, 1, i * BlockSize)
              /\ i * BlockSize \in 1 .. Len(toks)
              /\ Len(SubSeq(toks, 1, i * BlockSize)) = i * BlockSize
              /\ SubSeq(toks, 1, i * BlockSize) # NoHash
<1> DEFINE n == Len(toks) \div BlockSize
<1>1. BlockSize \in Nat \ {0} /\ Len(toks) \in Nat
  BY PoolAssumption
<1>2. n \in Nat /\ n * BlockSize <= Len(toks)
  BY <1>1, DivBounds
<1>3. ASSUME NEW i \in 1 .. n
      PROVE  /\ i * BlockSize \in 1 .. Len(toks)
             /\ SubSeq(toks, 1, i * BlockSize) \in Hash
             /\ Len(SubSeq(toks, 1, i * BlockSize)) = i * BlockSize
             /\ SubSeq(toks, 1, i * BlockSize) # NoHash
  <2>1. i * BlockSize \in Nat /\ i * BlockSize <= n * BlockSize
    BY <1>1, <1>2, TimesMonotonic
  <2>2. 1 * BlockSize <= i * BlockSize /\ 1 * BlockSize = BlockSize
    BY <1>1, <1>2, TimesMonotonic
  <2>3. i * BlockSize \in 1 .. Len(toks)
    BY <1>1, <1>2, <2>1, <2>2
  <2> DEFINE m == i * BlockSize
  <2> HIDE DEF m
  <2>4. SubSeq(toks, 1, m) \in Seq(Token) /\ Len(SubSeq(toks, 1, m)) = m
    BY <1>1, <2>3 DEF m
  <2>5. SubSeq(toks, 1, m) # << >>
    BY <2>3, <2>4 DEF m
  <2> QED  BY <2>3, <2>4, <2>5 DEF m, Hash, NoHash
<1> HIDE DEF n
<1>4. block_hashes(toks) = [i \in 1 .. n |-> SubSeq(toks, 1, i * BlockSize)]
  BY DEF block_hashes, n
<1>5. block_hashes(toks) \in Seq(Hash) /\ Len(block_hashes(toks)) = n
  BY <1>2, <1>3, <1>4
<1> QED  BY <1>3, <1>4, <1>5 DEF n

----------------------------------------------------------------------------
(* The operations of the pool keep its free list and its hash map exact.   *)

FreeListOK(pool) ==
    /\ IsInjective(pool.free_block_queue)
    /\ Range(pool.free_block_queue) = {b \in Blocks : pool.ref_cnt[b] = 0}

HashMapOK(pool) ==
    /\ pool.cached_block_hash_to_block =
         {<<pool.block_hash[b], b>> : b \in {c \in Blocks : pool.block_hash[c] # NoHash}}
    /\ EnableCaching \/ \A b \in Blocks : pool.block_hash[b] = NoHash

(* What PoolType says of each field. *)
LEMMA PoolFields ==
  ASSUME NEW pool \in PoolType
  PROVE  /\ pool.free_block_queue \in Seq(Blocks)
         /\ pool.ref_cnt \in [Blocks -> Int]
         /\ pool.block_hash \in [Blocks -> Hash]
         /\ pool.cached_block_hash_to_block \in SUBSET (Hash \X Blocks)
  BY DEF PoolType

(* free_blocks drops one owner of each block given, and returns those left *)
(* without to the free list.                                               *)
LEMMA FreeBlocksPool ==
  ASSUME NEW pool \in PoolType, FreeListOK(pool),
         NEW s \in Seq(Blocks), IsInjective(s), \A b \in Range(s) : pool.ref_cnt[b] > 0
  PROVE  LET p == free_blocks(pool, s)
         IN  /\ p \in PoolType
             /\ FreeListOK(p)
             /\ p.ref_cnt = [b \in Blocks |-> IF b \in Range(s) THEN pool.ref_cnt[b] - 1
                                                              ELSE pool.ref_cnt[b]]
             /\ p.block_hash = pool.block_hash
             /\ p.cached_block_hash_to_block = pool.cached_block_hash_to_block
<1> DEFINE p == free_blocks(pool, s)
           q == pool.free_block_queue
           ref == pool.ref_cnt
           gone == {b \in Range(s) : ref[b] = 1}
           bare == Keep(s, {b \in gone : pool.block_hash[b] = NoHash})
           full == Keep(s, {b \in gone : pool.block_hash[b] # NoHash})
           left == [b \in Blocks |-> IF b \in Range(s) THEN ref[b] - 1 ELSE ref[b]]
           front == bare \o q
           queue == front \o full
<1>1. /\ q \in Seq(Blocks) /\ ref \in [Blocks -> Int] /\ pool.block_hash \in [Blocks -> Hash]
      /\ IsInjective(q) /\ Range(q) = {b \in Blocks : ref[b] = 0}
      /\ Range(s) \subseteq Blocks
  BY PoolFields DEF FreeListOK, Range
<1>2. /\ bare \in Seq(Blocks) /\ IsInjective(bare)
      /\ Range(bare) = {b \in gone : pool.block_hash[b] = NoHash}
      /\ full \in Seq(Blocks) /\ IsInjective(full)
      /\ Range(full) = {b \in gone : pool.block_hash[b] # NoHash}
  BY KeepFacts
<1>3. p = [pool EXCEPT !.free_block_queue = queue, !.ref_cnt = left]
  BY DEF free_blocks, append_n, prepend_n, PoolType
<1> HIDE DEF bare, full, p, q, ref
<1>4. front \in Seq(Blocks) /\ IsInjective(front) /\ Range(front) = Range(bare) \cup Range(q)
  <2>1. Range(bare) \cap Range(q) = {}
    BY <1>1, <1>2
  <2> QED  BY <1>1, <1>2, <2>1, ConcatFacts
<1> HIDE DEF front
<1>5. /\ queue \in Seq(Blocks) /\ IsInjective(queue)
      /\ Range(queue) = Range(front) \cup Range(full)
  <2>1. Range(front) \cap Range(full) = {}
    BY <1>1, <1>2, <1>4
  <2> QED  BY <1>2, <1>4, <2>1, ConcatFacts
<1> HIDE DEF queue
<1>6. left \in [Blocks -> Int]
  BY <1>1
<1>7. Range(queue) = {b \in Blocks : left[b] = 0}
  <2>1. \A b \in Range(s) : ref[b] > 0
    BY DEF ref
  <2>2. Range(bare) \cup Range(full) = gone
    BY <1>2
  <2>3. Range(queue) = gone \cup {b \in Blocks : ref[b] = 0}
    BY <1>1, <1>4, <1>5, <2>2
  <2>4. ASSUME NEW b \in Blocks PROVE left[b] = 0 <=> b \in gone \/ ref[b] = 0
    BY <1>1, <2>1
  <2> HIDE DEF left, gone
  <2>5. gone \subseteq Blocks
    BY <1>1 DEF gone
  <2> QED  BY <2>3, <2>4, <2>5
<1> HIDE DEF left
<1>8. /\ p.free_block_queue = queue /\ p.ref_cnt = left
      /\ p.block_hash = pool.block_hash
      /\ p.cached_block_hash_to_block = pool.cached_block_hash_to_block
      /\ p \in PoolType
  BY <1>3, <1>5, <1>6 DEF PoolType
<1> QED  BY <1>5, <1>7, <1>8 DEF FreeListOK, left, ref, p

(* touch adds an owner to each block given and takes the idle ones among   *)
(* them off the free list.                                                 *)
LEMMA TouchPool ==
  ASSUME NEW pool \in PoolType, FreeListOK(pool), NEW hits \in Seq(Blocks),
         \A b \in Blocks : pool.ref_cnt[b] >= 0
  PROVE  LET p == touch(pool, hits)
             idle == {b \in Range(hits) : pool.ref_cnt[b] = 0}
         IN  /\ p \in PoolType
             /\ FreeListOK(p)
             /\ p.ref_cnt = [b \in Blocks |-> IF b \in Range(hits) THEN pool.ref_cnt[b] + 1
                                                                 ELSE pool.ref_cnt[b]]
             /\ p.block_hash = pool.block_hash
             /\ p.cached_block_hash_to_block = pool.cached_block_hash_to_block
             /\ Len(p.free_block_queue) = Len(pool.free_block_queue) - Cardinality(idle)
<1> DEFINE p == touch(pool, hits)
           q == pool.free_block_queue
           ref == pool.ref_cnt
           idle == {b \in Range(hits) : ref[b] = 0}
           more == [b \in Blocks |-> IF b \in Range(hits) THEN ref[b] + 1 ELSE ref[b]]
           queue == remove(q, idle)
<1>1. /\ q \in Seq(Blocks) /\ ref \in [Blocks -> Int]
      /\ IsInjective(q) /\ Range(q) = {b \in Blocks : ref[b] = 0}
      /\ Range(hits) \subseteq Blocks
  BY PoolFields DEF FreeListOK, Range
<1>2. p = [pool EXCEPT !.free_block_queue = queue, !.ref_cnt = more]
  BY DEF touch, PoolType
<1>3. /\ queue \in Seq(Blocks) /\ IsInjective(queue) /\ Range(queue) = Range(q) \ idle
  BY <1>1, KeepFacts DEF remove
<1>4. idle \subseteq Range(q)
  BY <1>1
<1>5. Len(queue) = Len(q) - Cardinality(idle)
  BY <1>1, <1>4, RemoveLen
<1>6. more \in [Blocks -> Int]
  BY <1>1
<1>7. Range(queue) = {b \in Blocks : more[b] = 0}
  <2>1. ASSUME NEW b \in Blocks PROVE more[b] = 0 <=> ref[b] = 0 /\ b \notin Range(hits)
    BY <1>1
  <2>2. ASSUME NEW b \in Blocks PROVE b \in Range(queue) <=> ref[b] = 0 /\ b \notin Range(hits)
    BY <1>1, <1>3
  <2>3. Range(queue) \subseteq Blocks
    BY <1>1, <1>3
  <2> HIDE DEF more, queue
  <2> QED  BY <2>1, <2>2, <2>3
<1> HIDE DEF p, queue, more
<1>8. /\ p.free_block_queue = queue /\ p.ref_cnt = more
      /\ p.block_hash = pool.block_hash
      /\ p.cached_block_hash_to_block = pool.cached_block_hash_to_block
      /\ p \in PoolType
  BY <1>2, <1>3, <1>6 DEF PoolType
<1> QED  BY <1>3, <1>5, <1>7, <1>8 DEF FreeListOK, more, p

(* Dropping the hashes of a set of blocks drops their map entries with     *)
(* them.                                                                   *)
LEMMA RemoveHashesPool ==
  ASSUME NEW pool \in PoolType, HashMapOK(pool), NEW S, S \subseteq Blocks
  PROVE  LET p == remove_cached_block_hashes(pool, S)
         IN  /\ p \in PoolType
             /\ HashMapOK(p)
             /\ p.free_block_queue = pool.free_block_queue
             /\ p.ref_cnt = pool.ref_cnt
             /\ p.block_hash = [b \in Blocks |-> IF b \in S THEN NoHash ELSE pool.block_hash[b]]
<1> DEFINE p == remove_cached_block_hashes(pool, S)
           hash == pool.block_hash
           map == pool.cached_block_hash_to_block
           hash2 == [b \in Blocks |-> IF b \in S THEN NoHash ELSE hash[b]]
           map2 == {e \in map : e[2] \notin S}
<1>1. /\ hash \in [Blocks -> Hash] /\ map \in SUBSET (Hash \X Blocks)
      /\ map = {<<hash[b], b>> : b \in {c \in Blocks : hash[c] # NoHash}}
      /\ EnableCaching \/ \A b \in Blocks : hash[b] = NoHash
  BY PoolFields DEF HashMapOK
<1>2. p = [pool EXCEPT !.block_hash = hash2, !.cached_block_hash_to_block = map2]
  BY DEF remove_cached_block_hashes, PoolType
<1>3. hash2 \in [Blocks -> Hash] /\ map2 \in SUBSET (Hash \X Blocks)
  BY <1>1 DEF Hash, NoHash
<1>4. map2 = {<<hash2[b], b>> : b \in {c \in Blocks : hash2[c] # NoHash}}
  <2>1. ASSUME NEW b \in Blocks
        PROVE  /\ hash2[b] # NoHash <=> b \notin S /\ hash[b] # NoHash
               /\ hash2[b] # NoHash => hash2[b] = hash[b]
    OBVIOUS
  <2> HIDE DEF hash2
  <2>2. ASSUME NEW b \in Blocks, hash2[b] # NoHash PROVE <<hash2[b], b>> \in map2
    <3>1. <<hash[b], b>> \in map /\ b \notin S /\ hash2[b] = hash[b]
      BY <1>1, <2>1, <2>2
    <3> QED  BY <3>1
  <2>3. ASSUME NEW e \in map2
        PROVE  e \in {<<hash2[b], b>> : b \in {c \in Blocks : hash2[c] # NoHash}}
    <3>1. PICK b \in Blocks : hash[b] # NoHash /\ e = <<hash[b], b>>
      BY <1>1, <2>3
    <3>2. b \notin S
      BY <2>3, <3>1
    <3> QED  BY <2>1, <3>1, <3>2
  <2> QED  BY <2>2, <2>3
<1>5. EnableCaching \/ \A b \in Blocks : hash2[b] = NoHash
  BY <1>1
<1> HIDE DEF p, hash2, map2
<1>6. /\ p.block_hash = hash2 /\ p.cached_block_hash_to_block = map2
      /\ p.free_block_queue = pool.free_block_queue /\ p.ref_cnt = pool.ref_cnt
      /\ p \in PoolType
  BY <1>2, <1>3 DEF PoolType
<1> QED  BY <1>4, <1>5, <1>6 DEF HashMapOK, p, hash2

(* get_new_blocks takes the n blocks at the head of the free list, which   *)
(* nobody owns, and gives each one owner and no hash.                      *)
LEMMA GetNewBlocksPool ==
  ASSUME NEW pool \in PoolType, FreeListOK(pool), HashMapOK(pool),
         NEW n \in 0 .. Len(pool.free_block_queue)
  PROVE  LET p == get_new_blocks(pool, n)
             taken == popleft_n(pool.free_block_queue, n).taken
         IN  /\ p \in PoolType
             /\ FreeListOK(p)
             /\ HashMapOK(p)
             /\ taken \in Seq(Blocks) /\ Len(taken) = n /\ IsInjective(taken)
             /\ Len(p.free_block_queue) = Len(pool.free_block_queue) - n
             /\ \A b \in Range(taken) : pool.ref_cnt[b] = 0
             /\ p.ref_cnt = [b \in Blocks |-> IF b \in Range(taken) THEN pool.ref_cnt[b] + 1
                                                                  ELSE pool.ref_cnt[b]]
             /\ p.block_hash = [b \in Blocks |-> IF b \in Range(taken) THEN NoHash
                                                                     ELSE pool.block_hash[b]]
<1> DEFINE p == get_new_blocks(pool, n)
           q == pool.free_block_queue
           ref == pool.ref_cnt
           taken == popleft_n(q, n).taken
           rest == popleft_n(q, n).rest
           e == IF EnableCaching THEN remove_cached_block_hashes(pool, Range(taken)) ELSE pool
           more == [b \in Blocks |-> IF b \in Range(taken) THEN ref[b] + 1 ELSE ref[b]]
           hash2 == [b \in Blocks |-> IF b \in Range(taken) THEN NoHash ELSE pool.block_hash[b]]
<1>1. /\ q \in Seq(Blocks) /\ ref \in [Blocks -> Int] /\ pool.block_hash \in [Blocks -> Hash]
      /\ IsInjective(q) /\ Range(q) = {b \in Blocks : ref[b] = 0}
  BY PoolFields DEF FreeListOK
<1>2. /\ taken \in Seq(Blocks) /\ rest \in Seq(Blocks)
      /\ Len(taken) = n
      /\ Range(taken) \cup Range(rest) = Range(q) /\ Range(taken) \cap Range(rest) = {}
      /\ IsInjective(taken) /\ IsInjective(rest)
  BY <1>1, PopFacts
<1>a. Len(rest) = Len(q) - n
  <2>1. q \in Seq(Blocks) /\ n \in 0 .. Len(q)
    BY <1>1
  <2> HIDE DEF q
  <2>2. LET popped == popleft_n(q, n) IN Len(popped.rest) = Len(q) - n
    BY <2>1, PopFacts
  <2> QED  BY <2>2
<1>3. p = [e EXCEPT !.free_block_queue = rest,
                    !.ref_cnt = [b \in Blocks |-> IF b \in Range(taken) THEN e.ref_cnt[b] + 1
                                                                     ELSE e.ref_cnt[b]]]
  <2> HIDE DEF e
  <2>1. p = LET popped == popleft_n(q, n)
            IN  [e EXCEPT !.free_block_queue = popped.rest,
                          !.ref_cnt = [b \in Blocks |-> IF b \in Range(popped.taken)
                                                        THEN @[b] + 1 ELSE @[b]]]
    BY DEF get_new_blocks, e
  <2>2. e \in PoolType
    <3>1. Range(taken) \subseteq Blocks
      BY <1>1, <1>2
    <3> QED  BY <3>1, RemoveHashesPool DEF e
  <2> QED  BY <2>1, <2>2 DEF PoolType
<1> HIDE DEF p, q, ref, taken, rest
<1>4. Range(taken) \subseteq Blocks /\ \A b \in Range(taken) : ref[b] = 0
  BY <1>1, <1>2
<1>5. /\ e \in PoolType /\ HashMapOK(e)
      /\ e.ref_cnt = ref /\ e.free_block_queue = q
      /\ e.block_hash = hash2
  <2>1. CASE EnableCaching
    BY <1>4, <2>1, RemoveHashesPool DEF ref, q
  <2>2. CASE ~EnableCaching
    <3>1. \A b \in Blocks : pool.block_hash[b] = NoHash
      BY <2>2 DEF HashMapOK
    <3>2. pool.block_hash = hash2
      BY <1>1, <3>1
    <3> QED  BY <2>2, <3>2 DEF ref, q
  <2> QED  BY <2>1, <2>2
<1> HIDE DEF e, hash2
<1>6. more \in [Blocks -> Int]
  BY <1>1
<1>7. Range(rest) = {b \in Blocks : more[b] = 0}
  <2>1. ASSUME NEW b \in Blocks PROVE more[b] = 0 <=> ref[b] = 0 /\ b \notin Range(taken)
    BY <1>1, <1>4
  <2>2. ASSUME NEW b \in Blocks PROVE b \in Range(rest) <=> ref[b] = 0 /\ b \notin Range(taken)
    BY <1>1, <1>2
  <2>3. Range(rest) \subseteq Blocks
    BY <1>1, <1>2
  <2> HIDE DEF more
  <2> QED  BY <2>1, <2>2, <2>3
<1>8. p = [e EXCEPT !.free_block_queue = rest, !.ref_cnt = more]
  BY <1>3, <1>5
<1> HIDE DEF more
<1>9. /\ p.free_block_queue = rest /\ p.ref_cnt = more /\ p.block_hash = hash2
      /\ p.cached_block_hash_to_block = e.cached_block_hash_to_block
      /\ p \in PoolType
  BY <1>2, <1>5, <1>6, <1>8 DEF PoolType
<1>10. FreeListOK(p) /\ HashMapOK(p)
  BY <1>2, <1>5, <1>7, <1>9 DEF FreeListOK, HashMapOK
<1> QED  BY <1>2, <1>4, <1>9, <1>10, <1>a DEF more, hash2, p, ref, q, taken

(* cache_full_blocks gives blocks without hash the hashes of their         *)
(* positions.                                                              *)
LEMMA CacheFullBlocksPool ==
  ASSUME NEW pool \in PoolType, FreeListOK(pool), HashMapOK(pool), EnableCaching,
         NEW blocks \in Seq(Blocks), IsInjective(blocks), NEW hashes \in Seq(Hash),
         NEW m \in Nat, NEW n \in Nat, n <= Len(blocks), n <= Len(hashes),
         \A i \in 1 .. n : hashes[i] # NoHash,
         ~CacheFullBlocksThrows(pool, blocks, m, n)
  PROVE  LET p == cache_full_blocks(pool, blocks, hashes, m, n)
         IN  /\ p \in PoolType
             /\ FreeListOK(p)
             /\ HashMapOK(p)
             /\ p.ref_cnt = pool.ref_cnt
             /\ p.free_block_queue = pool.free_block_queue
             /\ \A i \in m + 1 .. n : p.block_hash[blocks[i]] = hashes[i]
             /\ \A b \in Blocks : (\A i \in m + 1 .. n : b # blocks[i])
                                    => p.block_hash[b] = pool.block_hash[b]
<1> DEFINE p == cache_full_blocks(pool, blocks, hashes, m, n)
           new == m + 1 .. n
           at(b) == CHOOSE i \in new : blocks[i] = b
           full == {blocks[i] : i \in new}
           hash == pool.block_hash
           map == pool.cached_block_hash_to_block
           hash2 == [b \in Blocks |-> IF b \in full THEN hashes[at(b)] ELSE hash[b]]
           map2 == map \cup {<<hashes[i], blocks[i]>> : i \in new}
<1>1. /\ hash \in [Blocks -> Hash] /\ map \in SUBSET (Hash \X Blocks)
      /\ map = {<<hash[b], b>> : b \in {c \in Blocks : hash[c] # NoHash}}
  BY PoolFields DEF HashMapOK
<1>2. \A i \in new : /\ i \in DOMAIN blocks /\ i \in DOMAIN hashes
                     /\ blocks[i] \in Blocks /\ hashes[i] \in Hash
                     /\ hashes[i] # NoHash /\ hash[blocks[i]] = NoHash
  BY DEF CacheFullBlocksThrows, NewFull
<1>3. \A i \in new : at(blocks[i]) = i
  <2> SUFFICES ASSUME NEW i \in new PROVE at(blocks[i]) = i
    OBVIOUS
  <2>1. at(blocks[i]) \in new /\ blocks[at(blocks[i])] = blocks[i]
    OBVIOUS
  <2> QED  BY <1>2, <2>1 DEF IsInjective
<1>4. p = [pool EXCEPT !.block_hash = hash2, !.cached_block_hash_to_block = map2]
  BY DEF cache_full_blocks, NewFull, PoolType
<1> HIDE DEF p, at, new, hash, map
<1>5. \A i \in new : hash2[blocks[i]] = hashes[i]
  BY <1>2, <1>3
<1>6. \A b \in Blocks : b \notin full => hash2[b] = hash[b]
  OBVIOUS
<1>7. hash2 \in [Blocks -> Hash] /\ map2 \in SUBSET (Hash \X Blocks)
  <2>1. ASSUME NEW b \in Blocks PROVE hash2[b] \in Hash
    <3>1. ASSUME b \in full PROVE hash2[b] \in Hash
      <4>1. PICK i \in new : b = blocks[i]
        BY <3>1
      <4>2. hash2[b] = hashes[i] /\ hashes[i] \in Hash
        BY <1>2, <1>5, <4>1
      <4> QED  BY <4>2
    <3>2. CASE b \notin full
      BY <1>1, <1>6, <3>2
    <3> QED  BY <3>1, <3>2
  <2> QED  BY <1>1, <1>2, <2>1
<1> HIDE DEF hash2
<1>8. map2 = {<<hash2[b], b>> : b \in {c \in Blocks : hash2[c] # NoHash}}
  <2>1. ASSUME NEW b \in Blocks, hash2[b] # NoHash PROVE <<hash2[b], b>> \in map2
    <3>1. CASE b \in full
      BY <1>5, <3>1
    <3>2. CASE b \notin full
      BY <1>1, <1>6, <2>1, <3>2
    <3> QED  BY <3>1, <3>2
  <2>2. ASSUME NEW i \in new
        PROVE  <<hashes[i], blocks[i]>> \in
                 {<<hash2[b], b>> : b \in {c \in Blocks : hash2[c] # NoHash}}
    BY <1>2, <1>5
  <2>3. ASSUME NEW b \in Blocks, hash[b] # NoHash
        PROVE  <<hash[b], b>> \in {<<hash2[c], c>> : c \in {c \in Blocks : hash2[c] # NoHash}}
    <3>1. b \notin full
      BY <1>2, <2>3
    <3> QED  BY <1>6, <2>3, <3>1
  <2> QED  BY <1>1, <2>1, <2>2, <2>3
<1> HIDE DEF map2
<1>9. /\ p.block_hash = hash2 /\ p.cached_block_hash_to_block = map2
      /\ p.free_block_queue = pool.free_block_queue /\ p.ref_cnt = pool.ref_cnt
      /\ p \in PoolType
  BY <1>4, <1>7 DEF PoolType
<1>10. FreeListOK(p) /\ HashMapOK(p)
  BY <1>8, <1>9 DEF FreeListOK, HashMapOK
<1> QED  BY <1>5, <1>6, <1>9, <1>10 DEF p, hash, new

(* The prefix cache is reset only while every block is free. *)
LEMMA ResetAllFree ==
  ASSUME NEW pool \in PoolType, FreeListOK(pool), CanResetPrefixCache(pool)
  PROVE  \A b \in Blocks : pool.ref_cnt[b] = 0
<1> DEFINE q == pool.free_block_queue
<1>1. q \in Seq(Blocks) /\ IsInjective(q) /\ Range(q) = {b \in Blocks : pool.ref_cnt[b] = 0}
  BY PoolFields DEF FreeListOK
<1>2. Len(q) = NumGpuBlocks - 1
  <2>1. Len(q) \in Nat /\ NumGpuBlocks \in Nat
    BY <1>1, PoolAssumption
  <2> QED  BY <2>1 DEF CanResetPrefixCache, get_num_free_blocks
<1>3. Cardinality(Range(q)) = Cardinality(Blocks)
  BY <1>1, <1>2, InjectiveLen, BlocksAreNat
<1>4. Range(q) = Blocks
  BY <1>1, <1>3, BlocksAreNat, FS_Subset, Range(q) \in SUBSET Blocks
<1> QED  BY <1>1, <1>4
----------------------------------------------------------------------------
(* The order in which free blocks are evicted. *)

(* y is taken after x. *)
Behind(q, x, y) == \E i, j \in DOMAIN q : i < j /\ q[i] = x /\ q[j] = y

ParentOf(h) == SubSeq(h, 1, Len(h) - BlockSize)

(* Blocks that no lookup can hit go first, and a cached block goes before  *)
(* one that its prefix needs: an owner, or a place behind it, keeps some   *)
(* block of the parent prefix.                                             *)
Bare(pool) ==
    \A x, y \in Blocks : Behind(pool.free_block_queue, x, y) /\ pool.block_hash[x] # NoHash
        => pool.block_hash[y] # NoHash
Heads(pool) ==
    \A b \in Blocks : pool.ref_cnt[b] = 0 /\ Len(pool.block_hash[b]) > BlockSize =>
        \E p \in Blocks : /\ pool.block_hash[p] = ParentOf(pool.block_hash[b])
                          /\ pool.ref_cnt[p] > 0 \/ Behind(pool.free_block_queue, b, p)
Evicting(pool) == Bare(pool) /\ Heads(pool)

(* A hash longer than a block has a parent, which is one. *)
LEMMA ParentHash ==
  ASSUME NEW h \in Hash, Len(h) > BlockSize
  PROVE  ParentOf(h) \in Hash /\ ParentOf(h) # NoHash
<1> DEFINE T == Token \cup Nat
<1>1. h \in Seq(T) /\ Len(h) \in Nat /\ BlockSize \in Nat
  BY PoolAssumption DEF Hash
<1> DEFINE n == Len(h) - BlockSize
<1>2. n \in Nat /\ n > 0 /\ n <= Len(h)
  BY <1>1
<1> HIDE DEF n
<1>3. SubSeq(h, 1, n) \in Seq(T) /\ Len(SubSeq(h, 1, n)) = n
  <2>1. \A i \in 1 .. n : h[i] \in T
    BY <1>1, <1>2
  <2>2. SubSeq(h, 1, n) = [i \in 1 .. n |-> h[i]]
    BY <1>1, <1>2
  <2> QED  BY <1>2, <2>1, <2>2
<1>4. SubSeq(h, 1, n) # << >>
  BY <1>2, <1>3
<1> QED  BY <1>3, <1>4 DEF ParentOf, n, Hash, NoHash

(* Of a joined sequence the second part is behind the first. *)
LEMMA BehindConcat ==
  ASSUME NEW E, NEW s \in Seq(E), NEW t \in Seq(E), NEW x, NEW y
  PROVE  Behind(s \o t, x, y) <=> \/ Behind(s, x, y) \/ Behind(t, x, y)
                                  \/ (x \in Range(s) /\ y \in Range(t))
<1>1. /\ DOMAIN (s \o t) = 1 .. Len(s) + Len(t)
      /\ \A i \in 1 .. Len(s) + Len(t) :
           (s \o t)[i] = IF i <= Len(s) THEN s[i] ELSE t[i - Len(s)]
  OBVIOUS
<1>2. /\ Len(s) \in Nat /\ DOMAIN s = 1 .. Len(s)
      /\ Len(t) \in Nat /\ DOMAIN t = 1 .. Len(t)
  OBVIOUS
<1> DEFINE u == s \o t
<1>3. /\ DOMAIN u = 1 .. Len(s) + Len(t)
      /\ \A i \in 1 .. Len(s) : i \in DOMAIN u /\ u[i] = s[i]
      /\ \A i \in 1 .. Len(t) : Len(s) + i \in DOMAIN u /\ u[Len(s) + i] = t[i]
      /\ \A i \in DOMAIN u : \/ i \in 1 .. Len(s) /\ u[i] = s[i]
                             \/ i - Len(s) \in 1 .. Len(t) /\ u[i] = t[i - Len(s)]
  <2> HIDE DEF u
  <2>1. DOMAIN u = 1 .. Len(s) + Len(t)
        /\ \A i \in 1 .. Len(s) + Len(t) : u[i] = IF i <= Len(s) THEN s[i] ELSE t[i - Len(s)]
    BY <1>1 DEF u
  <2>2. ASSUME NEW i \in 1 .. Len(t) PROVE Len(s) + i \in DOMAIN u /\ u[Len(s) + i] = t[i]
    <3>1. Len(s) + i \in 1 .. Len(s) + Len(t) /\ ~(Len(s) + i <= Len(s)) /\ (Len(s) + i) - Len(s) = i
      BY <1>2
    <3> QED  BY <2>1, <3>1
  <2>3. ASSUME NEW i \in DOMAIN u
        PROVE  \/ i \in 1 .. Len(s) /\ u[i] = s[i]
               \/ i - Len(s) \in 1 .. Len(t) /\ u[i] = t[i - Len(s)]
    <3>1. i \in 1 .. Len(s) + Len(t)
      BY <2>1
    <3>2. i \in 1 .. Len(s) \/ (i - Len(s) \in 1 .. Len(t) /\ ~(i <= Len(s)))
      BY <1>2, <3>1
    <3> QED  BY <1>2, <2>1, <3>1, <3>2
  <2> QED  BY <1>2, <2>1, <2>2, <2>3
<1> HIDE DEF u
<1>4. ASSUME Behind(u, x, y)
      PROVE  \/ Behind(s, x, y) \/ Behind(t, x, y)
             \/ (x \in Range(s) /\ y \in Range(t))
  <2>1. PICK i \in DOMAIN u : \E j \in DOMAIN u : i < j /\ u[i] = x /\ u[j] = y
    BY <1>4 DEF Behind
  <2>2. PICK j \in DOMAIN u : i < j /\ u[i] = x /\ u[j] = y
    BY <2>1
  <2>3. CASE i \in 1 .. Len(s) /\ u[i] = s[i] /\ j \in 1 .. Len(s) /\ u[j] = s[j]
    BY <1>2, <2>2, <2>3 DEF Behind
  <2>4. CASE /\ i \in 1 .. Len(s) /\ u[i] = s[i]
             /\ j - Len(s) \in 1 .. Len(t) /\ u[j] = t[j - Len(s)]
    BY <1>2, <2>2, <2>4 DEF Range
  <2>5. CASE /\ i - Len(s) \in 1 .. Len(t) /\ u[i] = t[i - Len(s)]
             /\ j - Len(s) \in 1 .. Len(t) /\ u[j] = t[j - Len(s)]
    <3>1. i - Len(s) < j - Len(s)
      BY <1>2, <1>3, <2>2
    <3> QED  BY <1>2, <2>2, <2>5, <3>1 DEF Behind
  <2>6. ~(i - Len(s) \in 1 .. Len(t) /\ j \in 1 .. Len(s))
    BY <1>2, <1>3, <2>2
  <2> QED  BY <1>3, <2>3, <2>4, <2>5, <2>6
<1>5. ASSUME Behind(s, x, y) PROVE Behind(u, x, y)
  BY <1>2, <1>3, <1>5 DEF Behind
<1>6. ASSUME Behind(t, x, y) PROVE Behind(u, x, y)
  <2>1. PICK i \in DOMAIN t : \E j \in DOMAIN t : i < j /\ t[i] = x /\ t[j] = y
    BY <1>6 DEF Behind
  <2>2. PICK j \in DOMAIN t : i < j /\ t[i] = x /\ t[j] = y
    BY <2>1
  <2>3. Len(s) + i < Len(s) + j
    BY <1>2, <2>2
  <2> QED  BY <1>2, <1>3, <2>2, <2>3 DEF Behind
<1>7. ASSUME x \in Range(s), y \in Range(t) PROVE Behind(u, x, y)
  <2>1. PICK i \in 1 .. Len(s) : s[i] = x
    BY <1>2, <1>7 DEF Range
  <2>2. PICK j \in 1 .. Len(t) : t[j] = y
    BY <1>2, <1>7 DEF Range
  <2>3. i < Len(s) + j
    BY <1>2
  <2> QED  BY <1>3, <2>1, <2>2, <2>3 DEF Behind
<1> QED  BY <1>4, <1>5, <1>6, <1>7 DEF u

(* What is behind something in a list of distinct elements is in the list. *)
LEMMA BehindInList ==
  ASSUME NEW q, NEW x, NEW y, Behind(q, x, y)
  PROVE  x \in Range(q) /\ y \in Range(q)
BY DEF Behind, Range

(* Taking elements out keeps the order of the rest. *)
LEMMA BehindKeep ==
  ASSUME NEW E, NEW q \in Seq(E), NEW S, NEW x, NEW y
  PROVE  Behind(Keep(q, S), x, y) <=> Behind(q, x, y) /\ x \in S /\ y \in S
<1> DEFINE K == KeptAt(q, S)
           n == Cardinality(K)
           at(j) == CHOOSE i \in K : RankIn(K, i) = j - 1
           u == Keep(q, S)
<1>1. K \subseteq DOMAIN q /\ K \subseteq Nat /\ IsFiniteSet(K)
  <2>1. DOMAIN q = 1 .. Len(q) /\ Len(q) \in Nat
    OBVIOUS
  <2>2. K \subseteq 1 .. Len(q)
    BY <2>1 DEF KeptAt
  <2>3. IsFiniteSet(1 .. Len(q))
    BY <2>1, FS_Interval
  <2> QED  BY <2>1, <2>2, <2>3, FS_Subset, K \in SUBSET (1 .. Len(q))
<1>2. /\ n \in Nat
      /\ \A i \in K : RankIn(K, i) \in 0 .. n - 1
      /\ \A i, k \in K : i < k => RankIn(K, i) < RankIn(K, k)
      /\ \A i, k \in K : RankIn(K, i) = RankIn(K, k) => i = k
      /\ \A j \in 0 .. n - 1 : \E i \in K : RankIn(K, i) = j
  BY <1>1, Ranks
<1>3. \A j \in 1 .. n : at(j) \in K /\ RankIn(K, at(j)) = j - 1
  <2> SUFFICES ASSUME NEW j \in 1 .. n
               PROVE  at(j) \in K /\ RankIn(K, at(j)) = j - 1
    OBVIOUS
  <2>1. j - 1 \in 0 .. n - 1
    BY <1>2
  <2>2. \E i \in K : RankIn(K, i) = j - 1
    BY <1>2, <2>1
  <2> QED  BY <2>2
<1>4. DOMAIN u = 1 .. n /\ \A j \in 1 .. n : u[j] = q[at(j)]
  BY DEF Keep
<1>5. \A i : i \in K <=> i \in DOMAIN q /\ q[i] \in S
  BY DEF KeptAt
<1> HIDE DEF at, u, n, K
<1>6. ASSUME Behind(u, x, y) PROVE Behind(q, x, y) /\ x \in S /\ y \in S
  <2>1. PICK i \in 1 .. n : \E j \in 1 .. n : i < j /\ u[i] = x /\ u[j] = y
    BY <1>4, <1>6 DEF Behind
  <2>2. PICK j \in 1 .. n : i < j /\ u[i] = x /\ u[j] = y
    BY <2>1
  <2>3. at(i) \in K /\ at(j) \in K /\ RankIn(K, at(i)) = i - 1 /\ RankIn(K, at(j)) = j - 1
    BY <1>3
  <2>4. at(i) < at(j)
    <3> DEFINE a == at(i)
               c == at(j)
    <3>1. a \in Nat /\ c \in Nat /\ RankIn(K, a) < RankIn(K, c)
      BY <1>1, <1>2, <2>2, <2>3
    <3>2. a # c
      BY <1>2, <2>2, <2>3
    <3>3. c < a => RankIn(K, c) < RankIn(K, a)
      BY <1>2, <2>3
    <3>4. RankIn(K, a) \in Int /\ RankIn(K, c) \in Int
      BY <1>2, <2>3
    <3> HIDE DEF a, c
    <3>5. ~(c < a)
      BY <3>1, <3>3, <3>4
    <3>6. a < c
      BY <3>1, <3>2, <3>5
    <3> QED  BY <3>6 DEF a, c
  <2>5. q[at(i)] = x /\ q[at(j)] = y
    BY <1>4, <2>2
  <2> QED  BY <1>5, <2>3, <2>4, <2>5 DEF Behind
<1>7. ASSUME Behind(q, x, y), x \in S, y \in S PROVE Behind(u, x, y)
  <2>1. PICK i \in DOMAIN q : \E j \in DOMAIN q : i < j /\ q[i] = x /\ q[j] = y
    BY <1>7 DEF Behind
  <2>2. PICK j \in DOMAIN q : i < j /\ q[i] = x /\ q[j] = y
    BY <2>1
  <2>3. i \in K /\ j \in K
    BY <1>5, <1>7, <2>2
  <2> DEFINE a == RankIn(K, i)
             c == RankIn(K, j)
  <2>4. a \in 0 .. n - 1 /\ c \in 0 .. n - 1 /\ a < c
    BY <1>2, <2>2, <2>3
  <2>5. ASSUME NEW k \in K PROVE RankIn(K, k) + 1 \in 1 .. n /\ at(RankIn(K, k) + 1) = k
    <3>1. RankIn(K, k) \in 0 .. n - 1
      BY <1>2
    <3> DEFINE m == RankIn(K, k) + 1
    <3>2. m \in 1 .. n /\ m - 1 = RankIn(K, k)
      BY <1>2, <3>1
    <3>3. at(m) \in K /\ RankIn(K, at(m)) = RankIn(K, k)
      BY <1>3, <3>2
    <3> QED  BY <1>2, <3>2, <3>3
  <2>6. u[a + 1] = x /\ u[c + 1] = y /\ a + 1 \in 1 .. n /\ c + 1 \in 1 .. n
    BY <1>4, <2>2, <2>3, <2>5
  <2>7. a + 1 < c + 1
    BY <2>4
  <2> HIDE DEF a, c
  <2> QED  BY <1>4, <2>6, <2>7 DEF Behind
<1> QED  BY <1>6, <1>7 DEF u

(* So does taking the head. *)
LEMMA BehindRest ==
  ASSUME NEW E, NEW q \in Seq(E), IsInjective(q), NEW n \in 0 .. Len(q), NEW x, NEW y
  PROVE  LET rest == popleft_n(q, n).rest
         IN  /\ Behind(rest, x, y) => Behind(q, x, y)
             /\ Behind(q, x, y) /\ x \in Range(rest) => Behind(rest, x, y)
<1> DEFINE t == SubSeq(q, 1, n)
           s == SubSeq(q, n + 1, Len(q))
<1>1. popleft_n(q, n).taken = t /\ popleft_n(q, n).rest = s
  BY DEF popleft_n
<1>2. t \in Seq(E) /\ s \in Seq(E) /\ Range(t) \cap Range(s) = {}
  <2> DEFINE p == popleft_n(q, n)
  <2>1. p.taken \in Seq(E) /\ p.rest \in Seq(E) /\ Range(p.taken) \cap Range(p.rest) = {}
    BY PopFacts
  <2>2. p.taken = t /\ p.rest = s
    BY <1>1
  <2> HIDE DEF p, t, s
  <2> QED  BY <2>1, <2>2
<1>3. q = t \o s
  <2>1. /\ Len(t) = n /\ DOMAIN t = 1 .. n /\ \A i \in 1 .. n : t[i] = q[i]
    OBVIOUS
  <2>2. /\ Len(s) = Len(q) - n /\ DOMAIN s = 1 .. Len(q) - n
        /\ \A i \in 1 .. Len(q) - n : s[i] = q[n + i]
    OBVIOUS
  <2>3. Len(q) \in Nat /\ n \in Nat /\ n <= Len(q) /\ DOMAIN q = 1 .. Len(q)
    OBVIOUS
  <2> DEFINE u == t \o s
  <2> HIDE DEF t, s
  <2>4. u \in Seq(E) /\ Len(u) = Len(t) + Len(s)
        /\ \A i \in 1 .. Len(t) + Len(s) : u[i] = IF i <= Len(t) THEN t[i] ELSE s[i - Len(t)]
    BY <1>2
  <2> HIDE DEF u
  <2>5. Len(u) = Len(q)
    BY <2>1, <2>2, <2>3, <2>4
  <2>6. ASSUME NEW i \in 1 .. Len(q) PROVE u[i] = q[i]
    <3>1. i <= n => i \in 1 .. n
      BY <2>3
    <3>2. ~(i <= n) => i - n \in 1 .. Len(q) - n /\ n + (i - n) = i
      BY <2>3
    <3>3. u[i] = IF i <= n THEN t[i] ELSE s[i - n]
      BY <2>1, <2>2, <2>3, <2>4
    <3> QED  BY <2>1, <2>2, <3>1, <3>2, <3>3
  <2>7. u = q
    BY <2>4, <2>5, <2>6
  <2> QED  BY <2>7 DEF u
<1> HIDE DEF t, s
<1>4. Behind(q, x, y) <=> Behind(t, x, y) \/ Behind(s, x, y) \/ (x \in Range(t) /\ y \in Range(s))
  BY <1>2, <1>3, BehindConcat
<1>5. Behind(t, x, y) => x \in Range(t)
  BY BehindInList
<1> QED  BY <1>1, <1>2, <1>4, <1>5
(* p1 is pool after blocks were taken off the free list: what is still     *)
(* free has kept its hash and its place, and what is behind a free block   *)
(* or owned has kept its hash.                                             *)
Thinned(pool, p1) ==
    /\ \A b \in Blocks : p1.ref_cnt[b] = 0
           => pool.ref_cnt[b] = 0 /\ p1.block_hash[b] = pool.block_hash[b]
    /\ \A x, y \in Blocks :
           Behind(p1.free_block_queue, x, y) => Behind(pool.free_block_queue, x, y)
    /\ \A x, y \in Blocks : p1.ref_cnt[x] = 0 /\ Behind(pool.free_block_queue, x, y) =>
           /\ p1.block_hash[y] = pool.block_hash[y]
           /\ p1.ref_cnt[y] > 0 \/ Behind(p1.free_block_queue, x, y)
    /\ \A y \in Blocks : pool.ref_cnt[y] > 0 =>
           /\ p1.ref_cnt[y] > 0
           /\ pool.block_hash[y] # NoHash => p1.block_hash[y] = pool.block_hash[y]

(* That keeps the order of eviction. *)
LEMMA ThinnedEvicts ==
  ASSUME NEW pool \in PoolType, Evicting(pool),
         NEW p1 \in PoolType, FreeListOK(p1), Thinned(pool, p1)
  PROVE  Evicting(p1)
<1>1. ASSUME NEW x \in Blocks, NEW y \in Blocks, Behind(p1.free_block_queue, x, y),
             p1.block_hash[x] # NoHash
      PROVE  p1.block_hash[y] # NoHash
  <2>1. p1.ref_cnt[x] = 0 /\ p1.ref_cnt[y] = 0
    BY <1>1, BehindInList DEF FreeListOK
  <2> QED  BY <1>1, <2>1 DEF Thinned, Evicting, Bare
<1>2. ASSUME NEW b \in Blocks, p1.ref_cnt[b] = 0, Len(p1.block_hash[b]) > BlockSize
      PROVE  \E p \in Blocks : /\ p1.block_hash[p] = ParentOf(p1.block_hash[b])
                               /\ p1.ref_cnt[p] > 0 \/ Behind(p1.free_block_queue, b, p)
  <2>1. pool.ref_cnt[b] = 0 /\ p1.block_hash[b] = pool.block_hash[b]
    BY <1>2 DEF Thinned
  <2>2. PICK p \in Blocks : /\ pool.block_hash[p] = ParentOf(pool.block_hash[b])
                            /\ pool.ref_cnt[p] > 0 \/ Behind(pool.free_block_queue, b, p)
    BY <1>2, <2>1 DEF Evicting, Heads
  <2>3. pool.block_hash[p] # NoHash
    <3>1. pool.block_hash[b] \in Hash
      BY PoolFields
    <3> QED  BY <1>2, <2>1, <2>2, <3>1, ParentHash
  <2>4. /\ p1.block_hash[p] = pool.block_hash[p]
        /\ p1.ref_cnt[p] > 0 \/ Behind(p1.free_block_queue, b, p)
    BY <1>2, <2>2, <2>3 DEF Thinned
  <2> QED  BY <2>1, <2>2, <2>4
<1> QED  BY <1>1, <1>2 DEF Evicting, Bare, Heads

(* touch takes hits off the free list. *)
LEMMA TouchEvicts ==
  ASSUME NEW pool \in PoolType, FreeListOK(pool), NEW hits \in Seq(Blocks),
         \A b \in Blocks : pool.ref_cnt[b] >= 0, Evicting(pool)
  PROVE  Evicting(touch(pool, hits))
<1> DEFINE p1 == touch(pool, hits)
           q == pool.free_block_queue
           idle == {b \in Range(hits) : pool.ref_cnt[b] = 0}
<1>1. /\ p1 \in PoolType /\ FreeListOK(p1) /\ p1.block_hash = pool.block_hash
      /\ p1.ref_cnt = [b \in Blocks |-> IF b \in Range(hits) THEN pool.ref_cnt[b] + 1
                                                            ELSE pool.ref_cnt[b]]
  BY TouchPool
<1>2. q \in Seq(Blocks) /\ pool.ref_cnt \in [Blocks -> Int]
  BY PoolFields
<1>3. p1.free_block_queue = Keep(q, Range(q) \ idle)
  BY DEF touch, remove, PoolType
<1> HIDE DEF p1, q
<1>4. \A x, y : Behind(p1.free_block_queue, x, y)
                  <=> Behind(q, x, y) /\ x \in Range(q) \ idle /\ y \in Range(q) \ idle
  <2> DEFINE S == Range(q) \ idle
  <2>1. p1.free_block_queue = Keep(q, S)
    BY <1>3
  <2> HIDE DEF S
  <2>2. \A x, y : Behind(Keep(q, S), x, y) <=> Behind(q, x, y) /\ x \in S /\ y \in S
    BY <1>2, BehindKeep
  <2> QED  BY <2>1, <2>2 DEF S
<1>5. \A x, y : Behind(q, x, y) => x \in Range(q) /\ y \in Range(q)
  BY BehindInList
<1>6. \A b \in Blocks : /\ p1.ref_cnt[b] = 0 <=> pool.ref_cnt[b] = 0 /\ b \notin Range(hits)
                        /\ b \in Range(hits) => p1.ref_cnt[b] > 0
                        /\ pool.ref_cnt[b] > 0 => p1.ref_cnt[b] > 0
  BY <1>1, <1>2
<1>7. Thinned(pool, p1)
  <2>1. ASSUME NEW x \in Blocks, NEW y \in Blocks, p1.ref_cnt[x] = 0, Behind(q, x, y)
        PROVE  p1.ref_cnt[y] > 0 \/ Behind(p1.free_block_queue, x, y)
    BY <1>4, <1>5, <1>6, <2>1
  <2> QED  BY <1>1, <1>4, <1>6, <2>1 DEF Thinned, q
<1> QED  BY <1>1, <1>7, ThinnedEvicts DEF p1

(* get_new_blocks takes from the front, where nothing that is left needs   *)
(* anything.                                                               *)
LEMMA GetNewBlocksEvicts ==
  ASSUME NEW pool \in PoolType, FreeListOK(pool), HashMapOK(pool),
         NEW n \in 0 .. Len(pool.free_block_queue), Evicting(pool)
  PROVE  Evicting(get_new_blocks(pool, n))
<1> DEFINE p1 == get_new_blocks(pool, n)
           q == pool.free_block_queue
           taken == popleft_n(q, n).taken
           rest == popleft_n(q, n).rest
<1>1. /\ p1 \in PoolType /\ FreeListOK(p1)
      /\ \A b \in Range(taken) : pool.ref_cnt[b] = 0
      /\ p1.ref_cnt = [b \in Blocks |-> IF b \in Range(taken) THEN pool.ref_cnt[b] + 1
                                                           ELSE pool.ref_cnt[b]]
      /\ p1.block_hash = [b \in Blocks |-> IF b \in Range(taken) THEN NoHash
                                                              ELSE pool.block_hash[b]]
  BY GetNewBlocksPool
<1>2. q \in Seq(Blocks) /\ pool.ref_cnt \in [Blocks -> Int] /\ IsInjective(q)
      /\ Range(q) = {b \in Blocks : pool.ref_cnt[b] = 0}
  BY PoolFields DEF FreeListOK
<1>3. p1.free_block_queue = rest
  <2>1. pool.free_block_queue = q /\ remove_cached_block_hashes(pool, Range(taken)) =
          [pool EXCEPT !.block_hash = [b \in Blocks |-> IF b \in Range(taken) THEN NoHash ELSE @[b]],
                       !.cached_block_hash_to_block = {e \in @ : e[2] \notin Range(taken)}]
    BY DEF remove_cached_block_hashes
  <2> QED  BY <2>1 DEF get_new_blocks, PoolType
<1>4. /\ Range(taken) \cup Range(rest) = Range(q) /\ Range(taken) \cap Range(rest) = {}
  <2>1. n \in 0 .. Len(q)
    OBVIOUS
  <2> HIDE DEF q
  <2> QED  BY <1>2, <2>1, PopFacts
<1>5. \A x, y : /\ Behind(rest, x, y) => Behind(q, x, y)
                /\ Behind(q, x, y) /\ x \in Range(rest) => Behind(rest, x, y)
  <2>1. n \in 0 .. Len(q)
    OBVIOUS
  <2> HIDE DEF q
  <2> QED  BY <1>2, <2>1, BehindRest
<1>6. \A x, y : Behind(rest, x, y) => x \in Range(rest) /\ y \in Range(rest)
  BY BehindInList
<1> HIDE DEF p1, q, taken, rest
<1>7. \A b \in Blocks : p1.ref_cnt[b] = 0 => pool.ref_cnt[b] = 0 /\ b \notin Range(taken)
  BY <1>1, <1>2
<1>8. \A b \in Blocks : pool.ref_cnt[b] > 0 => b \notin Range(taken) /\ p1.ref_cnt[b] > 0
  BY <1>1, <1>2
<1>9. \A x, y \in Blocks : p1.ref_cnt[x] = 0 /\ Behind(q, x, y)
                             => Behind(rest, x, y) /\ y \notin Range(taken)
  BY <1>2, <1>4, <1>5, <1>6, <1>7
<1>10. Thinned(pool, p1)
  BY <1>1, <1>3, <1>5, <1>7, <1>8, <1>9 DEF Thinned, q
<1> QED  BY <1>1, <1>10, ThinnedEvicts DEF p1

(* Caching gives hashes to owned blocks. *)
LEMMA CachedEvicts ==
  ASSUME NEW pool \in PoolType, Evicting(pool), NEW p1 \in PoolType, FreeListOK(p1),
         p1.ref_cnt = pool.ref_cnt, p1.free_block_queue = pool.free_block_queue,
         FreeListOK(pool),
         \A b \in Blocks : p1.block_hash[b] = pool.block_hash[b]
                             \/ (pool.ref_cnt[b] > 0 /\ pool.block_hash[b] = NoHash)
  PROVE  Evicting(p1)
<1>1. \A b \in Blocks : pool.ref_cnt[b] = 0 => p1.block_hash[b] = pool.block_hash[b]
  OBVIOUS
<1>2. \A x, y \in Blocks : Behind(pool.free_block_queue, x, y) => pool.ref_cnt[y] = 0
  BY BehindInList DEF FreeListOK
<1>3. Thinned(pool, p1)
  BY <1>1, <1>2 DEF Thinned
<1> QED  BY <1>3, ThinnedEvicts

(* free_blocks puts what has a hash behind all that is free, in the order  *)
(* given.                                                                  *)
LEMMA FreeBlocksEvicts ==
  ASSUME NEW pool \in PoolType, FreeListOK(pool),
         NEW s \in Seq(Blocks), IsInjective(s), \A b \in Range(s) : pool.ref_cnt[b] > 0,
         Evicting(pool),
         \A b \in Blocks : pool.ref_cnt[b] >= 0,
         \A b \in Range(s) : Len(pool.block_hash[b]) > BlockSize =>
             \E p \in Range(s) : pool.block_hash[p] = ParentOf(pool.block_hash[b]) /\ Behind(s, b, p)
  PROVE  Evicting(free_blocks(pool, s))
<1> DEFINE p1 == free_blocks(pool, s)
           q == pool.free_block_queue
           hash == pool.block_hash
           ref == pool.ref_cnt
           gone == {b \in Range(s) : ref[b] = 1}
           bare == Keep(s, {b \in gone : hash[b] = NoHash})
           full == Keep(s, {b \in gone : hash[b] # NoHash})
           queue == (bare \o q) \o full
<1>1. /\ p1 \in PoolType /\ FreeListOK(p1) /\ p1.block_hash = hash
      /\ p1.ref_cnt = [b \in Blocks |-> IF b \in Range(s) THEN ref[b] - 1 ELSE ref[b]]
  BY FreeBlocksPool
<1>2. /\ q \in Seq(Blocks) /\ ref \in [Blocks -> Int] /\ hash \in [Blocks -> Hash]
      /\ Range(q) = {b \in Blocks : ref[b] = 0} /\ Range(s) \subseteq Blocks
  BY PoolFields DEF FreeListOK, Range
<1>3. p1.free_block_queue = queue
  BY DEF free_blocks, append_n, prepend_n, PoolType
<1>4. /\ bare \in Seq(Blocks) /\ Range(bare) = {b \in gone : hash[b] = NoHash}
      /\ full \in Seq(Blocks) /\ Range(full) = {b \in gone : hash[b] # NoHash}
  <2> HIDE DEF gone, hash
  <2>1. \A S : Keep(s, S) \in Seq(Blocks) /\ Range(Keep(s, S)) = Range(s) \cap S
    BY KeepFacts
  <2>2. gone \subseteq Range(s)
    BY DEF gone
  <2> QED  BY <2>1, <2>2
<1>5. \A x, y : /\ Behind(bare, x, y) => x \in Range(bare) /\ y \in Range(bare)
                /\ Behind(full, x, y) => x \in Range(full) /\ y \in Range(full)
                /\ Behind(q, x, y) => x \in Range(q) /\ y \in Range(q)
                /\ Behind(s, x, y) /\ x \in Range(full) /\ y \in Range(full) => Behind(full, x, y)
  <2>1. \A x, y : Behind(s, x, y) /\ x \in Range(full) /\ y \in Range(full) => Behind(full, x, y)
    <3> DEFINE S == {b \in gone : hash[b] # NoHash}
    <3>1. full = Keep(s, S) /\ Range(full) = S
      BY <1>4
    <3> HIDE DEF S, full
    <3> QED  BY <3>1, BehindKeep
  <2> HIDE DEF bare, full, q
  <2> QED  BY <2>1, BehindInList
<1> HIDE DEF p1, q, bare, full, hash, ref
<1>6. \A x, y : Behind(queue, x, y) <=>
          \/ Behind(bare, x, y) \/ Behind(q, x, y) \/ Behind(full, x, y)
          \/ (x \in Range(bare) /\ y \in Range(q))
          \/ (x \in Range(bare) \cup Range(q) /\ y \in Range(full))
  <2> DEFINE front == bare \o q
  <2>1. front \in Seq(Blocks) /\ Range(front) = Range(bare) \cup Range(q)
    BY <1>2, <1>4, ConcatFacts
  <2>2. \A x, y : Behind(front, x, y) <=> \/ Behind(bare, x, y) \/ Behind(q, x, y)
                                          \/ (x \in Range(bare) /\ y \in Range(q))
    BY <1>2, <1>4, BehindConcat
  <2> HIDE DEF front
  <2>3. \A x, y : Behind(front \o full, x, y) <=> \/ Behind(front, x, y) \/ Behind(full, x, y)
                                                  \/ (x \in Range(front) /\ y \in Range(full))
    BY <1>4, <2>1, BehindConcat
  <2> QED  BY <2>1, <2>2, <2>3 DEF front
<1> HIDE DEF queue
<1>7. Bare(p1)
  <2> SUFFICES ASSUME NEW x \in Blocks, NEW y \in Blocks, Behind(queue, x, y), hash[x] # NoHash
               PROVE  hash[y] # NoHash
    BY <1>1, <1>3 DEF Bare
  <2>1. x \notin Range(bare)
    BY <1>4
  <2>2. CASE Behind(q, x, y)
    BY <2>2 DEF Evicting, Bare, q, hash
  <2>3. CASE y \in Range(full)
    BY <1>4, <2>3
  <2> QED  BY <1>5, <1>6, <2>1, <2>2, <2>3
<1>8. Heads(p1)
  <2> SUFFICES ASSUME NEW b \in Blocks, p1.ref_cnt[b] = 0, Len(hash[b]) > BlockSize
               PROVE  \E p \in Blocks : /\ hash[p] = ParentOf(hash[b])
                                        /\ p1.ref_cnt[p] > 0 \/ Behind(queue, b, p)
    BY <1>1, <1>3 DEF Heads
  <2>1. ParentOf(hash[b]) # NoHash
    BY <1>2, ParentHash
  <2>2. ASSUME NEW p \in Range(s), hash[p] # NoHash
        PROVE  p1.ref_cnt[p] > 0 \/ p \in Range(full)
    <3>1. ref[p] > 0 /\ ref[p] \in Int /\ p1.ref_cnt[p] = ref[p] - 1
      BY <1>1, <1>2 DEF ref
    <3>2. ref[p] = 1 \/ p1.ref_cnt[p] > 0
      BY <3>1
    <3> QED  BY <1>4, <2>2, <3>2
  <2>3. CASE b \in Range(s)
    <3>1. PICK p \in Range(s) : hash[p] = ParentOf(hash[b]) /\ Behind(s, b, p)
      BY <2>3 DEF hash
    <3>2. b \in Range(full)
      <4>1. ref[b] \in Int /\ p1.ref_cnt[b] = ref[b] - 1
        BY <1>1, <1>2, <2>3
      <4>2. ref[b] = 1
        BY <4>1
      <4>3. hash[b] # NoHash
        <5>1. Len(<< >>) = 0 /\ BlockSize \in Nat
          BY PoolAssumption
        <5> QED  BY <5>1 DEF NoHash
      <4> QED  BY <1>4, <2>3, <4>2, <4>3
    <3>3. p \in Blocks /\ (p1.ref_cnt[p] > 0 \/ Behind(queue, b, p))
      BY <1>2, <1>5, <1>6, <2>1, <2>2, <3>1, <3>2
    <3> QED  BY <3>1, <3>3
  <2>4. CASE b \notin Range(s)
    <3>1. ref[b] = 0 /\ b \in Range(q)
      BY <1>1, <1>2, <2>4
    <3>2. PICK p \in Blocks : /\ hash[p] = ParentOf(hash[b])
                              /\ ref[p] > 0 \/ Behind(q, b, p)
      BY <3>1 DEF Evicting, Heads, hash, ref, q
    <3>3. CASE Behind(q, b, p)
      BY <1>6, <3>2, <3>3
    <3>4. CASE ref[p] > 0 /\ p \in Range(s)
      BY <1>6, <2>1, <2>2, <3>1, <3>2, <3>4
    <3>5. CASE ref[p] > 0 /\ p \notin Range(s)
      BY <1>1, <3>2, <3>5
    <3> QED  BY <3>2, <3>3, <3>4, <3>5
  <2> QED  BY <2>3, <2>4
<1> QED  BY <1>7, <1>8 DEF Evicting, p1
(* Without cached blocks there is no order to keep. *)
LEMMA UncachedEvicts ==
  ASSUME NEW pool, \A b \in Blocks : pool.block_hash[b] = NoHash
  PROVE  Evicting(pool)
<1>1. Len(NoHash) = 0 /\ BlockSize \in Nat
  BY PoolAssumption DEF NoHash
<1> QED  BY <1>1 DEF Evicting, Bare, Heads
================================================================================
