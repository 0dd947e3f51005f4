--------------------------- MODULE PcbListProofs ---------------------------
(***************************************************************************)
(* What the list operators return, for lists of any length: a sublist is a *)
(* list, it holds exactly the chosen nodes, and it links no node twice if  *)
(* the original did not.  These are the facts the invariants of the kernel *)
(* rest on.                                                                *)
(***************************************************************************)
EXTENDS PcbList, FiniteSetTheorems, SequenceTheorems, WellFoundedInduction, TLAPS

\* Min picks a member of a non-empty set of naturals, and the least one: a
\* scan over an array stops at the first index that passes its test.
LEMMA MinIsLeast ==
    ASSUME NEW I \in SUBSET Nat, I # {}
    PROVE  Min(I) \in I /\ \A j \in I : Min(I) <= j
<1>1. \E x \in I : \A y \in I : ~(<<y, x>> \in OpToRel(<, Nat))
  BY NatLessThanWellFounded, WFMin
<1>2. \E x \in I : \A y \in I : x <= y
  <2>1. PICK x \in I : \A y \in I : ~(<<y, x>> \in OpToRel(<, Nat))
    BY <1>1
  <2>2. ASSUME NEW y \in I PROVE x <= y
    <3>1. ~(y < x)
      BY <2>1, y \in Nat, x \in Nat, Zenon DEF OpToRel
    <3> QED BY <3>1, y \in Nat, x \in Nat
  <2> QED BY <2>2
<1> QED
  BY <1>2 DEF Min

\* The rank of an index is a number between 1 and the size of the set, and
\* different indices have different ranks.
LEMMA RankIsInjection ==
    ASSUME NEW I \in SUBSET Nat, IsFiniteSet(I)
    PROVE  /\ \A i \in I : Rank(I, i) \in 1 .. Cardinality(I)
           /\ \A i, j \in I : Rank(I, i) = Rank(I, j) => i = j
<1> DEFINE upto(i) == {k \in I : k <= i}
<1>1. ASSUME NEW i \in I
      PROVE  /\ IsFiniteSet(upto(i)) /\ Cardinality(upto(i)) <= Cardinality(I)
             /\ Cardinality(upto(i)) \in Nat /\ Cardinality(I) \in Nat
             /\ Cardinality(upto(i)) # 0
  <2>1. upto(i) \in SUBSET I /\ i \in upto(i)
    OBVIOUS
  <2>2. IsFiniteSet(upto(i)) /\ Cardinality(upto(i)) <= Cardinality(I)
    BY <2>1, FS_Subset
  <2>3. Cardinality(upto(i)) # 0
    BY <2>1, <2>2, FS_EmptySet
  <2> HIDE DEF upto
  <2> QED
    BY <2>2, <2>3, FS_CardinalityType
<1>2. ASSUME NEW i \in I, NEW j \in I, i < j
      PROVE  Rank(I, i) # Rank(I, j)
  <2> i \in Nat /\ j \in Nat
    OBVIOUS
  <2>1. upto(i) \in SUBSET upto(j) /\ j \in upto(j) /\ j \notin upto(i)
    <3>1. ASSUME NEW k \in upto(i) PROVE k \in upto(j)
      BY <1>2, k \in Nat
    <3>2. upto(i) \subseteq upto(j)
      BY <3>1
    <3>3. j \in upto(j) /\ j \notin upto(i)
      BY <1>2
    <3> QED BY <3>2, <3>3
  <2>2. upto(i) # upto(j)
    BY <2>1
  <2>3. Cardinality(upto(j)) # Cardinality(upto(i))
    <3> HIDE DEF upto
    <3> QED BY <1>1, <2>1, <2>2, FS_Subset
  <2> QED
    BY <2>3 DEF Rank
<1>3. \A i \in I : Rank(I, i) \in 1 .. Cardinality(I)
  BY <1>1 DEF Rank
<1> QED
  BY <1>2, <1>3

\* Every number up to the size of the set is the rank of one of its members.
LEMMA RankIsOnto ==
    ASSUME NEW I \in SUBSET Nat, IsFiniteSet(I), NEW k \in 1 .. Cardinality(I)
    PROVE  \E i \in I : Rank(I, i) = k
<1> DEFINE n == Cardinality(I)
           f == [i \in I |-> Rank(I, i)]
<1>1. n \in Nat
  BY FS_CardinalityType
<1>2. IsFiniteSet(1 .. n) /\ Cardinality(1 .. n) = n
  BY <1>1, FS_Interval
<1>3. f \in Injection(I, 1 .. n)
  BY RankIsInjection DEF Injection, IsInjective
<1>4. f \in Surjection(I, 1 .. n)
  <2> HIDE DEF f, n
  <2>1. Cardinality(I) = Cardinality(1 .. n)
    BY <1>2 DEF n
  <2> QED BY <1>2, <1>3, <2>1, FS_Injection
<1> QED
  BY <1>4 DEF Surjection

\* A set of indices of a list is a finite set of naturals.
LEMMA IndicesFinite ==
    ASSUME NEW S, NEW s \in Seq(S), NEW I \in SUBSET DOMAIN s
    PROVE  I \in SUBSET Nat /\ IsFiniteSet(I) /\ Cardinality(I) \in Nat
<1>1. DOMAIN s = 1 .. Len(s) /\ Len(s) \in Nat
  BY LenProperties
<1>2. IsFiniteSet(1 .. Len(s))
  BY <1>1, FS_Interval
<1>3. IsFiniteSet(I)
  BY <1>1, <1>2, FS_Subset
<1> QED
  BY <1>1, <1>3, FS_CardinalityType

\* SubList(s, I) is a list over the same nodes, holds exactly the nodes at
\* the indices I, and links none of them twice if s does not.
LEMMA SubListProperties ==
    ASSUME NEW S, NEW s \in Seq(S), NEW I \in SUBSET DOMAIN s
    PROVE  /\ SubList(s, I) \in Seq(S)
           /\ Range(SubList(s, I)) = {s[i] : i \in I}
           /\ IsInjective(s) => IsInjective(SubList(s, I))
<1>1. CASE I = DOMAIN s
  BY <1>1 DEF SubList, Range
<1>2. CASE I # DOMAIN s
  <2> DEFINE n == Cardinality(I)
             at == [k \in 1 .. n |-> CHOOSE i \in I : Rank(I, i) = k]
             r == SubList(s, I)
  <2>1. I \in SUBSET Nat /\ IsFiniteSet(I) /\ n \in Nat
    BY IndicesFinite
  <2>2. \A k \in 1 .. n : at[k] \in I /\ Rank(I, at[k]) = k
    BY <2>1, RankIsOnto
  <2>3. r = [k \in 1 .. n |-> s[at[k]]]
    BY <1>2 DEF SubList
  <2>4. \A i \in I : s[i] \in S /\ i \in DOMAIN s
    BY ElementOfSeq, LenProperties
  <2>5. \A i \in I : Rank(I, i) \in 1 .. n /\ at[Rank(I, i)] = i
    BY <2>1, <2>2, RankIsInjection
  <2> HIDE DEF n, at, r
  <2>6. DOMAIN r = 1 .. n /\ \A k \in 1 .. n : r[k] = s[at[k]]
    BY <2>3
  <2>7. r \in Seq(S)
    <3>1. r \in [1 .. n -> S]
      BY <2>2, <2>3, <2>4
    <3> QED BY <2>1, <3>1, SeqDef
  <2>8. Range(r) = {s[i] : i \in I}
    BY <2>2, <2>5, <2>6 DEF Range
  <2>9. ASSUME IsInjective(s) PROVE IsInjective(r)
    <3> SUFFICES ASSUME NEW k \in 1 .. n, NEW l \in 1 .. n, r[k] = r[l]
                 PROVE  k = l
      BY <2>6 DEF IsInjective
    <3>1. s[at[k]] = s[at[l]] /\ at[k] \in DOMAIN s /\ at[l] \in DOMAIN s
      BY <2>2, <2>4, <2>6
    <3>2. at[k] = at[l]
      BY <2>9, <3>1 DEF IsInjective
    <3> QED BY <2>2, <3>2
  <2> QED
    BY <2>7, <2>8, <2>9 DEF r
<1> QED
  BY <1>1, <1>2

\* list_del takes exactly the given nodes off a list.
LEMMA WithoutProperties ==
    ASSUME NEW S, NEW s \in Seq(S), NEW T
    PROVE  /\ Without(s, T) \in Seq(S)
           /\ Range(Without(s, T)) = Range(s) \ T
           /\ IsInjective(s) => IsInjective(Without(s, T))
<1> DEFINE I == {i \in DOMAIN s : s[i] \notin T}
<1>1. I \in SUBSET DOMAIN s /\ {s[i] : i \in I} = Range(s) \ T
  BY DEF Range
<1>2. Without(s, T) = SubList(s, I)
  BY DEF Without
<1> HIDE DEF I
<1> QED
  BY <1>1, <1>2, SubListProperties

\* _list_add_tail adds one node, and links it once if it was not on the list.
LEMMA AppendNodes ==
    ASSUME NEW S, NEW s \in Seq(S), NEW e \in S
    PROVE  /\ Append(s, e) \in Seq(S)
           /\ Range(Append(s, e)) = Range(s) \cup {e}
           /\ IsInjective(s) /\ e \notin Range(s) => IsInjective(Append(s, e))
<1> DEFINE r == Append(s, e)
<1>1. /\ r \in Seq(S)
      /\ DOMAIN s = 1 .. Len(s) /\ Len(s) \in Nat
      /\ DOMAIN r = 1 .. Len(s) + 1
      /\ \A i \in 1 .. Len(s) : r[i] = s[i]
      /\ r[Len(s) + 1] = e
  BY AppendProperties, LenProperties
<1> HIDE DEF r
<1>2. Range(r) = Range(s) \cup {e}
  BY <1>1 DEF Range
<1>3. ASSUME IsInjective(s), e \notin Range(s) PROVE IsInjective(r)
  BY <1>1, <1>3 DEF IsInjective, Range
<1> QED
  BY <1>1, <1>2, <1>3 DEF r

\* Moving the list t to the tail of the list s keeps all the nodes, and
\* links none twice if the lists share none.
LEMMA ConcatNodes ==
    ASSUME NEW S, NEW s \in Seq(S), NEW t \in Seq(S)
    PROVE  /\ s \o t \in Seq(S)
           /\ Range(s \o t) = Range(s) \cup Range(t)
           /\ IsInjective(s) /\ IsInjective(t) /\ Range(s) \cap Range(t) = {}
                => IsInjective(s \o t)
<1> DEFINE r == s \o t
<1>1. /\ r \in Seq(S)
      /\ DOMAIN s = 1 .. Len(s) /\ Len(s) \in Nat
      /\ DOMAIN t = 1 .. Len(t) /\ Len(t) \in Nat
      /\ DOMAIN r = 1 .. Len(s) + Len(t)
      /\ \A i \in 1 .. Len(s) + Len(t) : r[i] = IF i <= Len(s) THEN s[i] ELSE t[i - Len(s)]
  BY ConcatProperties, LenProperties
<1> HIDE DEF r
<1>2. \A i \in 1 .. Len(s) : r[i] = s[i] /\ i \in DOMAIN r
  BY <1>1
<1>3. \A i \in 1 .. Len(t) : r[i + Len(s)] = t[i] /\ i + Len(s) \in DOMAIN r
  BY <1>1, SMTT(40)
<1>4. ASSUME NEW i \in DOMAIN r, ~(i <= Len(s))
      PROVE  i - Len(s) \in DOMAIN t /\ r[i] = t[i - Len(s)]
  BY <1>1, <1>4
<1>5. ASSUME NEW i \in DOMAIN r, i <= Len(s)
      PROVE  i \in DOMAIN s /\ r[i] = s[i]
  BY <1>1, <1>5
<1>6. Range(r) = Range(s) \cup Range(t)
  <2>1. ASSUME NEW i \in DOMAIN r PROVE r[i] \in Range(s) \cup Range(t)
    BY <1>4, <1>5 DEF Range
  <2>2. Range(s) \subseteq Range(r)
    BY <1>1, <1>2 DEF Range
  <2>3. Range(t) \subseteq Range(r)
    BY <1>1, <1>3 DEF Range
  <2> QED BY <2>1, <2>2, <2>3 DEF Range
<1>7. ASSUME IsInjective(s), IsInjective(t), Range(s) \cap Range(t) = {}
      PROVE  IsInjective(r)
  <2> SUFFICES ASSUME NEW i \in DOMAIN r, NEW j \in DOMAIN r, r[i] = r[j], i < j
               PROVE  FALSE
    BY <1>1 DEF IsInjective
  <2>1. CASE j <= Len(s)
    <3>1. i \in DOMAIN s /\ j \in DOMAIN s /\ s[i] = s[j]
      BY <1>1, <1>5, <2>1
    <3> QED BY <1>1, <1>7, <3>1 DEF IsInjective
  <2>2. CASE ~(i <= Len(s))
    <3>1. /\ i - Len(s) \in DOMAIN t /\ j - Len(s) \in DOMAIN t
          /\ t[i - Len(s)] = t[j - Len(s)]
      BY <1>1, <1>4, <2>2
    <3>2. i - Len(s) = j - Len(s)
      BY <1>7, <3>1 DEF IsInjective
    <3> QED BY <1>1, <3>2
  <2>3. CASE i <= Len(s) /\ ~(j <= Len(s))
    <3>1. r[i] \in Range(s)
      BY <1>5, <2>3 DEF Range
    <3>2. r[j] \in Range(t)
      BY <1>4, <2>3 DEF Range
    <3> QED BY <1>7, <3>1, <3>2
  <2> QED BY <1>1, <2>1, <2>2, <2>3
<1> QED
  BY <1>1, <1>6, <1>7 DEF r

\* The first node of a non-empty list and the rest of it make up the list.
LEMMA HeadTailNodes ==
    ASSUME NEW S, NEW s \in Seq(S), s # <<>>
    PROVE  /\ Head(s) \in Range(s)
           /\ Tail(s) \in Seq(S)
           /\ Range(s) = {Head(s)} \cup Range(Tail(s))
           /\ IsInjective(s) => IsInjective(Tail(s)) /\ Head(s) \notin Range(Tail(s))
<1> DEFINE t == Tail(s)
           h == Head(s)
<1>1. /\ t \in Seq(S)
      /\ DOMAIN s = 1 .. Len(s) /\ Len(s) \in Nat \ {0}
      /\ DOMAIN t = 1 .. Len(s) - 1
      /\ \A i \in 1 .. Len(s) - 1 : t[i] = s[i + 1]
      /\ h = s[1]
  BY HeadTailProperties, LenProperties, EmptySeq
<1> HIDE DEF t, h
<1>2. Range(s) = {h} \cup Range(t)
  <2>1. ASSUME NEW i \in DOMAIN s, i # 1 PROVE i - 1 \in DOMAIN t /\ s[i] = t[i - 1]
    BY <1>1, <2>1
  <2>2. Range(s) \subseteq {h} \cup Range(t)
    BY <1>1, <2>1 DEF Range
  <2>3. {h} \cup Range(t) \subseteq Range(s)
    BY <1>1, SMTT(40) DEF Range
  <2> QED BY <2>2, <2>3
<1>3. ASSUME IsInjective(s) PROVE IsInjective(t) /\ h \notin Range(t)
  <2>1. ASSUME NEW i \in DOMAIN t PROVE i + 1 \in DOMAIN s /\ i + 1 # 1 /\ t[i] = s[i + 1]
    BY <1>1
  <2>2. ASSUME NEW i \in DOMAIN t PROVE t[i] # h
    <3>1. 1 \in DOMAIN s
      BY <1>1
    <3> QED BY <1>1, <1>3, <2>1, <3>1 DEF IsInjective
  <2>3. ASSUME NEW i \in DOMAIN t, NEW j \in DOMAIN t, t[i] = t[j] PROVE i = j
    <3>1. i + 1 = j + 1
      BY <1>3, <2>1, <2>3 DEF IsInjective
    <3> QED BY <1>1, <3>1
  <2> QED BY <2>2, <2>3 DEF IsInjective, Range
<1> QED
  BY <1>1, <1>2, <1>3 DEF t, h

\* Induction, for a set of numbers.
LEMMA Steps ==
    ASSUME NEW N \in Nat, NEW A, 0 \in A, \A n \in 0 .. N - 1 : n \in A => n + 1 \in A
    PROVE  \A n \in 0 .. N : n \in A
<1> DEFINE B == {n \in 0 .. N : n \notin A}
<1>1. SUFFICES ASSUME B # {} PROVE FALSE
  OBVIOUS
<1>2. B \in SUBSET Nat
  OBVIOUS
<1> DEFINE m == Min(B)
<1>3. m \in B /\ \A j \in B : m <= j
  <2> HIDE DEF B
  <2> QED BY <1>1, <1>2, MinIsLeast
<1> HIDE DEF m
<1>4. m \in 1 .. N /\ m \notin A
  BY <1>3
<1>5. m - 1 \in 0 .. N - 1 /\ m - 1 \in A
  BY <1>3, <1>4
<1> QED
  BY <1>4, <1>5
=============================================================================
