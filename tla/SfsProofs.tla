------------------------------ MODULE SfsProofs ------------------------------
(***************************************************************************)
(* Theorems about the file system, for every size of storage, block, frame *)
(* and directory.  An intact storage is a tree of lists in which each      *)
(* block is held once.  The proofs show what each call makes of such a     *)
(* tree.  What a list holds is found by an induction over its length,      *)
(* done with the least counterexample.                                     *)
(***************************************************************************)
EXTENDS Sfs, Arithmetic, FiniteSetTheorems, WellFoundedInduction, SequenceTheorems,
        TLAPS

(* A set of natural numbers has a least one: how the proofs below do an    *)
(* induction.                                                              *)
LEMMA LeastNatural ==
    ASSUME NEW S \in SUBSET Nat, S # {}
    PROVE  \E m \in S : \A k \in S : m <= k
<1> DEFINE R == OpToRel(<, Nat)
<1>1. IsWellFoundedOn(R, Nat)
  BY NatLessThanWellFounded
<1>2. \A k, m \in Nat : k < m => <<k, m>> \in R
  BY Zenon DEF OpToRel
<1> HIDE DEF R
<1>3. \E m \in S : \A k \in S : ~(<<k, m>> \in R)
  BY <1>1, WFMin
<1>4. PICK m \in S : \A k \in S : ~(<<k, m>> \in R)
  BY <1>3
<1>5. \A k \in S : k \in Nat /\ m \in Nat /\ ~(k < m)
  BY <1>2, <1>4, Zenon
<1> QED  BY <1>5

(* The recursion in Listing, for walks of up to n blocks.                  *)
WalkOf(dk, from, n) ==
    from = [k \in 0 .. n |->
            [b \in BlockIds |-> IF b = 0 \/ k = 0 THEN << >>
                               ELSE <<b>> \o from[k - 1][Next_of(dk[b])]]]

LEMMA WalkExists ==
    ASSUME NEW dk
    PROVE  \A n \in Nat : \E g : WalkOf(dk, g, n)
<1> DEFINE S == {n \in Nat : ~ \E g : WalkOf(dk, g, n)}
<1> SUFFICES ASSUME S # {} PROVE FALSE
  OBVIOUS
<1>1. PICK m \in S : \A k \in S : m <= k
  <2> HIDE DEF S
  <2>1. S \in SUBSET Nat
    BY DEF S
  <2> QED  BY <2>1, LeastNatural
<1>2. CASE m = 0
  <2> DEFINE g == [k \in 0 .. 0 |-> [b \in BlockIds |-> << >>]]
  <2>1. \A k \in 0 .. 0 : g[k] = [b \in BlockIds |-> << >>]
    OBVIOUS
  <2>2. WalkOf(dk, g, 0)
    BY DEF WalkOf
  <2> QED  BY <1>2, <2>2
<1>3. CASE m # 0
  <2>1. m \in Nat /\ m - 1 \in Nat /\ m - 1 \notin S
    BY <1>1, <1>3
  <2>2. PICK g : WalkOf(dk, g, m - 1)
    BY <2>1
  <2> DEFINE Step(h, k) == [b \in BlockIds |-> IF b = 0 \/ k = 0 THEN << >>
                                               ELSE <<b>> \o h[k - 1][Next_of(dk[b])]]
             f == [k \in 0 .. m |-> Step(g, k)]
  <2>3. g = [k \in 0 .. m - 1 |-> Step(g, k)]
    BY <2>2 DEF WalkOf
  <2>4. \A k \in 0 .. m - 1 : f[k] = g[k]
    <3> HIDE DEF Step
    <3>1. \A k \in 0 .. m - 1 : g[k] = Step(g, k)
      BY <2>3
    <3>2. \A k \in 0 .. m - 1 : f[k] = Step(g, k)
      BY <2>1
    <3> QED  BY <3>1, <3>2
  <2>5. \A k \in 0 .. m : Step(f, k) = Step(g, k)
    <3> SUFFICES ASSUME NEW k \in 0 .. m PROVE Step(f, k) = Step(g, k)
      OBVIOUS
    <3> HIDE DEF f
    <3>1. CASE k = 0
      BY <3>1
    <3>2. CASE k # 0
      <4>1. f[k - 1] = g[k - 1]
        BY <2>1, <2>4, <3>2
      <4> QED  BY <4>1
    <3> QED  BY <3>1, <3>2
  <2>6. f = [k \in 0 .. m |-> Step(f, k)]
    <3>1. f = [k \in 0 .. m |-> Step(g, k)]
      OBVIOUS
    <3> HIDE DEF f, Step
    <3> QED  BY <2>5, <3>1
  <2>7. WalkOf(dk, f, m)
    <3> HIDE DEF f
    <3> QED  BY <2>6 DEF WalkOf
  <2> QED  BY <2>7
<1> QED  BY <1>2, <1>3

LEMMA ListingIsAWalk ==
    ASSUME NEW dk
    PROVE  \E g : WalkOf(dk, g, LastBlock) /\ \A first : Listing(dk, first) = g[LastBlock][first]
<1> DEFINE from[k \in 0 .. LastBlock] ==
            [b \in BlockIds |-> IF b = 0 \/ k = 0 THEN << >>
                               ELSE <<b>> \o from[k - 1][Next_of(dk[b])]]
<1>1. \E g : WalkOf(dk, g, LastBlock)
  BY WalkExists, SizesAssumption
<1>2. WalkOf(dk, from, LastBlock)
  BY <1>1 DEF WalkOf
<1>3. \A first : Listing(dk, first) = from[LastBlock][first]
  BY DEF Listing
<1> QED  BY <1>2, <1>3

(* What a walk is: it visits first and then what each block links to, up   *)
(* to a block that links to nothing or to the bound.                       *)
LinksAreIds(dk) == \A b \in BlockIds : Next_of(dk[b]) \in BlockIds
IsWalk(dk, s, b, n) ==
    /\ s \in Seq(Ids) /\ Len(s) <= n
    /\ b = 0 \/ n = 0 => s = << >>
    /\ b # 0 /\ n # 0 => Len(s) >= 1 /\ s[1] = b
    /\ \A j \in 1 .. Len(s) - 1 : s[j + 1] = Next_of(dk[s[j]])
    /\ Len(s) < n /\ s # << >> => Next_of(dk[s[Len(s)]]) = 0

LEMMA Cons ==
    ASSUME NEW S, NEW x \in S, NEW s \in Seq(S)
    PROVE  /\ <<x>> \o s \in Seq(S) /\ Len(<<x>> \o s) = Len(s) + 1
           /\ (<<x>> \o s)[1] = x /\ \A j \in 1 .. Len(s) : (<<x>> \o s)[j + 1] = s[j]
  OBVIOUS

LEMMA WalkShape ==
    ASSUME NEW dk, LinksAreIds(dk), NEW g, WalkOf(dk, g, LastBlock)
    PROVE  \A k \in 0 .. LastBlock : \A b \in BlockIds : IsWalk(dk, g[k][b], b, k)
<1> DEFINE S == {k \in 0 .. LastBlock : ~ \A b \in BlockIds : IsWalk(dk, g[k][b], b, k)}
<1> SUFFICES ASSUME S # {} PROVE FALSE
  OBVIOUS
<1>1. PICK m \in S : \A k \in S : m <= k
  <2> HIDE DEF S
  <2>1. S \in SUBSET Nat
    BY DEF S
  <2> QED  BY <2>1, LeastNatural
<1>2. PICK b \in BlockIds : ~IsWalk(dk, g[m][b], b, m)
  OBVIOUS
<1>3. m \in 0 .. LastBlock /\ LastBlock \in Nat
  BY SizesAssumption
<1>4. g[m][b] = IF b = 0 \/ m = 0 THEN << >> ELSE <<b>> \o g[m - 1][Next_of(dk[b])]
  <2>1. g[m] = [c \in BlockIds |-> IF c = 0 \/ m = 0 THEN << >>
                                   ELSE <<c>> \o g[m - 1][Next_of(dk[c])]]
    BY <1>3, Zenon DEF WalkOf
  <2> QED  BY <2>1, Zenon
<1>5. CASE b = 0 \/ m = 0
  <2>1. g[m][b] = << >>
    BY <1>4, <1>5, Zenon
  <2>2. IsWalk(dk, << >>, b, m)
    BY <1>3, <1>5 DEF IsWalk
  <2> QED  BY <1>2, <2>1, <2>2
<1>6. CASE b # 0 /\ m # 0
  <2> DEFINE n == Next_of(dk[b])
             s == g[m - 1][n]
             t == <<b>> \o s
  <2>1. n \in BlockIds /\ b \in Ids
    BY <1>6 DEF LinksAreIds, Ids
  <2>2. IsWalk(dk, s, n, m - 1)
    <3>1. m - 1 \in 0 .. LastBlock /\ m - 1 \notin S
      BY <1>1, <1>3, <1>6
    <3> QED  BY <2>1, <3>1
  <2>3. g[m][b] = t
    BY <1>4, <1>6
  <2> HIDE DEF n, s, t
  <2>4. s \in Seq(Ids)
    BY <2>2 DEF IsWalk
  <2>5. /\ t \in Seq(Ids) /\ Len(t) = Len(s) + 1 /\ t[1] = b
        /\ \A j \in 1 .. Len(s) : t[j + 1] = s[j]
    BY <2>1, <2>4, Cons DEF t
  <2>6. Len(s) \in Nat /\ (s = << >> <=> Len(s) = 0)
    BY <2>4
  <2>7. ASSUME NEW j \in 1 .. Len(t) - 1 PROVE t[j + 1] = Next_of(dk[t[j]])
    <3>1. CASE j = 1
      <4>1. t[2] = s[1] /\ Len(s) >= 1
        BY <2>5, <2>6, <2>7, <3>1
      <4>2. n # 0 /\ m - 1 # 0
        BY <2>2, <2>6, <4>1 DEF IsWalk
      <4>3. s[1] = n
        BY <2>2, <4>2 DEF IsWalk
      <4> QED  BY <2>5, <3>1, <4>1, <4>3 DEF n
    <3>2. CASE j # 1
      <4>1. j - 1 \in 1 .. Len(s) - 1
        BY <2>5, <2>6, <2>7, <3>2
      <4>2. s[(j - 1) + 1] = Next_of(dk[s[j - 1]])
        BY <2>2, <4>1 DEF IsWalk
      <4>3. t[j + 1] = s[j] /\ t[(j - 1) + 1] = s[j - 1]
        BY <2>5, <2>6, <4>1
      <4> QED  BY <4>1, <4>2, <4>3
    <3> QED  BY <3>1, <3>2
  <2>8. ASSUME Len(t) < m PROVE Next_of(dk[t[Len(t)]]) = 0
    <3>1. CASE Len(s) = 0
      <4>1. n = 0
        BY <1>3, <2>2, <2>5, <2>6, <2>8, <3>1 DEF IsWalk
      <4> QED  BY <2>5, <3>1, <4>1 DEF n
    <3>2. CASE Len(s) # 0
      <4>1. t[Len(t)] = s[Len(s)]
        BY <2>5, <2>6, <3>2
      <4> QED  BY <1>3, <2>2, <2>5, <2>6, <2>8, <3>2, <4>1 DEF IsWalk
    <3> QED  BY <3>1, <3>2
  <2>9. Len(t) <= m
    BY <1>3, <1>6, <2>2, <2>5, <2>6 DEF IsWalk
  <2>10. IsWalk(dk, t, b, m)
    BY <1>6, <2>5, <2>6, <2>7, <2>8, <2>9 DEF IsWalk
  <2> QED  BY <1>2, <2>3, <2>10
<1> QED  BY <1>5, <1>6

LEMMA ListingShape ==
    ASSUME NEW dk, LinksAreIds(dk), NEW first \in BlockIds
    PROVE  IsWalk(dk, Listing(dk, first), first, LastBlock)
<1>1. PICK g : WalkOf(dk, g, LastBlock) /\ \A f : Listing(dk, f) = g[LastBlock][f]
  BY ListingIsAWalk
<1>2. LastBlock \in 0 .. LastBlock
  BY SizesAssumption
<1> QED  BY <1>1, <1>2, WalkShape

(* The least member of a set of indices that is not empty.                 *)
LEMMA LeastIndex ==
    ASSUME NEW n \in Nat, NEW S \in SUBSET (1 .. n), S # {}
    PROVE  \E m \in S : \A k \in S : m <= k
<1>1. S \in SUBSET Nat
  OBVIOUS
<1> QED  BY <1>1, LeastNatural

LEMMA CountIds == IsFiniteSet(Ids) /\ Cardinality(Ids) = LastBlock /\ Ids = 1 .. LastBlock
<1>1. Ids = 1 .. LastBlock
  BY SizesAssumption DEF Ids, BlockIds
<1> QED  BY <1>1, FS_Interval, SizesAssumption

LEMMA ListedIds ==
    ASSUME NEW dk, LinksAreIds(dk), NEW first \in BlockIds
    PROVE  /\ Listed(dk, first) \subseteq Ids /\ IsFiniteSet(Listed(dk, first))
           /\ first = 0 => Listed(dk, first) = {}
           /\ first # 0 => first \in Listed(dk, first)
           /\ Listed(dk, first) = {Listing(dk, first)[k] : k \in 1 .. Len(Listing(dk, first))}
<1> DEFINE s == Listing(dk, first)
<1>1. IsWalk(dk, s, first, LastBlock) /\ LastBlock \in Nat \ {0}
  BY ListingShape, SizesAssumption
<1>2. Listed(dk, first) = {s[k] : k \in DOMAIN s}
  BY DEF Listed
<1> HIDE DEF s
<1>3. DOMAIN s = 1 .. Len(s) /\ Len(s) \in Nat /\ s \in Seq(Ids)
  BY <1>1 DEF IsWalk
<1>4. Listed(dk, first) \subseteq Ids
  BY <1>2, <1>3
<1>5. IsFiniteSet(Ids)
  BY CountIds
<1>6. IsFiniteSet(Listed(dk, first))
  BY <1>4, <1>5, FS_Subset
<1>7. first # 0 => first \in Listed(dk, first)
  BY <1>1, <1>2, <1>3 DEF IsWalk
<1>8. first = 0 => Listed(dk, first) = {}
  BY <1>1, <1>2, <1>3 DEF IsWalk
<1> QED  BY <1>2, <1>3, <1>4, <1>6, <1>7, <1>8 DEF s

(* A list is the least set that holds its first block and what its blocks  *)
(* link to.                                                                *)
LEMMA ListedIsLeast ==
    ASSUME NEW dk, LinksAreIds(dk), NEW first \in BlockIds, NEW S,
           first # 0 => first \in S,
           \A b \in S \cap Listed(dk, first) : Next_of(dk[b]) # 0 => Next_of(dk[b]) \in S
    PROVE  Listed(dk, first) \subseteq S
<1> DEFINE s == Listing(dk, first)
<1>1. IsWalk(dk, s, first, LastBlock) /\ Listed(dk, first) = {s[k] : k \in 1 .. Len(s)}
  BY ListingShape, ListedIds
<1> HIDE DEF s
<1>2. s \in Seq(Ids) /\ Len(s) \in Nat /\ \A j \in 1 .. Len(s) : s[j] \in Ids
  BY <1>1 DEF IsWalk
<1> DEFINE Out == {k \in 1 .. Len(s) : s[k] \notin S}
<1>3. SUFFICES ASSUME Out # {} PROVE FALSE
  BY <1>1
<1>4. PICK m \in Out : \A k \in Out : m <= k
  <2> HIDE DEF Out
  <2>1. Out \in SUBSET (1 .. Len(s))
    BY DEF Out
  <2> QED  BY <1>2, <1>3, <2>1, LeastIndex
<1>5. CASE m = 1
  BY <1>1, <1>2, <1>4, <1>5 DEF IsWalk
<1>6. CASE m # 1
  <2>1. m - 1 \in 1 .. Len(s) - 1 /\ m - 1 \notin Out /\ m = (m - 1) + 1
    BY <1>2, <1>4, <1>6
  <2>2. s[m - 1] \in S /\ s[m - 1] \in Listed(dk, first) /\ s[m] = Next_of(dk[s[m - 1]])
    BY <1>1, <1>2, <2>1 DEF IsWalk
  <2>3. s[m] # 0
    BY <1>2, <1>4 DEF Ids
  <2> QED  BY <1>4, <2>2, <2>3
<1> QED  BY <1>5, <1>6

LEMMA ListedIsClosed ==
    ASSUME NEW dk, LinksAreIds(dk), NEW first \in BlockIds,
           NEW b \in Listed(dk, first), Next_of(dk[b]) # 0
    PROVE  Next_of(dk[b]) \in Listed(dk, first)
<1> DEFINE s == Listing(dk, first)
           n == Len(s)
<1>1. IsWalk(dk, s, first, LastBlock) /\ Listed(dk, first) = {s[k] : k \in 1 .. n}
  BY ListingShape, ListedIds
<1> HIDE DEF s, n
<1>2. s \in [1 .. n -> Ids] /\ n \in Nat /\ n <= LastBlock /\ LastBlock \in Nat
  BY <1>1, SizesAssumption DEF IsWalk, n
<1>3. PICK j \in 1 .. n : b = s[j]
  BY <1>1
<1>4. ASSUME NEW k \in 1 .. n - 1, b = s[k] PROVE Next_of(dk[b]) \in Listed(dk, first)
  <2>1. s[k + 1] = Next_of(dk[b]) /\ k + 1 \in 1 .. n
    BY <1>1, <1>2, <1>4 DEF IsWalk, n
  <2> QED  BY <1>1, <2>1
<1>5. CASE j < n
  BY <1>2, <1>3, <1>4, <1>5
<1>6. CASE j = n
  <2>1. n = LastBlock
    <3>1. s # << >> /\ n = Len(s)
      BY <1>1, <1>2, <1>3 DEF n
    <3>2. n < LastBlock => Next_of(dk[s[n]]) = 0
      BY <1>1, <3>1 DEF IsWalk
    <3> QED  BY <1>2, <1>3, <1>6, <3>2
  <2>2. CASE \A i, k \in 1 .. n : s[i] = s[k] => i = k
    <3>1. s \in Injection(1 .. n, Ids)
      BY <1>2, <2>2 DEF Injection, IsInjective
    <3>2. Cardinality(1 .. n) = Cardinality(Ids) /\ IsFiniteSet(Ids)
      BY <1>2, <2>1, CountIds, FS_Interval
    <3>3. s \in Surjection(1 .. n, Ids)
      BY <3>1, <3>2, FS_Injection
    <3>4. Next_of(dk[b]) \in Ids
      <4>1. b \in BlockIds
        BY <1>2, <1>3 DEF Ids
      <4> QED  BY <4>1 DEF LinksAreIds, Ids
    <3> QED  BY <1>1, <3>3, <3>4 DEF Surjection
  <2>3. CASE \E i, k \in 1 .. n : s[i] = s[k] /\ i < k
    <3>1. PICK i \in 1 .. n, k \in 1 .. n : s[i] = s[k] /\ i < k
      BY <2>3
    <3> DEFINE T == {s[x] : x \in 1 .. k - 1}
    <3>2. \A x \in 1 .. k - 1 : s[x] \in T /\ x \in 1 .. n - 1
      BY <1>2, <3>1
    <3>3. first # 0 => first \in T
      BY <1>1, <1>2, <3>1, <3>2, <2>1 DEF IsWalk
    <3>4. ASSUME NEW c \in T PROVE Next_of(dk[c]) \in T
      <4>1. PICK x \in 1 .. k - 1 : c = s[x]
        OBVIOUS
      <4>2. s[x + 1] = Next_of(dk[c])
        BY <1>1, <3>2, <4>1 DEF IsWalk, n
      <4>3. CASE x + 1 = k
        <5>1. i \in 1 .. k - 1
          BY <1>2, <3>1
        <5> QED  BY <3>1, <3>2, <4>2, <4>3, <5>1
      <4>4. CASE x + 1 # k
        <5>1. x + 1 \in 1 .. k - 1
          BY <1>2, <4>4
        <5> QED  BY <3>2, <4>2, <5>1
      <4> QED  BY <4>3, <4>4
    <3> HIDE DEF T
    <3>5. Listed(dk, first) \subseteq T
      BY <3>3, <3>4, ListedIsLeast
    <3>6. PICK x \in 1 .. k - 1 : b = s[x]
      BY <3>5 DEF T
    <3> QED  BY <1>4, <3>2, <3>6
  <2>4. \A i, k \in 1 .. n : i # k => i < k \/ k < i
    BY <1>2
  <2> QED  BY <2>2, <2>3, <2>4
<1> QED  BY <1>2, <1>3, <1>5, <1>6

(* There is one walk from a block.                                         *)
LEMMA WalkAgrees ==
    ASSUME NEW dk, NEW first \in BlockIds, NEW n \in Nat,
           NEW s, IsWalk(dk, s, first, n), NEW t, IsWalk(dk, t, first, n)
    PROVE  \A j \in 1 .. Len(s) : j <= Len(t) /\ s[j] = t[j]
<1> DEFINE S == {j \in 1 .. Len(s) : ~(j <= Len(t) /\ s[j] = t[j])}
<1> SUFFICES ASSUME S # {} PROVE FALSE
  OBVIOUS
<1>1. Len(s) \in Nat /\ Len(t) \in Nat /\ Len(s) <= n /\ Len(t) <= n
      /\ \A j \in 1 .. Len(s) : s[j] \in Ids
  BY DEF IsWalk
<1>2. PICK j \in S : \A k \in S : j <= k
  <2> HIDE DEF S
  <2>1. S \in SUBSET (1 .. Len(s))
    BY DEF S
  <2> QED  BY <1>1, <2>1, LeastIndex
<1>3. CASE j = 1
  <2>1. first # 0 /\ n # 0
    BY <1>1, <1>2 DEF IsWalk
  <2> QED  BY <1>1, <1>2, <1>3, <2>1 DEF IsWalk
<1>4. CASE j # 1
  <2> DEFINE i == j - 1
  <2>1. i \in 1 .. Len(s) - 1 /\ i \notin S /\ j = i + 1 /\ i < j
    BY <1>1, <1>2, <1>4
  <2> HIDE DEF i
  <2>2. i <= Len(t) /\ s[i] = t[i] /\ s[i + 1] = Next_of(dk[s[i]]) /\ s[i + 1] # 0
    BY <1>1, <2>1 DEF IsWalk, Ids
  <2>3. CASE i = Len(t)
    <3>1. Len(t) < n /\ t # << >>
      BY <1>1, <2>1, <2>3
    <3> QED  BY <2>2, <2>3, <3>1 DEF IsWalk
  <2>4. CASE i # Len(t)
    <3>1. i \in 1 .. Len(t) - 1
      BY <1>1, <2>1, <2>2, <2>4
    <3>2. t[i + 1] = Next_of(dk[t[i]])
      BY <3>1 DEF IsWalk
    <3> QED  BY <1>2, <2>1, <2>2, <3>1, <3>2
  <2> QED  BY <2>3, <2>4
<1> QED  BY <1>3, <1>4

LEMMA WalkIsUnique ==
    ASSUME NEW dk, NEW first \in BlockIds, NEW n \in Nat,
           NEW s, IsWalk(dk, s, first, n), NEW t, IsWalk(dk, t, first, n)
    PROVE  s = t
<1>1. \A j \in 1 .. Len(s) : j <= Len(t) /\ s[j] = t[j]
  BY WalkAgrees
<1>2. \A j \in 1 .. Len(t) : j <= Len(s) /\ t[j] = s[j]
  BY WalkAgrees
<1>3. s \in Seq(Ids) /\ t \in Seq(Ids)
  BY DEF IsWalk
<1>4. Len(s) = Len(t)
  BY <1>1, <1>2, <1>3
<1> QED  BY <1>1, <1>3, <1>4

(* Blocks that link as before are listed as before.                        *)
LEMMA SameListing ==
    ASSUME NEW dk, LinksAreIds(dk), NEW em, LinksAreIds(em), NEW first \in BlockIds,
           \A b \in Listed(dk, first) : Next_of(em[b]) = Next_of(dk[b])
    PROVE  Listing(em, first) = Listing(dk, first) /\ Listed(em, first) = Listed(dk, first)
<1> DEFINE s == Listing(dk, first)
<1>1. IsWalk(dk, s, first, LastBlock) /\ Listed(dk, first) = {s[k] : k \in 1 .. Len(s)}
  BY ListingShape, ListedIds
<1> HIDE DEF s
<1>2. \A j \in 1 .. Len(s) : s[j] \in Listed(dk, first)
  BY <1>1
<1>3. Len(s) \in Nat /\ (s # << >> => Len(s) \in 1 .. Len(s))
  BY <1>1 DEF IsWalk
<1>4. IsWalk(em, s, first, LastBlock)
  <2>1. \A j \in 1 .. Len(s) - 1 : s[j + 1] = Next_of(em[s[j]])
    <3> SUFFICES ASSUME NEW j \in 1 .. Len(s) - 1 PROVE s[j + 1] = Next_of(em[s[j]])
      OBVIOUS
    <3>1. j \in 1 .. Len(s)
      BY <1>3
    <3> QED  BY <1>1, <1>2, <3>1 DEF IsWalk
  <2>2. Len(s) < LastBlock /\ s # << >> => Next_of(em[s[Len(s)]]) = 0
    BY <1>1, <1>2, <1>3 DEF IsWalk
  <2> QED  BY <1>1, <2>1, <2>2 DEF IsWalk
<1>5. s = Listing(em, first)
  BY <1>4, ListingShape, WalkIsUnique, SizesAssumption
<1> QED  BY <1>5 DEF s, Listed

(* No block of the list has two blocks of the list before it, and the      *)
(* first has none.                                                         *)
OneWay(dk, first) ==
    \A b, c \in Listed(dk, first) : Next_of(dk[b]) # 0 =>
        Next_of(dk[b]) # first /\ (Next_of(dk[b]) = Next_of(dk[c]) => b = c)

LEMMA OneWayIsInjective ==
    ASSUME NEW dk, LinksAreIds(dk), NEW first \in Ids, OneWay(dk, first),
           NEW s, s = Listing(dk, first)
    PROVE  \A i, j \in 1 .. Len(s) : s[i] = s[j] => i = j
<1>1. IsWalk(dk, s, first, LastBlock) /\ Listed(dk, first) = {s[k] : k \in 1 .. Len(s)}
      /\ LastBlock \in Nat \ {0} /\ first \in BlockIds /\ first # 0
  BY ListingShape, ListedIds, SizesAssumption DEF Ids
<1>2. Len(s) \in Nat /\ \A j \in 1 .. Len(s) : s[j] \in Ids /\ s[j] \in Listed(dk, first)
  BY <1>1 DEF IsWalk
<1>3. s[1] = first
  BY <1>1 DEF IsWalk
<1> DEFINE S == {i \in 1 .. Len(s) : \E j \in 1 .. Len(s) : i < j /\ s[i] = s[j]}
<1>4. S = {}
  <2> SUFFICES ASSUME S # {} PROVE FALSE
    OBVIOUS
  <2>1. PICK i \in S : \A k \in S : i <= k
    <3> HIDE DEF S
    <3>1. S \in SUBSET (1 .. Len(s))
      BY DEF S
    <3> QED  BY <1>2, <3>1, LeastIndex
  <2>2. PICK j \in 1 .. Len(s) : i < j /\ s[i] = s[j]
    BY <2>1
  <2> DEFINE a == i - 1
             c == j - 1
  <2>3. c \in 1 .. Len(s) - 1 /\ c \in 1 .. Len(s) /\ j = c + 1
    BY <1>2, <2>1, <2>2
  <2> HIDE DEF c
  <2>4. Next_of(dk[s[c]]) = s[j] /\ s[j] # 0 /\ s[c] \in Listed(dk, first)
    BY <1>1, <1>2, <2>3 DEF IsWalk, Ids
  <2>5. CASE i = 1
    BY <1>3, <2>2, <2>4, <2>5 DEF OneWay
  <2>6. CASE i # 1
    <3>1. a \in 1 .. Len(s) - 1 /\ a \in 1 .. Len(s) /\ i = a + 1 /\ a < c /\ a < i
      BY <1>2, <2>1, <2>2, <2>3, <2>6
    <3> HIDE DEF a
    <3>2. Next_of(dk[s[a]]) = s[i] /\ s[a] \in Listed(dk, first)
      BY <1>1, <1>2, <3>1 DEF IsWalk
    <3>3. s[a] = s[c]
      BY <2>2, <2>4, <3>2 DEF OneWay
    <3>4. a \in S
      BY <2>3, <3>1, <3>3
    <3> QED  BY <2>1, <3>1, <3>4
  <2> QED  BY <2>5, <2>6
<1>5. \A i, j \in 1 .. Len(s) : i # j => i < j \/ j < i
  BY <1>2
<1> QED  BY <1>4, <1>5

LEMMA ListEnds ==
    ASSUME NEW dk, LinksAreIds(dk), NEW first \in Ids, OneWay(dk, first),
           NEW s, s = Listing(dk, first)
    PROVE  /\ Len(s) \in 1 .. LastBlock /\ s[1] = first
           /\ Next_of(dk[s[Len(s)]]) = 0
           /\ \A b \in Listed(dk, first) : Next_of(dk[b]) = 0 => b = s[Len(s)]
           /\ LastOf(dk, first) = s[Len(s)] /\ s[Len(s)] \in Listed(dk, first)
<1>1. IsWalk(dk, s, first, LastBlock) /\ Listed(dk, first) = {s[k] : k \in 1 .. Len(s)}
      /\ LastBlock \in Nat \ {0} /\ first \in BlockIds /\ first # 0
  BY ListingShape, ListedIds, SizesAssumption DEF Ids
<1>2. Len(s) \in 1 .. LastBlock /\ s[1] = first
      /\ \A j \in 1 .. Len(s) : s[j] \in Ids /\ s[j] \in Listed(dk, first)
  BY <1>1 DEF IsWalk
<1>3. \A i, j \in 1 .. Len(s) : s[i] = s[j] => i = j
  BY OneWayIsInjective
<1> DEFINE last == s[Len(s)]
<1>4. ASSUME Next_of(dk[last]) # 0 PROVE FALSE
  <2>1. last \in Listed(dk, first)
    BY <1>2
  <2>2. Next_of(dk[last]) \in Listed(dk, first)
    BY <1>1, <1>4, <2>1, ListedIsClosed
  <2>3. PICK i \in 1 .. Len(s) : Next_of(dk[last]) = s[i]
    BY <1>1, <2>2
  <2>4. i # 1
    BY <1>2, <1>4, <2>1, <2>3 DEF OneWay
  <2> DEFINE a == i - 1
  <2>5. a \in 1 .. Len(s) - 1 /\ a \in 1 .. Len(s) /\ i = a + 1
    BY <1>2, <2>3, <2>4
  <2> HIDE DEF a
  <2>6. Next_of(dk[s[a]]) = s[i] /\ s[a] \in Listed(dk, first)
    BY <1>1, <1>2, <2>5 DEF IsWalk
  <2>7. s[a] = last
    BY <1>4, <2>1, <2>3, <2>6 DEF OneWay
  <2>8. a = Len(s)
    BY <1>2, <1>3, <2>5, <2>7
  <2> QED  BY <1>2, <2>5, <2>8
<1>5. ASSUME NEW b \in Listed(dk, first), Next_of(dk[b]) = 0 PROVE b = last
  <2>1. PICK j \in 1 .. Len(s) : b = s[j]
    BY <1>1
  <2>2. ASSUME j # Len(s) PROVE FALSE
    <3>1. j \in 1 .. Len(s) - 1 /\ j + 1 \in 1 .. Len(s)
      BY <1>2, <2>1, <2>2
    <3>2. s[j + 1] = 0
      BY <1>1, <1>5, <2>1, <3>1 DEF IsWalk
    <3> QED  BY <1>2, <3>1, <3>2 DEF Ids
  <2> QED  BY <2>1, <2>2
<1>6. last \in Listed(dk, first)
  BY <1>2
<1>7. LastOf(dk, first) = last
  <2> HIDE DEF last
  <2> QED  BY <1>4, <1>5, <1>6 DEF LastOf
<1> QED  BY <1>2, <1>4, <1>5, <1>6, <1>7

(* A sequence without repetitions has at most as many elements as there    *)
(* are blocks.                                                             *)
LEMMA DistinctFit ==
    ASSUME NEW s \in Seq(Ids), \A i, j \in 1 .. Len(s) : s[i] = s[j] => i = j
    PROVE  Len(s) <= LastBlock
<1>1. s \in Injection(1 .. Len(s), Ids)
  BY DEF Injection, IsInjective
<1>2. Cardinality(1 .. Len(s)) <= Cardinality(Ids)
  BY <1>1, CountIds, FS_Injection
<1> DEFINE n == Len(s)
<1>3. n \in Nat
  OBVIOUS
<1> HIDE DEF n
<1>4. Cardinality(1 .. n) = n
  <2>1. Cardinality(1 .. n) = IF 1 > n THEN 0 ELSE n - 1 + 1
    BY <1>3, FS_Interval
  <2> QED  BY <1>3, <2>1
<1> QED  BY <1>2, <1>4, CountIds DEF n

(* Blocks are appended to a list, or make a list of their own.             *)
IsLinked(em, t) ==
    /\ t \in Seq(Ids) /\ Len(t) >= 1
    /\ \A i, j \in 1 .. Len(t) : t[i] = t[j] => i = j
    /\ \A j \in 1 .. Len(t) - 1 : Next_of(em[t[j]]) = t[j + 1]
    /\ Next_of(em[t[Len(t)]]) = 0

LEMMA NewListing ==
    ASSUME NEW em, LinksAreIds(em), NEW t, IsLinked(em, t)
    PROVE  Listing(em, t[1]) = t /\ Listed(em, t[1]) = {t[k] : k \in 1 .. Len(t)}
<1>1. Len(t) \in Nat /\ t[1] \in Ids /\ t[1] \in BlockIds /\ t # << >> /\ t[1] # 0
  BY DEF IsLinked, Ids
<1>2. IsWalk(em, t, t[1], LastBlock)
  BY <1>1, DistinctFit, SizesAssumption DEF IsWalk, IsLinked
<1>3. t = Listing(em, t[1])
  BY <1>1, <1>2, ListingShape, WalkIsUnique, SizesAssumption
<1> QED  BY <1>1, <1>3, ListedIds

LEMMA Concatenation ==
    ASSUME NEW S, NEW s \in Seq(S), NEW t \in Seq(S)
    PROVE  /\ s \o t \in Seq(S) /\ Len(s \o t) = Len(s) + Len(t)
           /\ \A j \in 1 .. Len(s) : (s \o t)[j] = s[j]
           /\ \A j \in 1 .. Len(t) : (s \o t)[Len(s) + j] = t[j]
           /\ \A j \in Len(s) + 1 .. Len(s) + Len(t) : (s \o t)[j] = t[j - Len(s)]
  OBVIOUS

LEMMA AppendedListing ==
    ASSUME NEW dk, LinksAreIds(dk), NEW em, LinksAreIds(em),
           NEW first \in Ids, OneWay(dk, first), NEW t, IsLinked(em, t),
           \A j \in 1 .. Len(t) : t[j] \notin Listed(dk, first),
           \A b \in Listed(dk, first) :
               Next_of(em[b]) = IF b = LastOf(dk, first) THEN t[1] ELSE Next_of(dk[b])
    PROVE  /\ Listing(em, first) = Listing(dk, first) \o t
           /\ Listed(em, first) = Listed(dk, first) \cup {t[k] : k \in 1 .. Len(t)}
<1> DEFINE s == Listing(dk, first)
           u == s \o t
           m == Len(s)
<1>1. IsWalk(dk, s, first, LastBlock) /\ Listed(dk, first) = {s[k] : k \in 1 .. Len(s)}
      /\ first \in BlockIds /\ first # 0
  BY ListingShape, ListedIds DEF Ids
<1>2. s[1] = first /\ m \in 1 .. LastBlock /\ LastBlock \in Nat /\ LastOf(dk, first) = s[m]
  BY ListEnds, SizesAssumption
<1>3. \A i, j \in 1 .. m : s[i] = s[j] => i = j
  BY OneWayIsInjective
<1> HIDE DEF s
<1>4. s \in Seq(Ids) /\ t \in Seq(Ids) /\ Len(t) \in Nat /\ Len(t) >= 1 /\ Len(t) \in 1 .. Len(t)
  BY <1>1 DEF IsWalk, IsLinked
<1>5. /\ u \in Seq(Ids) /\ Len(u) = m + Len(t)
      /\ \A j \in 1 .. m : u[j] = s[j]
      /\ \A j \in m + 1 .. m + Len(t) : u[j] = t[j - m]
  BY <1>4, Concatenation
<1> HIDE DEF u, m
<1>6. \A i \in 1 .. m : s[i] \in Listed(dk, first)
  BY <1>1 DEF m
<1>7. ASSUME NEW i \in 1 .. Len(u), NEW j \in 1 .. Len(u), u[i] = u[j] PROVE i = j
  <2>1. CASE i <= m /\ j <= m
    BY <1>2, <1>3, <1>5, <1>7, <2>1
  <2>2. CASE i > m /\ j > m
    <3>1. i - m \in 1 .. Len(t) /\ j - m \in 1 .. Len(t) /\ u[i] = t[i - m] /\ u[j] = t[j - m]
      BY <1>2, <1>4, <1>5, <2>2
    <3>2. i - m = j - m
      BY <1>7, <3>1 DEF IsLinked
    <3> QED  BY <1>2, <3>2
  <2>3. CASE i <= m /\ j > m
    <3>1. j - m \in 1 .. Len(t) /\ u[i] = s[i] /\ u[j] = t[j - m] /\ i \in 1 .. m
      BY <1>2, <1>4, <1>5, <2>3
    <3> QED  BY <1>6, <1>7, <3>1
  <2>4. CASE i > m /\ j <= m
    <3>1. i - m \in 1 .. Len(t) /\ u[j] = s[j] /\ u[i] = t[i - m] /\ j \in 1 .. m
      BY <1>2, <1>4, <1>5, <2>4
    <3> QED  BY <1>6, <1>7, <3>1
  <2> QED  BY <1>2, <1>4, <1>5, <2>1, <2>2, <2>3, <2>4
<1>8. Len(u) <= LastBlock
  BY <1>5, <1>7, DistinctFit
<1>9. ASSUME NEW j \in 1 .. Len(u) - 1 PROVE u[j + 1] = Next_of(em[u[j]])
  <2>1. CASE j < m
    <3>1. j \in 1 .. m - 1 /\ j \in 1 .. m /\ j + 1 \in 1 .. m /\ m \in 1 .. m
      BY <1>2, <2>1
    <3>2. s[j + 1] = Next_of(dk[s[j]])
      BY <1>1, <3>1 DEF IsWalk, m
    <3>3. s[j] # s[m]
      BY <1>3, <3>1, <2>1, <1>2
    <3>4. Next_of(em[s[j]]) = Next_of(dk[s[j]])
      BY <1>2, <1>6, <3>1, <3>3
    <3> QED  BY <1>5, <3>1, <3>2, <3>4
  <2>2. CASE j = m
    <3>1. m \in 1 .. m /\ m + 1 \in m + 1 .. m + Len(t)
      BY <1>2, <1>4
    <3>2. u[m] = s[m] /\ u[m + 1] = t[(m + 1) - m]
      BY <1>5, <3>1
    <3>3. (m + 1) - m = 1
      BY <1>2
    <3>4. Next_of(em[s[m]]) = t[1]
      BY <1>2, <1>6, <3>1
    <3> QED  BY <2>2, <3>2, <3>3, <3>4
  <2>3. CASE j > m
    <3>1. /\ j - m \in 1 .. Len(t) - 1 /\ j \in m + 1 .. m + Len(t)
          /\ j + 1 \in m + 1 .. m + Len(t) /\ (j + 1) - m = (j - m) + 1
      BY <1>2, <1>4, <1>5, <2>3
    <3>2. Next_of(em[t[j - m]]) = t[(j - m) + 1]
      BY <3>1 DEF IsLinked
    <3>3. u[j] = t[j - m] /\ u[j + 1] = t[(j + 1) - m]
      BY <1>5, <3>1
    <3> QED  BY <3>1, <3>2, <3>3
  <2> QED  BY <1>2, <2>1, <2>2, <2>3
<1>10. Next_of(em[u[Len(u)]]) = 0
  <2>1. u[Len(u)] = t[Len(t)]
    <3>1. Len(u) \in m + 1 .. m + Len(t) /\ Len(u) - m = Len(t)
      BY <1>2, <1>4, <1>5
    <3> QED  BY <1>5, <3>1
  <2> QED  BY <2>1 DEF IsLinked
<1>11. u[1] = first /\ Len(u) >= 1
  BY <1>2, <1>4, <1>5
<1>12. IsWalk(em, u, first, LastBlock)
  BY <1>1, <1>2, <1>5, <1>8, <1>9, <1>10, <1>11 DEF IsWalk
<1>13. Listing(em, first) = u
  BY <1>1, <1>2, <1>12, ListingShape, WalkIsUnique
<1>14. Listed(em, first) = {u[k] : k \in 1 .. Len(u)}
  BY <1>1, <1>13, ListedIds
<1>15. {u[k] : k \in 1 .. Len(u)} = {s[k] : k \in 1 .. m} \cup {t[k] : k \in 1 .. Len(t)}
  <2>1. ASSUME NEW k \in 1 .. Len(u)
        PROVE  u[k] \in {s[j] : j \in 1 .. m} \cup {t[j] : j \in 1 .. Len(t)}
    <3>1. CASE k <= m
      <4>1. k \in 1 .. m
        BY <1>2, <3>1
      <4> QED  BY <1>5, <4>1
    <3>2. CASE k > m
      <4>1. k - m \in 1 .. Len(t) /\ k \in m + 1 .. m + Len(t)
        BY <1>2, <1>4, <1>5, <3>2
      <4> QED  BY <1>5, <4>1
    <3> QED  BY <1>2, <3>1, <3>2
  <2>2. ASSUME NEW j \in 1 .. m PROVE s[j] \in {u[k] : k \in 1 .. Len(u)}
    <3>1. j \in 1 .. Len(u)
      BY <1>2, <1>4, <1>5
    <3> QED  BY <1>5, <3>1
  <2>3. ASSUME NEW j \in 1 .. Len(t) PROVE t[j] \in {u[k] : k \in 1 .. Len(u)}
    <3>1. m + j \in 1 .. Len(u) /\ m + j \in m + 1 .. m + Len(t) /\ (m + j) - m = j
      BY <1>2, <1>4, <1>5
    <3> QED  BY <1>5, <3>1
  <2> QED  BY <2>1, <2>2, <2>3
<1> QED  BY <1>1, <1>13, <1>14, <1>15 DEF u, s, m

(* A block is taken out of a list: the block before it links to the one    *)
(* behind it.                                                              *)
LEMMA ListedWithout ==
    ASSUME NEW dk, LinksAreIds(dk), NEW em, LinksAreIds(em),
           NEW first \in Ids, OneWay(dk, first),
           NEW d \in Listed(dk, first) \ {first}, NEW before \in Listed(dk, first),
           Next_of(dk[before]) = d, Next_of(em[before]) = Next_of(dk[d]),
           \A b \in Listed(dk, first) \ {before, d} : Next_of(em[b]) = Next_of(dk[b])
    PROVE  Listed(em, first) = Listed(dk, first) \ {d} /\ before # d /\ Next_of(dk[d]) # d
<1>1. first \in BlockIds /\ first # 0
  BY DEF Ids
<1>2. Listed(dk, first) \subseteq Ids /\ first \in Listed(dk, first) /\ d # 0
  BY <1>1, ListedIds DEF Ids
<1>3. before # d
  <2> SUFFICES ASSUME before = d PROVE FALSE
    OBVIOUS
  <2>1. \A b \in Listed(dk, first) \ {d} : Next_of(dk[b]) # d
    BY <1>2 DEF OneWay
  <2>2. \A b \in Listed(dk, first) : Next_of(dk[b]) # 0 => Next_of(dk[b]) \in Listed(dk, first)
    BY <1>1, ListedIsClosed
  <2> DEFINE L == Listed(dk, first) \ {d}
  <2>3. first \in L /\ \A b \in L : Next_of(dk[b]) # 0 => Next_of(dk[b]) \in L
    BY <1>2, <2>1, <2>2
  <2>4. L \subseteq Listed(dk, first) /\ d \notin L
    OBVIOUS
  <2> HIDE DEF L
  <2>5. Listed(dk, first) \subseteq L
    BY <1>1, <2>3, <2>4, ListedIsLeast
  <2> QED  BY <2>4, <2>5
<1>4. Next_of(dk[d]) # d
  BY <1>2, <1>3 DEF OneWay
<1>5. \A b \in Listed(dk, first) : Next_of(dk[b]) # 0 => Next_of(dk[b]) \in Listed(dk, first)
  BY <1>1, ListedIsClosed
<1>6. \A b \in Listed(dk, first) \ {before} : Next_of(dk[b]) # d
  BY <1>2 DEF OneWay
<1>7. Listed(em, first) \subseteq Listed(dk, first) \ {d}
  <2>1. \A b \in Listed(dk, first) \ {d} :
           Next_of(em[b]) # 0 => Next_of(em[b]) \in Listed(dk, first) \ {d}
    BY <1>4, <1>5, <1>6
  <2> DEFINE L == Listed(dk, first) \ {d}
  <2>2. first \in L /\ \A b \in L : Next_of(em[b]) # 0 => Next_of(em[b]) \in L
    BY <1>2, <2>1
  <2> HIDE DEF L
  <2>3. Listed(em, first) \subseteq L
    BY <1>1, <2>2, ListedIsLeast
  <2> QED  BY <2>3 DEF L
<1>8. first \in Listed(em, first)
  BY <1>1, ListedIds
<1>9. \A b \in Listed(em, first) : Next_of(em[b]) # 0 => Next_of(em[b]) \in Listed(em, first)
  BY <1>1, ListedIsClosed
<1>10. before \in Listed(em, first)
  <2> SUFFICES ASSUME before \notin Listed(em, first) PROVE FALSE
    OBVIOUS
  <2>1. \A b \in Listed(em, first) : Next_of(dk[b]) # 0 => Next_of(dk[b]) \in Listed(em, first)
    BY <1>7, <1>9
  <2>2. Listed(dk, first) \subseteq Listed(em, first)
    BY <1>1, <1>8, <2>1, ListedIsLeast
  <2> QED  BY <2>2
<1>11. Listed(dk, first) \subseteq Listed(em, first) \cup {d}
  <2>1. ASSUME NEW b \in Listed(em, first) \cup {d}, Next_of(dk[b]) # 0
        PROVE  Next_of(dk[b]) \in Listed(em, first) \cup {d}
    <3>1. CASE b = d
      BY <1>9, <1>10, <2>1, <3>1
    <3>2. CASE b = before
      BY <3>2
    <3>3. CASE b # d /\ b # before
      BY <1>7, <1>9, <2>1, <3>3
    <3> QED  BY <3>1, <3>2, <3>3
  <2> QED  BY <1>1, <1>8, <2>1, ListedIsLeast
<1> QED  BY <1>3, <1>4, <1>7, <1>11

-----------------------------------------------------------------------------
(* Writes, one after the other. *)
LEMMA GreatestNatural ==
    ASSUME NEW S \in SUBSET Nat, S # {}, NEW n \in Nat, \A k \in S : k <= n
    PROVE  \E m \in S : \A k \in S : k <= m
<1> DEFINE T == {n - k : k \in S}
<1>1. T \in SUBSET Nat /\ T # {}
  <2>1. \A k \in S : n - k \in Nat
    OBVIOUS
  <2> QED  BY <2>1
<1>2. PICK t \in T : \A k \in T : t <= k
  <2> HIDE DEF T
  <2> QED  BY <1>1, LeastNatural
<1>3. PICK m \in S : t = n - m
  BY <1>2
<1>4. \A k \in S : n - k \in T
  OBVIOUS
<1> QED  BY <1>2, <1>3, <1>4

LEMMA PutIsAFunction ==
    ASSUME NEW dk, NEW w PROVE Put(dk, w) = [b \in BlockIds |-> Put(dk, w)[b]]
  BY DEF Put

IsLastHit(w, b, k) == w[k].bid = b /\ \A j \in 1 .. Len(w) : w[j].bid = b => j <= k

LEMMA PutLastHit ==
    ASSUME NEW dk, NEW S, NEW w \in Seq(S), NEW b \in BlockIds,
           NEW i \in 1 .. Len(w), w[i].bid = b
    PROVE  \E k \in 1 .. Len(w) : IsLastHit(w, b, k) /\ Put(dk, w)[b] = w[k].block
<1> DEFINE n == Len(w)
           hits == {k \in DOMAIN w : w[k].bid = b}
           last == CHOOSE k \in hits : \A j \in hits : j <= k
<1>0. n \in Nat /\ DOMAIN w = 1 .. n
  OBVIOUS
<1>1. Put(dk, w)[b] = IF hits = {} THEN dk[b] ELSE w[last].block
  BY DEF Put
<1>2. hits \in SUBSET Nat /\ (\A k \in hits : k <= n) /\ hits # {}
  BY <1>0
<1>3. \E k \in hits : \A j \in hits : j <= k
  <2> HIDE DEF hits
  <2> QED  BY <1>0, <1>2, GreatestNatural
<1>4. last \in hits /\ \A j \in hits : j <= last
  <2> HIDE DEF hits
  <2> QED  BY <1>3
<1> HIDE DEF last
<1>5. last \in 1 .. Len(w) /\ IsLastHit(w, b, last)
  BY <1>0, <1>4 DEF IsLastHit
<1>6. Put(dk, w)[b] = w[last].block
  BY <1>1, <1>2
<1> QED  BY <1>5, <1>6

LEMMA PutMissed ==
    ASSUME NEW dk, NEW S, NEW w \in Seq(S), NEW b \in BlockIds,
           \A k \in 1 .. Len(w) : w[k].bid # b
    PROVE  Put(dk, w)[b] = dk[b]
<1>1. DOMAIN w = 1 .. Len(w)
  OBVIOUS
<1> QED  BY <1>1 DEF Put

LEMMA PutNothing ==
    ASSUME NEW dk PROVE Put(dk, << >>) = [b \in BlockIds |-> dk[b]]
<1>1. ASSUME NEW b \in BlockIds PROVE Put(dk, << >>)[b] = dk[b]
  BY DEF Put
<1> QED  BY <1>1 DEF Put

(* Writes to blocks of their own, after other ones. *)
OfTheirOwn(v) == \A i, j \in 1 .. Len(v) : v[i].bid = v[j].bid => i = j

LEMMA PutMore ==
    ASSUME NEW dk, NEW S, NEW w \in Seq(S), NEW v \in Seq(S), OfTheirOwn(v)
    PROVE  /\ \A k \in 1 .. Len(v) :
                 v[k].bid \in BlockIds => Put(dk, w \o v)[v[k].bid] = v[k].block
           /\ \A b \in BlockIds :
                 (\A k \in 1 .. Len(v) : v[k].bid # b) => Put(dk, w \o v)[b] = Put(dk, w)[b]
<1> DEFINE u == w \o v
           m == Len(w)
           n == Len(v)
<1>1. /\ m \in Nat /\ n \in Nat /\ DOMAIN w = 1 .. m /\ DOMAIN u = 1 .. m + n
      /\ \A j \in 1 .. m : u[j] = w[j]
      /\ \A j \in 1 .. n : u[m + j] = v[j]
      /\ \A j \in m + 1 .. m + n : u[j] = v[j - m] /\ j - m \in 1 .. n
  BY Concatenation
<1> HIDE DEF u, m, n
<1>3. u \in Seq(S) /\ m + n = Len(u) /\ m = Len(w) /\ n = Len(v)
  BY <1>1, Concatenation DEF u, m, n
<1>2. u \in Seq(S)
  BY <1>3
<1>4. ASSUME NEW k \in 1 .. n, v[k].bid \in BlockIds PROVE Put(dk, u)[v[k].bid] = v[k].block
  <2> DEFINE b == v[k].bid
  <2>1. b \in BlockIds /\ u[m + k].bid = b /\ m + k \in 1 .. Len(u)
    BY <1>1, <1>3, <1>4
  <2> DEFINE h == m + k
  <2>0. b \in BlockIds /\ h \in 1 .. Len(u) /\ u[h].bid = b
    BY <2>1
  <2> HIDE DEF b, h
  <2>2. PICK i \in 1 .. Len(u) : IsLastHit(u, b, i) /\ Put(dk, u)[b] = u[i].block
    BY <1>2, <2>0, PutLastHit
  <2>3. i >= m + k /\ u[i].bid = b
    BY <2>1, <2>2 DEF IsLastHit
  <2>4. i \in m + 1 .. m + n
    BY <1>1, <1>3, <2>3
  <2>5. u[i] = v[i - m] /\ i - m \in 1 .. n
    BY <1>1, <2>4
  <2>6. i - m = k
    BY <1>3, <2>3, <2>5 DEF b, OfTheirOwn
  <2> QED  BY <2>2, <2>5, <2>6 DEF b
<1>5. ASSUME NEW b \in BlockIds, \A k \in 1 .. n : v[k].bid # b PROVE Put(dk, u)[b] = Put(dk, w)[b]
  <2>1. ASSUME NEW j \in 1 .. Len(u), u[j].bid = b
        PROVE  j \in 1 .. Len(w)
    <3>1. CASE j > m
      <4>1. j \in m + 1 .. m + n
        BY <1>1, <1>3, <3>1
      <4> QED  BY <1>1, <1>5, <2>1, <4>1
    <3> QED  BY <1>1, <1>3, <3>1
  <2>2. \A j \in 1 .. Len(w) : u[j] = w[j] /\ j \in 1 .. Len(u)
    BY <1>1, <1>3
  <2>3. CASE \A j \in 1 .. Len(w) : w[j].bid # b
    <3>1. \A j \in 1 .. Len(u) : u[j].bid # b
      BY <2>1, <2>2, <2>3
    <3>2. Put(dk, u)[b] = dk[b]
      BY <1>3, <3>1, PutMissed
    <3>3. Put(dk, w)[b] = dk[b]
      BY <2>3, PutMissed
    <3> QED  BY <3>2, <3>3
  <2>4. CASE \E j \in 1 .. Len(w) : w[j].bid = b
    <3>1. PICK k \in 1 .. Len(w) : IsLastHit(w, b, k) /\ Put(dk, w)[b] = w[k].block
      BY <2>4, PutLastHit
    <3>2. k \in 1 .. Len(u) /\ u[k].bid = b /\ b \in BlockIds
      BY <2>2, <3>1 DEF IsLastHit
    <3>3. PICK i \in 1 .. Len(u) : IsLastHit(u, b, i) /\ Put(dk, u)[b] = u[i].block
      BY <1>2, <3>2, PutLastHit
    <3>4. i \in 1 .. Len(w)
      BY <2>1, <3>3 DEF IsLastHit
    <3>5. i <= k /\ k <= i
      BY <2>2, <3>1, <3>2, <3>3, <3>4 DEF IsLastHit
    <3>6. i = k
      BY <1>1, <1>3, <3>4, <3>5
    <3> QED  BY <2>2, <3>1, <3>3, <3>6
  <2> QED  BY <2>3, <2>4
<1> QED  BY <1>4, <1>5 DEF u, n

LEMMA PutLast ==
    ASSUME NEW dk, NEW R, NEW w \in Seq(R), NEW c, NEW x
    PROVE  Put(dk, w \o <<At(c, x)>>) = [b \in BlockIds |-> IF b = c THEN x ELSE Put(dk, w)[b]]
<1> DEFINE v == <<At(c, x)>>
           S == R \cup {At(c, x)}
<1>0. w \in Seq(S)
  OBVIOUS
<1>1. v \in Seq(S) /\ Len(v) = 1 /\ v[1].bid = c /\ v[1].block = x
  BY DEF At
<1> HIDE DEF v, S
<1>2. 1 .. Len(v) = {1}
  BY <1>1
<1>3. OfTheirOwn(v) /\ v \in Seq(S)
  BY <1>1, <1>2 DEF OfTheirOwn
<1>4. /\ \A k \in 1 .. Len(v) :
            v[k].bid \in BlockIds => Put(dk, w \o v)[v[k].bid] = v[k].block
      /\ \A b \in BlockIds :
            (\A k \in 1 .. Len(v) : v[k].bid # b) => Put(dk, w \o v)[b] = Put(dk, w)[b]
  BY <1>0, <1>3, PutMore
<1>5. ASSUME NEW b \in BlockIds
      PROVE  Put(dk, w \o v)[b] = IF b = c THEN x ELSE Put(dk, w)[b]
  BY <1>1, <1>2, <1>4
<1>6. Put(dk, w \o v) = [b \in BlockIds |-> IF b = c THEN x ELSE Put(dk, w)[b]]
  <2>1. Put(dk, w \o v) = [b \in BlockIds |-> Put(dk, w \o v)[b]]
    BY PutIsAFunction
  <2> QED  BY <1>5, <2>1
<1> QED  BY <1>6 DEF v

LEMMA PutTyped ==
    ASSUME NEW T, NEW dk \in [BlockIds -> T], NEW S, NEW w \in Seq(S),
           \A k \in 1 .. Len(w) : w[k].bid \in BlockIds => w[k].block \in T
    PROVE  Put(dk, w) \in [BlockIds -> T]
<1>1. ASSUME NEW b \in BlockIds PROVE Put(dk, w)[b] \in T
  <2>1. CASE \A k \in 1 .. Len(w) : w[k].bid # b
    <3>1. Put(dk, w)[b] = dk[b]
      BY <2>1, PutMissed
    <3> QED  BY <3>1
  <2>2. CASE \E k \in 1 .. Len(w) : w[k].bid = b
    <3>1. PICK k \in 1 .. Len(w) : IsLastHit(w, b, k) /\ Put(dk, w)[b] = w[k].block
      BY <2>2, PutLastHit
    <3> QED  BY <3>1 DEF IsLastHit
  <2> QED  BY <2>1, <2>2
<1>2. Put(dk, w) = [b \in BlockIds |-> Put(dk, w)[b]]
  BY DEF Put
<1> QED  BY <1>1, <1>2
-----------------------------------------------------------------------------
(* Allocation. *)
LEMMA Ranks ==
    ASSUME NEW F \in SUBSET BlockIds
    PROVE  /\ Cardinality(F) \in Nat
           /\ \A b \in F : Cardinality({c \in F : c < b}) \in 0 .. Cardinality(F) - 1
           /\ \A b, c \in F : Cardinality({e \in F : e < b}) = Cardinality({e \in F : e < c}) => b = c
           /\ \A k \in 0 .. Cardinality(F) - 1 : \E b \in F : Cardinality({c \in F : c < b}) = k
<1> DEFINE Below(b) == {c \in F : c < b}
           n == Cardinality(F)
           rank == [b \in F |-> Cardinality(Below(b))]
<1>1. IsFiniteSet(F) /\ n \in Nat
  <2>1. IsFiniteSet(BlockIds)
    BY FS_Interval, SizesAssumption DEF BlockIds
  <2> QED  BY <2>1, FS_Subset, FS_CardinalityType
<1>2. F \subseteq Nat
  BY SizesAssumption DEF BlockIds
<1>3. ASSUME NEW b \in F
      PROVE  IsFiniteSet(Below(b)) /\ Cardinality(Below(b)) \in 0 .. n - 1
  <2>1. Below(b) \in SUBSET (F \ {b})
    BY <1>2
  <2>2. IsFiniteSet(F \ {b}) /\ Cardinality(F \ {b}) = n - 1
    BY <1>1, FS_RemoveElement
  <2> HIDE DEF Below, n
  <2>3. IsFiniteSet(Below(b)) /\ Cardinality(Below(b)) <= n - 1
    BY <2>1, <2>2, FS_Subset
  <2>4. Cardinality(Below(b)) \in Nat
    BY <2>3, FS_CardinalityType
  <2> QED  BY <1>1, <2>3, <2>4
<1>4. ASSUME NEW b \in F, NEW c \in F, b < c
      PROVE  Cardinality(Below(b)) < Cardinality(Below(c))
  <2>1. Below(b) \cup {b} \in SUBSET Below(c) /\ b \notin Below(b)
    <3>1. b \in Nat /\ c \in Nat /\ ~(b < b)
      BY <1>2
    <3>2. \A e \in F : e < b => e < c
      BY <1>2, <1>4, <3>1
    <3> QED  BY <1>4, <3>1, <3>2
  <2> HIDE DEF Below
  <2>2. IsFiniteSet(Below(b)) /\ IsFiniteSet(Below(c)) /\ Cardinality(Below(b)) \in Nat
        /\ Cardinality(Below(c)) \in Nat
    BY <1>3, FS_CardinalityType
  <2>3. Cardinality(Below(b) \cup {b}) = Cardinality(Below(b)) + 1
    BY <2>1, <2>2, FS_AddElement
  <2>4. Cardinality(Below(b) \cup {b}) <= Cardinality(Below(c))
    BY <2>1, <2>2, FS_Subset
  <2> QED  BY <2>2, <2>3, <2>4
<1>5. ASSUME NEW b \in F, NEW c \in F, Cardinality(Below(b)) = Cardinality(Below(c))
      PROVE  b = c
  <2>1. b \in Nat /\ c \in Nat /\ Cardinality(Below(b)) \in Nat
    <3> HIDE DEF Below, n
    <3> QED  BY <1>2, <1>3
  <2> HIDE DEF Below
  <2>2. ~(b < c)
    BY <1>4, <1>5, <2>1
  <2>3. ~(c < b)
    BY <1>4, <1>5, <2>1
  <2> QED  BY <2>1, <2>2, <2>3
<1>6. ASSUME NEW k \in 0 .. n - 1 PROVE \E b \in F : Cardinality(Below(b)) = k
  <2>1. rank \in Injection(F, 0 .. n - 1)
    <3> HIDE DEF Below, n
    <3>1. rank \in [F -> 0 .. n - 1]
      BY <1>3
    <3>2. \A b, c \in F : rank[b] = rank[c] => b = c
      BY <1>5
    <3> HIDE DEF rank
    <3> QED  BY <3>1, <3>2 DEF Injection, IsInjective
  <2>2. IsFiniteSet(0 .. n - 1) /\ Cardinality(0 .. n - 1) = n
    <3> HIDE DEF n
    <3>1. 0 \in Int /\ n - 1 \in Int
      BY <1>1
    <3>2. Cardinality(0 .. n - 1) = IF 0 > n - 1 THEN 0 ELSE (n - 1) - 0 + 1
      BY <3>1, FS_Interval
    <3> QED  BY <1>1, <3>1, <3>2, FS_Interval
  <2> DEFINE r == rank
  <2> HIDE DEF r
  <2>3. r \in Surjection(F, 0 .. n - 1)
    <3>1. r \in Injection(F, 0 .. n - 1)
      BY <2>1 DEF r
    <3> HIDE DEF n
    <3>2. Cardinality(F) = Cardinality(0 .. n - 1)
      BY <2>2 DEF n
    <3> QED  BY <2>2, <3>1, <3>2, FS_Injection
  <2>4. \E b \in F : r[b] = k
    BY <2>3 DEF Surjection
  <2>5. PICK b \in F : rank[b] = k
    BY <2>4 DEF r
  <2> HIDE DEF Below, n
  <2> QED  BY <2>5
<1> QED  BY <1>1, <1>3, <1>5, <1>6

LEMMA AllocatedBlocks ==
    /\ Cardinality(FreeBlocks) \in Nat
    /\ \A k \in 1 .. Cardinality(FreeBlocks) : Allocated(k) \in FreeBlocks
    /\ \A i, j \in 1 .. Cardinality(FreeBlocks) : Allocated(i) = Allocated(j) => i = j
    /\ \A b \in FreeBlocks : \E k \in 1 .. Cardinality(FreeBlocks) : Allocated(k) = b
    /\ \A k \in Nat : k > Cardinality(FreeBlocks) => Allocated(k) = 0
<1> DEFINE F == FreeBlocks
           n == Cardinality(F)
           Rank(b) == Cardinality({c \in F : c < b})
<1>1. F \in SUBSET BlockIds
  BY DEF FreeBlocks
<1>2. /\ n \in Nat
      /\ \A b \in F : Rank(b) \in 0 .. n - 1
      /\ \A b, c \in F : Rank(b) = Rank(c) => b = c
      /\ \A k \in 0 .. n - 1 : \E b \in F : Rank(b) = k
  <2> HIDE DEF F
  <2> QED  BY <1>1, Ranks
<1>3. ASSUME NEW k \in Nat
      PROVE  Allocated(k) = IF k > n THEN 0 ELSE CHOOSE b \in F : Rank(b) = k - 1
  BY DEF Allocated
<1> HIDE DEF Rank, n
<1>4. ASSUME NEW k \in 1 .. n PROVE Allocated(k) \in F /\ Rank(Allocated(k)) = k - 1
  <2>1. k \in Nat /\ ~(k > n) /\ k - 1 \in 0 .. n - 1
    BY <1>2
  <2>2. \E b \in F : Rank(b) = k - 1
    BY <1>2, <2>1
  <2>3. Allocated(k) = CHOOSE b \in F : Rank(b) = k - 1
    BY <1>3, <2>1
  <2> HIDE DEF F
  <2> QED  BY <2>2, <2>3
<1>5. ASSUME NEW i \in 1 .. n, NEW j \in 1 .. n, Allocated(i) = Allocated(j) PROVE i = j
  <2>1. i - 1 = j - 1
    BY <1>4, <1>5
  <2> QED  BY <1>2, <2>1
<1>6. ASSUME NEW b \in F PROVE \E k \in 1 .. n : Allocated(k) = b
  <2>1. Rank(b) + 1 \in 1 .. n /\ (Rank(b) + 1) - 1 = Rank(b)
    BY <1>2
  <2>2. Allocated(Rank(b) + 1) \in F /\ Rank(Allocated(Rank(b) + 1)) = Rank(b)
    BY <1>4, <2>1
  <2> QED  BY <1>2, <2>1, <2>2
<1>7. ASSUME NEW k \in Nat, k > n PROVE Allocated(k) = 0
  BY <1>3, <1>7
<1> QED  BY <1>2, <1>4, <1>5, <1>6, <1>7 DEF n

-----------------------------------------------------------------------------
(* The inductive invariant behind TypeOK: in addition nothing links to the *)
(* blocks 1 and 2, which are always marked, and until something breaks the *)
(* tree is intact.                                                         *)
Refs == BlockIds \ {1, 2}
SuperRefs == [kind : {"super"}, first_dir : Refs]
MapRefs == [kind : {"map"}, used : SUBSET Ids]
DirRefs == [kind : {"dir"}, next_dir : Refs, dir_name : DirNames, inodes : [InodeSlots -> Refs]]
InodeRefs ==
    [kind : {"inode"}, size : {FrameSize * k : k \in 0 .. MaxCursor}, first_frame : Refs,
     file_name : FileNames \cup {NoName}]
FrameRefs == [kind : {"frame"}, next : Refs, content : [FramePlaces -> Refs]]
DataRefs == [kind : {"data"}, bytes : [0 .. BlockSize - 1 -> Bytes]]
BlockRefs ==
    SuperRefs \cup MapRefs \cup DirRefs \cup InodeRefs \cup FrameRefs \cup {FreeBlock} \cup DataRefs
FdRefs ==
    [valid : BOOLEAN, dir_bid : Refs, inode_bid : Refs, cur : 0 .. MaxCursor, inode : InodeRefs]

TypeInv ==
    /\ disk \in [BlockIds -> BlockRefs] /\ sb \in Refs
    /\ freemap \in SUBSET Ids /\ {1, 2} \subseteq freemap
    /\ fdtable \in [Fds -> FdRefs] /\ broken \in BOOLEAN
IInv == TypeInv /\ (~broken => Intact)

LEMMA TypeInvIsEnough == ASSUME TypeInv PROVE TypeOK
<1>1. Refs \subseteq BlockIds
  BY DEF Refs
<1>2. InodeRefs \subseteq InodeType
  BY <1>1 DEF InodeRefs, InodeType
<1>3. BlockRefs \subseteq BlockType
  <2>1. SuperRefs \subseteq BlockType
    BY <1>1 DEF SuperRefs, BlockType
  <2>2. MapRefs \subseteq BlockType
    BY DEF MapRefs, BlockType
  <2>3. DirRefs \subseteq BlockType
    BY <1>1 DEF DirRefs, BlockType
  <2>4. FrameRefs \subseteq BlockType
    BY <1>1 DEF FrameRefs, BlockType
  <2>5. DataRefs \subseteq BlockType /\ FreeBlock \in BlockType
    BY DEF DataRefs, BlockType
  <2>6. InodeRefs \subseteq BlockType
    BY <1>2 DEF BlockType
  <2> QED  BY <2>1, <2>2, <2>3, <2>4, <2>5, <2>6 DEF BlockRefs
<1>4. disk \in [BlockIds -> BlockType] /\ sb \in BlockIds
  BY <1>1, <1>3 DEF TypeInv
<1>5. fdtable \in [Fds -> [valid : BOOLEAN, dir_bid : BlockIds, inode_bid : BlockIds,
                           cur : 0 .. MaxCursor, inode : InodeType]]
  BY <1>1, <1>2 DEF TypeInv, FdRefs
<1> QED  BY <1>4, <1>5 DEF TypeInv, TypeOK

(* What a block is. *)
LEMMA KindOf ==
    ASSUME NEW x \in BlockRefs
    PROVE  /\ x.kind = "super" => x \in SuperRefs
           /\ x.kind = "map" => x \in MapRefs
           /\ x.kind = "dir" => x \in DirRefs
           /\ x.kind = "inode" => x \in InodeRefs
           /\ x.kind = "frame" => x \in FrameRefs
           /\ x.kind = "data" => x \in DataRefs
           /\ x.kind \in {"super", "map", "dir", "inode", "frame", "data", "free"}
  BY DEF BlockRefs, SuperRefs, MapRefs, DirRefs, InodeRefs, FrameRefs, DataRefs, FreeBlock

LEMMA NoRef == 0 \in Refs /\ 0 \in BlockIds /\ 1 \in BlockIds /\ Refs \subseteq BlockIds
  BY SizesAssumption DEF Refs, BlockIds

LEMMA NextRef == ASSUME NEW x \in BlockRefs PROVE Next_of(x) \in Refs
<1>1. CASE x.kind = "dir"
  BY <1>1, KindOf DEF DirRefs, Next_of
<1>2. CASE x.kind = "frame"
  BY <1>2, KindOf DEF FrameRefs, Next_of
<1>3. CASE x.kind # "dir" /\ x.kind # "frame"
  BY <1>3, NoRef DEF Next_of
<1> QED  BY <1>1, <1>2, <1>3

LEMMA ListedRefs ==
    ASSUME NEW dk \in [BlockIds -> BlockRefs]
    PROVE  /\ LinksAreIds(dk)
           /\ \A first \in Refs : Listed(dk, first) \subseteq Refs \ {0}
<1>1. LinksAreIds(dk)
  BY NextRef, NoRef DEF LinksAreIds
<1>2. ASSUME NEW first \in Refs PROVE Listed(dk, first) \subseteq Refs \ {0}
  <2> DEFINE S == Refs \ {0}
  <2>1. first \in BlockIds /\ (first # 0 => first \in S)
    BY NoRef
  <2>2. \A b \in S \cap Listed(dk, first) : Next_of(dk[b]) # 0 => Next_of(dk[b]) \in S
    BY NextRef, NoRef
  <2> HIDE DEF S
  <2>3. Listed(dk, first) \subseteq S
    BY <1>1, <2>1, <2>2, ListedIsLeast
  <2> QED  BY <2>3 DEF S
<1> QED  BY <1>1, <1>2

(* A link is set where there is one. *)
LEMMA LinkedDir ==
    ASSUME NEW x \in BlockRefs, NEW a \in Refs
    PROVE  [x EXCEPT !.next_dir = a] \in BlockRefs
<1>1. CASE x \in DirRefs
  <2>1. [x EXCEPT !.next_dir = a] \in DirRefs
    BY <1>1 DEF DirRefs
  <2> QED  BY <2>1 DEF BlockRefs
<1>2. CASE x \notin DirRefs
  <2>1. "next_dir" \notin DOMAIN x
    BY <1>2 DEF BlockRefs, SuperRefs, MapRefs, InodeRefs, FrameRefs, DataRefs, FreeBlock
  <2>2. [x EXCEPT !.next_dir = a] = x
    BY <1>2, <2>1 DEF BlockRefs, SuperRefs, MapRefs, InodeRefs, FrameRefs, DataRefs, FreeBlock
  <2> QED  BY <2>2
<1> QED  BY <1>1, <1>2

LEMMA LinkedFrame ==
    ASSUME NEW x \in BlockRefs, NEW a \in Refs
    PROVE  [x EXCEPT !.next = a] \in BlockRefs
<1>1. CASE x \in FrameRefs
  <2>1. [x EXCEPT !.next = a] \in FrameRefs
    BY <1>1 DEF FrameRefs
  <2> QED  BY <2>1 DEF BlockRefs
<1>2. CASE x \notin FrameRefs
  <2>1. [x EXCEPT !.next = a] = x
    BY <1>2 DEF BlockRefs, SuperRefs, MapRefs, InodeRefs, DirRefs, DataRefs, FreeBlock
  <2> QED  BY <2>1
<1> QED  BY <1>1, <1>2

(* What a call finds. *)
LEMMA TreeRefs ==
    ASSUME TypeInv, Intact
    PROVE  /\ Dirs \subseteq Refs \ {0}
           /\ \A d \in Dirs :
                 /\ disk[d] \in DirRefs /\ InodesOf(d) \subseteq Refs \ {0}
                 /\ \A n \in InodesOf(d) : disk[n] \in InodeRefs
           /\ disk[0] = SuperBlock(sb) /\ disk[1] = MapBlock(freemap)
<1>1. Dirs \subseteq Refs \ {0}
  BY ListedRefs DEF TypeInv, Dirs
<1>2. ASSUME NEW d \in Dirs
      PROVE  /\ disk[d] \in DirRefs /\ InodesOf(d) \subseteq Refs \ {0}
             /\ \A n \in InodesOf(d) : disk[n] \in InodeRefs
  <2>1. disk[d] \in BlockRefs /\ disk[d].kind = "dir"
    BY <1>1, NoRef DEF TypeInv, Intact
  <2>2. disk[d] \in DirRefs
    BY <2>1, KindOf
  <2>3. InodesOf(d) \subseteq Refs \ {0}
    BY <2>2 DEF DirRefs, InodesOf
  <2>4. ASSUME NEW n \in InodesOf(d) PROVE disk[n] \in InodeRefs
    <3>1. disk[n] \in BlockRefs /\ disk[n].kind = "inode"
      BY <2>3, NoRef DEF TypeInv, Intact
    <3> QED  BY <3>1, KindOf
  <2> QED  BY <2>2, <2>3, <2>4
<1> QED  BY <1>1, <1>2 DEF Intact

LEMMA FoundDir ==
    ASSUME NEW name
    PROVE  /\ DirOf(name) # 0 => DirOf(name) \in Dirs /\ disk[DirOf(name)].dir_name = name
           /\ 0 \notin Dirs /\ DirOf(name) = 0 => \A d \in Dirs : disk[d].dir_name # name
  BY DEF DirOf

LEMMA FoundInode ==
    ASSUME NEW d, NEW name
    PROVE  /\ InodeOf(d, name) # 0 =>
                 InodeOf(d, name) \in InodesOf(d) /\ disk[InodeOf(d, name)].file_name = name
           /\ InodeOf(d, name) = 0 => \A n \in InodesOf(d) : disk[n].file_name # name
<1>1. 0 \notin InodesOf(d)
  BY DEF InodesOf
<1> QED  BY <1>1 DEF InodeOf

LEMMA LowestSlotIsFree ==
    ASSUME NEW d, LowestSlot(d) # -1
    PROVE  LowestSlot(d) \in InodeSlots /\ disk[d].inodes[LowestSlot(d)] = 0
<1> DEFINE free == {i \in InodeSlots : disk[d].inodes[i] = 0}
<1>1. free \in SUBSET Nat /\ free # {}
  BY SizesAssumption DEF InodeSlots, LowestSlot
<1>2. \E i \in free : \A j \in free : i <= j
  <2> HIDE DEF free
  <2> QED  BY <1>1, LeastNatural
<1>3. LowestSlot(d) \in free
  <2> HIDE DEF free
  <2>1. LowestSlot(d) = CHOOSE i \in free : \A j \in free : i <= j
    BY <1>1 DEF LowestSlot, free
  <2> QED  BY <1>2, <2>1
<1> QED  BY <1>3

LEMMA LowestFdIsFree ==
    ASSUME LowestFd # -1
    PROVE  LowestFd \in Fds /\ ~fdtable[LowestFd].valid
<1> DEFINE free == {fd \in Fds : ~fdtable[fd].valid}
<1>1. free \in SUBSET Nat /\ free # {}
  BY SizesAssumption DEF Fds, LowestFd
<1>2. \E i \in free : \A j \in free : i <= j
  <2> HIDE DEF free
  <2> QED  BY <1>1, LeastNatural
<1>3. LowestFd \in free
  <2> HIDE DEF free
  <2>1. LowestFd = CHOOSE i \in free : \A j \in free : i <= j
    BY <1>1 DEF LowestFd, free
  <2> QED  BY <1>2, <2>1
<1> QED  BY <1>3

LEMMA AllocatedRefs ==
    ASSUME {1, 2} \subseteq freemap, NEW k \in Nat \ {0}
    PROVE  /\ Allocated(k) \in Refs
           /\ Allocated(k) # 0 => Allocated(k) \in FreeBlocks
<1>1. CASE k > Cardinality(FreeBlocks)
  BY <1>1, AllocatedBlocks, NoRef
<1>2. CASE ~(k > Cardinality(FreeBlocks))
  <2>1. k \in 1 .. Cardinality(FreeBlocks)
    BY <1>2, AllocatedBlocks
  <2>2. Allocated(k) \in FreeBlocks
    BY <2>1, AllocatedBlocks
  <2> QED  BY <2>2 DEF FreeBlocks, Refs
<1> QED  BY <1>1, <1>2

LEMMA UsedRefs ==
    ASSUME TypeInv, NEW n \in Nat
    PROVE  UsedAfter(n) \in SUBSET Ids /\ {1, 2} \subseteq UsedAfter(n)
<1>1. ASSUME NEW k \in 1 .. n PROVE Allocated(k) \in Refs
  BY AllocatedRefs DEF TypeInv
<1> QED  BY <1>1 DEF TypeInv, UsedAfter, Refs, Ids

LEMMA StoreTyped ==
    ASSUME TypeInv, NEW R, NEW w \in Seq(R),
           \A k \in 1 .. Len(w) : w[k].bid \in BlockIds => w[k].block \in BlockRefs,
           NEW used \in SUBSET Ids, {1, 2} \subseteq used, Store(w, used)
    PROVE  /\ disk' \in [BlockIds -> BlockRefs]
           /\ freemap' \in SUBSET Ids /\ {1, 2} \subseteq freemap'
<1>1. Put(disk, w) \in [BlockIds -> BlockRefs]
  BY PutTyped DEF TypeInv
<1>2. Put(disk, w \o <<At(1, MapBlock(used))>>) =
          [b \in BlockIds |-> IF b = 1 THEN MapBlock(used) ELSE Put(disk, w)[b]]
  BY PutLast
<1>3. MapBlock(used) \in BlockRefs /\ FreeBlock \in BlockRefs
  BY DEF MapBlock, MapRefs, BlockRefs
<1>4. \A b \in BlockIds : Put(disk, w \o <<At(1, MapBlock(used))>>)[b] \in BlockRefs
  BY <1>1, <1>2, <1>3
<1>5. disk' \in [BlockIds -> BlockRefs]
  BY <1>3, <1>4 DEF Store
<1> QED  BY <1>5 DEF Store

LEMMA NewBlocks ==
    /\ \A s \in Refs : SuperBlock(s) \in BlockRefs
    /\ \A name \in DirNames : DirBlock(name) \in DirRefs
    /\ \A name \in FileNames \cup {NoName} : Inode(name) \in InodeRefs
    /\ DirRefs \subseteq BlockRefs /\ InodeRefs \subseteq BlockRefs /\ FrameRefs \subseteq BlockRefs
    /\ DataRefs \subseteq BlockRefs
<1>1. FrameSize * 0 = 0 /\ 0 \in 0 .. MaxCursor
  BY SizesAssumption DEF FrameSize
<1>2. 0 \in {FrameSize * k : k \in 0 .. MaxCursor}
  BY <1>1
<1>3. \A name \in FileNames \cup {NoName} : Inode(name) \in InodeRefs
  BY <1>2, NoRef DEF Inode, InodeRefs
<1>4. \A name \in DirNames : DirBlock(name) \in DirRefs
  BY NoRef DEF DirBlock, DirRefs
<1>5. \A s \in Refs : SuperBlock(s) \in BlockRefs
  BY DEF SuperBlock, SuperRefs, BlockRefs
<1> QED  BY <1>3, <1>4, <1>5 DEF BlockRefs
-----------------------------------------------------------------------------
(* Each call keeps the types. *)
LEMMA MkdirTyped ==
    ASSUME TypeInv, Intact, NEW name \in DirNames, sfs_mkdir(name)
    PROVE  TypeInv'
<1>1. CASE DirOf(name) # 0
  BY <1>1 DEF sfs_mkdir, TypeInv
<1>2. CASE DirOf(name) = 0
  <2> DEFINE new == Allocated(1)
             last == LastOf(disk, sb)
             w == IF sb = 0
                  THEN <<At(new, DirBlock(name)), At(0, SuperBlock(new))>>
                  ELSE <<At(last, [disk[last] EXCEPT !.next_dir = new]), At(new, DirBlock(name))>>
  <2>1. /\ Store(w, UsedAfter(1)) /\ sb' = (IF sb = 0 THEN new ELSE sb)
        /\ fdtable' = fdtable /\ broken' = ~Intact'
    BY <1>2 DEF sfs_mkdir, Follow
  <2>2. new \in Refs
    BY AllocatedRefs DEF TypeInv
  <2>3. w \in Seq({w[1], w[2]}) /\ Len(w) = 2
    <3>1. CASE sb = 0
      BY <3>1
    <3>2. CASE sb # 0
      BY <3>2
    <3> QED  BY <3>1, <3>2
  <2>4. \A k \in 1 .. Len(w) : w[k].bid \in BlockIds => w[k].block \in BlockRefs
    <3>1. DirBlock(name) \in BlockRefs /\ SuperBlock(new) \in BlockRefs
      BY <2>2, NewBlocks
    <3>2. last \in BlockIds => [disk[last] EXCEPT !.next_dir = new] \in BlockRefs
      BY <2>2, LinkedDir DEF TypeInv
    <3> HIDE DEF new, last
    <3>3. CASE sb = 0
      BY <3>1, <3>3 DEF At
    <3>4. CASE sb # 0
      BY <3>1, <3>2, <3>4 DEF At
    <3> QED  BY <3>3, <3>4
  <2>5. UsedAfter(1) \in SUBSET Ids /\ {1, 2} \subseteq UsedAfter(1)
    BY UsedRefs
  <2> HIDE DEF w, new
  <2>6. /\ disk' \in [BlockIds -> BlockRefs]
        /\ freemap' \in SUBSET Ids /\ {1, 2} \subseteq freemap'
    BY <2>1, <2>3, <2>4, <2>5, StoreTyped
  <2> QED  BY <2>1, <2>2, <2>6 DEF TypeInv
<1> QED  BY <1>1, <1>2

LEMMA RmdirTyped ==
    ASSUME TypeInv, Intact, NEW name \in DirNames, sfs_rmdir(name)
    PROVE  TypeInv'
<1> DEFINE d == DirOf(name)
           before == CHOOSE b \in Dirs : disk[b].next_dir = d
<1>1. CASE d = 0 \/ InodesOf(d) # {}
  BY <1>1 DEF sfs_rmdir, TypeInv
<1>2. CASE d # 0 /\ InodesOf(d) = {}
  <2>1. /\ Store(Unlink(d), freemap \ {d}) /\ sb' = (IF d = sb THEN 0 ELSE sb)
        /\ fdtable' = fdtable /\ broken' = ~Intact'
    BY <1>2 DEF sfs_rmdir, Follow, FirstAfter
  <2>2. d \in Dirs /\ d \in Refs \ {0} /\ disk[d] \in DirRefs
    BY <1>2, FoundDir, TreeRefs
  <2> HIDE DEF d
  <2>3. Unlink(d) \in Seq({Unlink(d)[1]}) /\ Len(Unlink(d)) = 1
    <3>1. CASE d = sb
      BY <3>1 DEF Unlink
    <3>2. CASE d # sb
      BY <3>2 DEF Unlink
    <3> QED  BY <3>1, <3>2
  <2>4. \A k \in 1 .. Len(Unlink(d)) :
           Unlink(d)[k].bid \in BlockIds => Unlink(d)[k].block \in BlockRefs
    <3>1. CASE d = sb
      <4>1. Unlink(d)[1].block = SuperBlock(0)
        BY <3>1 DEF Unlink, FirstAfter, At
      <4> QED  BY <2>3, <4>1, NewBlocks, NoRef
    <3>2. CASE d # sb
      <4>1. Unlink(d)[1] = At(before, [disk[before] EXCEPT !.next_dir = disk[d].next_dir])
        BY <3>2 DEF Unlink
      <4>2. disk[d].next_dir \in Refs
        BY <2>2 DEF DirRefs
      <4> HIDE DEF before
      <4>3. before \in BlockIds => [disk[before] EXCEPT !.next_dir = disk[d].next_dir] \in BlockRefs
        BY <4>2, LinkedDir DEF TypeInv
      <4> QED  BY <2>3, <4>1, <4>3 DEF At
    <3> QED  BY <3>1, <3>2
  <2>5. freemap \ {d} \in SUBSET Ids /\ {1, 2} \subseteq freemap \ {d}
    BY <2>2 DEF TypeInv, Refs
  <2>6. /\ disk' \in [BlockIds -> BlockRefs]
        /\ freemap' \in SUBSET Ids /\ {1, 2} \subseteq freemap'
    BY <2>1, <2>3, <2>4, <2>5, StoreTyped
  <2> QED  BY <2>1, <2>6, NoRef DEF TypeInv
<1> QED  BY <1>1, <1>2

LEMMA InformTyped ==
    ASSUME TypeInv, Intact, sfs_print_info \/ sfs_reloadfs \/ sfs_lsdir \/ sfs_ls
    PROVE  TypeInv' /\ disk' = disk /\ sb' = sb /\ freemap' = freemap /\ fdtable' = fdtable
           /\ broken' = broken
<1>1. disk[0].first_dir = sb /\ disk[1].used = freemap
  BY TreeRefs DEF SuperBlock, MapBlock
<1>2. disk' = disk /\ sb' = sb /\ freemap' = freemap /\ fdtable' = fdtable /\ broken' = broken
  BY <1>1 DEF sfs_print_info, sfs_reloadfs, sfs_lsdir, sfs_ls
<1> QED  BY <1>2 DEF TypeInv

LEMMA OpenTyped ==
    ASSUME TypeInv, Intact, NEW dirname \in DirNames, NEW name \in FileNames,
           sfs_open(dirname, name)
    PROVE  TypeInv'
<1> DEFINE fd == LowestFd
           d == DirOf(dirname)
           n == InodeOf(d, name)
           new == Allocated(1)
<1>1. CASE UNCHANGED <<disk, sb, freemap, fdtable, broken>>
  BY <1>1 DEF TypeInv
<1>2. CASE fd # -1 /\ d # 0 /\ n # 0 /\ OpenExisting(fd, d, n)
  <2>1. fd \in Fds /\ d \in Dirs /\ d \in Refs /\ n \in InodesOf(d)
    BY <1>2, LowestFdIsFree, FoundDir, FoundInode, TreeRefs
  <2>2. n \in Refs /\ disk[n] \in InodeRefs
    BY <2>1, TreeRefs
  <2> HIDE DEF fd, d, n
  <2>3. OpenedFd(d, n, disk[n]) \in FdRefs
    BY <2>1, <2>2, SizesAssumption DEF OpenedFd, FdRefs
  <2> QED  BY <1>2, <2>1, <2>3 DEF TypeInv, OpenExisting
<1>3. CASE fd # -1 /\ d # 0 /\ LowestSlot(d) # -1 /\ OpenNew(fd, d, name)
  <2>1. fd \in Fds /\ d \in Dirs /\ d \in Refs /\ disk[d] \in DirRefs
    BY <1>3, LowestFdIsFree, FoundDir, TreeRefs
  <2>2. LowestSlot(d) \in InodeSlots
    BY <1>3, LowestSlotIsFree
  <2>3. new \in Refs
    BY AllocatedRefs DEF TypeInv
  <2> DEFINE w == <<At(d, [disk[d] EXCEPT !.inodes[LowestSlot(d)] = new]), At(new, Inode(name))>>
  <2>4. /\ Store(w, UsedAfter(1)) /\ sb' = sb /\ broken' = ~Intact'
        /\ fdtable' = [fdtable EXCEPT ![fd] = OpenedFd(d, new, Inode(name))]
    BY <1>3 DEF OpenNew, Follow
  <2>5. w \in Seq({w[1], w[2]}) /\ Len(w) = 2
    OBVIOUS
  <2> HIDE DEF fd, d, new
  <2>6. \A k \in 1 .. Len(w) : w[k].bid \in BlockIds => w[k].block \in BlockRefs
    <3>1. [disk[d] EXCEPT !.inodes[LowestSlot(d)] = new] \in DirRefs
      BY <2>1, <2>2, <2>3 DEF DirRefs
    <3> QED  BY <3>1, NewBlocks DEF At
  <2>7. UsedAfter(1) \in SUBSET Ids /\ {1, 2} \subseteq UsedAfter(1)
    BY UsedRefs
  <2> HIDE DEF w
  <2>8. /\ disk' \in [BlockIds -> BlockRefs]
        /\ freemap' \in SUBSET Ids /\ {1, 2} \subseteq freemap'
    BY <2>4, <2>5, <2>6, <2>7, StoreTyped
  <2>9. Inode(name) \in InodeRefs
    BY NewBlocks
  <2>10. OpenedFd(d, new, Inode(name)) \in FdRefs
    BY <2>1, <2>3, <2>9, SizesAssumption DEF OpenedFd, FdRefs
  <2> QED  BY <2>1, <2>4, <2>8, <2>10 DEF TypeInv
<1> QED  BY <1>1, <1>2, <1>3 DEF sfs_open

LEMMA ClosedFdTyped == ClosedFd \in FdRefs
  BY NewBlocks, NoRef, SizesAssumption DEF ClosedFd, FdRefs

LEMMA CloseTyped ==
    ASSUME TypeInv, NEW fd \in Fds, sfs_close(fd) PROVE TypeInv'
  BY ClosedFdTyped DEF TypeInv, sfs_close

LEMMA RemoveTyped ==
    ASSUME TypeInv, Intact, NEW fd \in Fds, sfs_remove(fd)
    PROVE  TypeInv'
<1> DEFINE d == fdtable[fd].dir_bid
           n == fdtable[fd].inode_bid
           cleared == [i \in InodeSlots |-> IF disk[d].inodes[i] = n THEN 0 ELSE disk[d].inodes[i]]
           w == <<At(d, [disk[d] EXCEPT !.inodes = cleared])>>
<1>1. CASE Lose("remove", fd)
  BY <1>1 DEF Lose, TypeInv
<1>2. CASE /\ disk[d].kind = "dir" /\ disk[n].kind = "inode"
           /\ Store(w, freemap \ FreedWith(n)) /\ sb' = sb /\ broken' = ~Intact'
           /\ fdtable' = [fdtable EXCEPT ![fd] = ClosedFd]
  <2>1. d \in Refs /\ n \in Refs /\ d \in BlockIds /\ n \in BlockIds
    BY NoRef DEF TypeInv, FdRefs
  <2> HIDE DEF d, n
  <2>2. disk[d] \in DirRefs /\ disk[n] \in InodeRefs
    BY <1>2, <2>1, KindOf DEF TypeInv
  <2>3. [disk[d] EXCEPT !.inodes = cleared] \in DirRefs
    <3>1. cleared \in [InodeSlots -> Refs]
      BY <2>2, NoRef DEF DirRefs
    <3> HIDE DEF cleared
    <3> QED  BY <2>2, <3>1 DEF DirRefs
  <2> HIDE DEF cleared
  <2>4. w \in Seq({w[1]}) /\ Len(w) = 1
    OBVIOUS
  <2>5. \A k \in 1 .. Len(w) : w[k].bid \in BlockIds => w[k].block \in BlockRefs
    BY <2>3, NewBlocks DEF At
  <2>6. FreedWith(n) \subseteq Refs
    <3>1. FramesOf(n) \subseteq Refs
      BY <2>2, ListedRefs DEF FramesOf, TypeInv, InodeRefs
    <3> QED  BY <2>1, <3>1 DEF FreedWith
  <2>7. freemap \ FreedWith(n) \in SUBSET Ids /\ {1, 2} \subseteq freemap \ FreedWith(n)
    BY <2>6 DEF TypeInv, Refs
  <2> HIDE DEF w
  <2>8. /\ disk' \in [BlockIds -> BlockRefs]
        /\ freemap' \in SUBSET Ids /\ {1, 2} \subseteq freemap'
    BY <1>2, <2>4, <2>5, <2>7, StoreTyped
  <2> QED  BY <1>2, <2>8, ClosedFdTyped DEF TypeInv
<1> QED  BY <1>1, <1>2 DEF sfs_remove, Follow

LEMMA SeekTyped ==
    ASSUME TypeInv, NEW fd \in Fds, NEW m \in Moves, NEW loc, sfs_seek(fd, m, loc)
    PROVE  TypeInv'
<1>1. [fdtable[fd] EXCEPT !.cur = SeekTo(fd, m, loc)] \in FdRefs
  BY DEF TypeInv, sfs_seek, FdRefs
<1>2. fdtable' = [fdtable EXCEPT ![fd] = [fdtable[fd] EXCEPT !.cur = SeekTo(fd, m, loc)]]
  BY DEF sfs_seek, TypeInv
<1> QED  BY <1>1, <1>2 DEF TypeInv, sfs_seek

LEMMA EofTyped ==
    ASSUME TypeInv, NEW fd \in Fds, sfs_eof(fd) PROVE TypeInv'
  BY DEF TypeInv, sfs_eof

(* Whole frames. *)
LEMMA FrameCounts ==
    /\ FrameSize \in Nat \ {0}
    /\ \A k \in Nat : FrameCountOf(FrameSize * k) = k /\ FrameSize * k \in Nat
    /\ \A a \in Nat : /\ FrameCountOf(a) \in Nat /\ FrameCountOf(a) <= a
                      /\ a <= FrameSize * FrameCountOf(a)
                      /\ FrameSize * FrameCountOf(a) < a + FrameSize
<1> DEFINE F == FrameSize
<1>1. F \in Nat \ {0}
  BY AtLeast, SizesAssumption DEF FrameSize
<1> HIDE DEF F
<1>2. ASSUME NEW k \in Nat PROVE (F * k + F - 1) \div F = k /\ F * k \in Nat
  <2>1. F - 1 \in 0 .. F - 1 /\ F * k \in Nat
    BY <1>1
  <2>2. (F * k + (F - 1)) \div F = k
    BY <1>1, <2>1, QuotientAndRemainder
  <2>3. F * k + (F - 1) = F * k + F - 1
    BY <1>1, <2>1
  <2> QED  BY <2>1, <2>2, <2>3
<1>3. ASSUME NEW a \in Nat
      PROVE  LET q == (a + F - 1) \div F IN q \in Nat /\ q <= a /\ a <= F * q /\ F * q < a + F
  <2> DEFINE t == a + F - 1
             q == t \div F
             r == t % F
  <2>1. t \in Nat
    BY <1>1
  <2>2. r \in 0 .. F - 1 /\ q \in Nat /\ t = F * q + r
    <3> HIDE DEF t
    <3> QED  BY <1>1, <2>1, Division
  <2> HIDE DEF q, r
  <2>3. F * q \in Nat
    BY <1>1, <2>2
  <2>4. a <= F * q /\ F * q < a + F
    BY <1>1, <2>2, <2>3
  <2>5. q <= a
    <3> SUFFICES ASSUME q > a PROVE FALSE
      BY <2>2
    <3> DEFINE e == q - a
    <3>1. e \in Nat \ {0}
      BY <2>2
    <3>2. q = a + e
      BY <2>2
    <3> HIDE DEF e
    <3>3. F * q = F * a + F * e
      BY <1>1, <3>1, <3>2
    <3>4. F * e >= F /\ F * e \in Nat
      BY <1>1, <3>1, AtLeast
    <3>5. F * a >= a /\ F * a \in Nat
      <4>1. CASE a = 0
        BY <1>1, <4>1
      <4>2. CASE a # 0
        <5>1. a * F >= a
          BY <1>1, <4>2, AtLeast
        <5> QED  BY <1>1, <5>1
      <4> QED  BY <4>1, <4>2
    <3> QED  BY <1>1, <2>4, <3>3, <3>4, <3>5
  <2> QED  BY <2>2, <2>4, <2>5 DEF q
<1> QED  BY <1>1, <1>2, <1>3 DEF F, FrameCountOf

LEMMA WholeFrames ==
    ASSUME NEW inode \in InodeRefs, NEW e \in Nat, e <= MaxCursor
    PROVE  LET n == NewFrames(inode, e)
           IN  /\ n \in Nat /\ inode.size \in Nat
               /\ n > 0 => e > inode.size
               /\ e <= inode.size + FrameSize * n
               /\ inode.size + FrameSize * n \in {FrameSize * k : k \in 0 .. MaxCursor}
<1> DEFINE F == FrameSize
           q == FrameCountOf(e)
<1>1. MaxCursor \in Nat
  BY SizesAssumption
<1>2. PICK k \in 0 .. MaxCursor : inode.size = F * k
  BY DEF InodeRefs
<1>3. F \in Nat \ {0} /\ F * k \in Nat /\ FrameCountOf(F * k) = k
  BY <1>1, <1>2, FrameCounts
<1>4. q \in Nat /\ q <= e /\ e <= F * q /\ F * q < e + F
  BY FrameCounts
<1> HIDE DEF F, q
<1>5. CASE e > inode.size
  <2>1. NewFrames(inode, e) = q - k
    BY <1>2, <1>3, <1>5 DEF NewFrames, q
  <2>2. q >= k
    <3> SUFFICES ASSUME q < k PROVE FALSE
      BY <1>1, <1>4
    <3> DEFINE d == k - q
    <3>1. d \in Nat /\ k = q + d
      BY <1>1, <1>4
    <3> HIDE DEF d
    <3>2. F * k = F * q + F * d /\ F * d \in Nat /\ F * q \in Nat
      BY <1>1, <1>3, <1>4, <3>1
    <3> QED  BY <1>2, <1>4, <1>5, <3>2
  <2> DEFINE n == q - k
  <2>3. n \in Nat /\ q = k + n /\ q \in 0 .. MaxCursor
    BY <1>1, <1>4, <2>2
  <2> HIDE DEF n
  <2>4. F * q = F * k + F * n
    BY <1>1, <1>3, <2>3
  <2>5. e <= F * k + F * n /\ F * k + F * n \in {F * j : j \in 0 .. MaxCursor}
    BY <1>4, <2>3, <2>4
  <2> QED  BY <1>2, <1>3, <1>5, <2>1, <2>3, <2>5 DEF n, F
<1>6. CASE ~(e > inode.size)
  <2>1. NewFrames(inode, e) = 0
    BY <1>6 DEF NewFrames
  <2>2. F * 0 = 0
    BY <1>3
  <2>3. inode.size + F * 0 = inode.size
    BY <1>2, <1>3, <2>2
  <2> QED  BY <1>2, <1>3, <1>6, <2>1, <2>3 DEF F
<1> QED  BY <1>5, <1>6

(* What a growing file writes. *)
TypedWrites(R) == \A r \in R : r.bid \in BlockIds => r.block \in BlockRefs

LEMMA NewFramesTyped ==
    ASSUME {1, 2} \subseteq freemap, NEW n \in Nat
    PROVE  /\ FrameWrites(n) \in Seq([bid : Refs, block : FrameRefs]) /\ Len(FrameWrites(n)) = n
           /\ \A k \in 1 .. n : FrameWrites(n)[k] =
                 At(Allocated(k), Frame(IF k < n THEN Allocated(k + 1) ELSE 0, ContentOfNew(n, k)))
<1>1. ASSUME NEW k \in 1 .. n
      PROVE  /\ Allocated(k) \in Refs
             /\ Frame(IF k < n THEN Allocated(k + 1) ELSE 0, ContentOfNew(n, k)) \in FrameRefs
  <2>1. Allocated(k) \in Refs /\ Allocated(k + 1) \in Refs
    BY AllocatedRefs
  <2>2. ASSUME NEW i \in FramePlaces
        PROVE  Allocated(n + (k - 1) * FrameCount + i + 1) \in Refs
    <3>1. (k - 1) * FrameCount \in Nat /\ i \in Nat
      BY SizesAssumption DEF FramePlaces
    <3>2. n + (k - 1) * FrameCount + i + 1 \in Nat \ {0}
      BY <3>1
    <3> QED  BY <3>2, AllocatedRefs
  <2>3. ContentOfNew(n, k) \in [FramePlaces -> Refs]
    BY <2>2 DEF ContentOfNew
  <2>4. (IF k < n THEN Allocated(k + 1) ELSE 0) \in Refs
    BY <2>1, NoRef
  <2> QED  BY <2>1, <2>3, <2>4 DEF Frame, FrameRefs
<1> DEFINE Write(k) ==
        At(Allocated(k), Frame(IF k < n THEN Allocated(k + 1) ELSE 0, ContentOfNew(n, k)))
<1>2. \A k \in 1 .. n : Write(k) \in [bid : Refs, block : FrameRefs]
  BY <1>1 DEF At
<1>3. FrameWrites(n) = [k \in 1 .. n |-> Write(k)]
  BY DEF FrameWrites
<1> HIDE DEF Write
<1>4. FrameWrites(n) \in Seq([bid : Refs, block : FrameRefs]) /\ Len(FrameWrites(n)) = n
  BY <1>2, <1>3
<1>5. \A k \in 1 .. n : FrameWrites(n)[k] = Write(k)
  BY <1>3
<1> QED  BY <1>4, <1>5 DEF Write

LEMMA ResizedTyped ==
    ASSUME TypeInv, NEW old \in InodeRefs, NEW n \in Nat \ {0},
           old.size + FrameSize * n \in {FrameSize * k : k \in 0 .. MaxCursor}
    PROVE  /\ ResizedInode(old, n) \in InodeRefs
           /\ ResizedInode(old, n) = [kind |-> "inode", size |-> old.size + FrameSize * n,
                  first_frame |-> IF old.first_frame = 0 THEN Allocated(1) ELSE old.first_frame,
                  file_name |-> old.file_name]
<1>1. Allocated(1) \in Refs
  BY AllocatedRefs DEF TypeInv
<1>2. ResizedInode(old, n) = [kind |-> "inode", size |-> old.size + FrameSize * n,
          first_frame |-> IF old.first_frame = 0 THEN Allocated(1) ELSE old.first_frame,
          file_name |-> old.file_name]
  <2> DEFINE size == old.size + FrameSize * n
             first == IF old.first_frame = 0 THEN Allocated(1) ELSE old.first_frame
  <2>1. ResizedInode(old, n) = [old EXCEPT !.size = size, !.first_frame = first]
    BY DEF ResizedInode, InodeRefs
  <2> HIDE DEF size, first
  <2> DEFINE S == {FrameSize * k : k \in 0 .. MaxCursor}
             new == [old EXCEPT !.size = size, !.first_frame = first]
  <2>2. size \in S /\ first \in Refs
    BY <1>1 DEF size, first, InodeRefs
  <2>3. old \in [kind : {"inode"}, size : S, first_frame : Refs, file_name : FileNames \cup {NoName}]
    BY DEF InodeRefs
  <2> HIDE DEF S
  <2>4. /\ new \in [kind : {"inode"}, size : S, first_frame : Refs, file_name : FileNames \cup {NoName}]
        /\ new.size = size /\ new.first_frame = first /\ new.file_name = old.file_name
    BY <2>2, <2>3
  <2> HIDE DEF new
  <2>5. new = [kind |-> "inode", size |-> new.size, first_frame |-> new.first_frame,
               file_name |-> new.file_name]
    BY <2>4
  <2> QED  BY <2>1, <2>4, <2>5 DEF size, first, new
<1> QED  BY <1>1, <1>2 DEF InodeRefs

LEMMA ResizeWritesTyped ==
    ASSUME TypeInv, NEW old \in InodeRefs, NEW n \in Nat \ {0}, NEW bid \in Refs,
           old.size + FrameSize * n \in {FrameSize * k : k \in 0 .. MaxCursor}
    PROVE  \E R : TypedWrites(R) /\ ResizeWrites(old, bid, n) \in Seq(R)
<1> DEFINE last == LastOf(disk, old.first_frame)
           x == At(last, [disk[last] EXCEPT !.next = Allocated(1)])
           T == [bid : BlockIds, block : BlockRefs]
           R == {x} \cup T
<1>1. Allocated(1) \in Refs
  BY AllocatedRefs DEF TypeInv
<1>2. last \in BlockIds => x.block \in BlockRefs
  BY <1>1, LinkedFrame DEF TypeInv, At
<1>3. TypedWrites(R)
  BY <1>2 DEF TypedWrites, At
<1>4. FrameWrites(n) \in Seq(R)
  <2>1. FrameWrites(n) \in Seq([bid : Refs, block : FrameRefs])
    BY NewFramesTyped DEF TypeInv
  <2>2. [bid : Refs, block : FrameRefs] \subseteq R
    BY NoRef, NewBlocks
  <2> HIDE DEF R
  <2> QED  BY <2>1, <2>2, SeqMonotonic
<1>5. At(bid, ResizedInode(old, n)) \in R
  BY ResizedTyped, NewBlocks, NoRef DEF At
<1> DEFINE v == IF old.first_frame = 0 THEN << >> ELSE <<x>>
<1>6. v \in Seq(R)
  <2>1. x \in R
    OBVIOUS
  <2> HIDE DEF R, x
  <2> QED  BY <2>1
<1>7. ResizeWrites(old, bid, n) = v \o FrameWrites(n) \o <<At(bid, ResizedInode(old, n))>>
  BY DEF ResizeWrites
<1> HIDE DEF v, R
<1>8. ResizeWrites(old, bid, n) \in Seq(R)
  BY <1>4, <1>5, <1>6, <1>7
<1> QED  BY <1>3, <1>8

LEMMA ReadTyped ==
    ASSUME TypeInv, NEW fd \in Fds, NEW length \in Lengths, sfs_read(fd, length)
    PROVE  TypeInv' /\ disk' = disk /\ sb' = sb /\ freemap' = freemap
<1> DEFINE cur == fdtable[fd].cur
           inode == fdtable[fd].inode
           n == ReadLength(inode.size, cur, length)
<1>1. /\ fdtable[fd] \in FdRefs /\ cur \in Nat /\ inode \in InodeRefs /\ length \in Nat
      /\ MaxCursor \in Nat
  BY CallsAssumption, SizesAssumption DEF TypeInv, FdRefs
<1>2. inode.size \in Nat
  <2>1. PICK k \in 0 .. MaxCursor : inode.size = FrameSize * k
    BY <1>1 DEF InodeRefs
  <2> QED  BY <1>1, <2>1, FrameCounts
<1>3. n \in Nat
  <2> HIDE DEF cur, inode
  <2> QED  BY <1>1, <1>2 DEF ReadLength
<1>4. cur + n <= MaxCursor /\ fdtable' = [fdtable EXCEPT ![fd].cur = cur + n]
      /\ broken' \in {FALSE, cur <= inode.size /\ Overruns(inode, cur, n)}
      /\ UNCHANGED <<disk, sb, freemap>>
  BY DEF sfs_read
<1> HIDE DEF n
<1>5. [fdtable[fd] EXCEPT !.cur = cur + n] \in FdRefs
  <2>1. cur + n \in 0 .. MaxCursor
    BY <1>1, <1>3, <1>4
  <2> HIDE DEF cur
  <2> QED  BY <1>1, <2>1 DEF FdRefs
<1>6. broken' \in BOOLEAN
  BY <1>4
<1>7. fdtable' = [fdtable EXCEPT ![fd] = [fdtable[fd] EXCEPT !.cur = cur + n]]
  BY <1>4 DEF TypeInv
<1>8. fdtable' \in [Fds -> FdRefs]
  <2> HIDE DEF cur
  <2> QED  BY <1>5, <1>7 DEF TypeInv
<1> QED  BY <1>4, <1>6, <1>8 DEF TypeInv

LEMMA WithBytesTyped ==
    ASSUME NEW dk \in [BlockIds -> BlockRefs], NEW inode, NEW cur \in Nat, NEW buf \in Seq(Bytes)
    PROVE  WithBytes(dk, inode, cur, buf) \in [BlockIds -> BlockRefs]
<1> DEFINE m == Len(buf)
           Here(b) == {p \in cur .. cur + m - 1 : Target(dk, inode, cur, m, p) = b}
           Spot(b, o) == {p \in Here(b) : p % BlockSize = o}
           Byte(b, o) == IF Spot(b, o) = {} THEN ByteOf(dk[b], o)
                         ELSE buf[(CHOOSE p \in Spot(b, o) : \A q \in Spot(b, o) : q <= p) - cur + 1]
<1>1. m \in Nat
  OBVIOUS
<1>2. ASSUME NEW b \in BlockIds, NEW o \in 0 .. BlockSize - 1 PROVE Byte(b, o) \in Bytes
  <2>1. CASE Spot(b, o) = {}
    <3>1. ByteOf(dk[b], o) \in Bytes
      <4>1. CASE dk[b].kind = "data"
        BY <4>1, KindOf DEF ByteOf, DataRefs
      <4>2. CASE dk[b].kind # "data"
        BY <4>2, CallsAssumption DEF ByteOf
      <4> QED  BY <4>1, <4>2
    <3> QED  BY <2>1, <3>1
  <2>2. CASE Spot(b, o) # {}
    <3> DEFINE S == Spot(b, o)
               p == CHOOSE x \in S : \A q \in S : q <= x
    <3>1. S \in SUBSET (cur .. cur + m - 1) /\ S # {}
      BY <2>2
    <3> HIDE DEF S
    <3>2. S \in SUBSET Nat /\ cur + m \in Nat /\ \A q \in S : q <= cur + m
      BY <1>1, <3>1
    <3>3. \E x \in S : \A q \in S : q <= x
      BY <3>1, <3>2, GreatestNatural
    <3>4. p \in S
      BY <3>3
    <3> HIDE DEF p
    <3>5. p - cur + 1 \in 1 .. m
      BY <1>1, <3>1, <3>4
    <3>6. buf[p - cur + 1] \in Bytes
      BY <3>5
    <3>7. Byte(b, o) = buf[p - cur + 1]
      BY <2>2 DEF p, S
    <3> QED  BY <3>6, <3>7
  <2> QED  BY <2>1, <2>2
<1>3. WithBytes(dk, inode, cur, buf) =
          [b \in BlockIds |-> IF Here(b) = {} THEN dk[b]
                              ELSE DataBlock([o \in 0 .. BlockSize - 1 |-> Byte(b, o)])]
  BY DEF WithBytes
<1> HIDE DEF Byte, Here
<1>4. ASSUME NEW b \in BlockIds
      PROVE  DataBlock([o \in 0 .. BlockSize - 1 |-> Byte(b, o)]) \in BlockRefs
  <2>1. [o \in 0 .. BlockSize - 1 |-> Byte(b, o)] \in [0 .. BlockSize - 1 -> Bytes]
    BY <1>2
  <2> QED  BY <2>1 DEF DataBlock, DataRefs, BlockRefs
<1> QED  BY <1>3, <1>4

LEMMA PutTypedWrites ==
    ASSUME TypeInv, NEW R, TypedWrites(R), NEW w \in Seq(R), NEW used \in SUBSET Ids
    PROVE  Put(disk, w \o <<At(1, MapBlock(used))>>) \in [BlockIds -> BlockRefs]
<1>1. \A k \in 1 .. Len(w) : w[k].bid \in BlockIds => w[k].block \in BlockRefs
  BY DEF TypedWrites
<1>2. Put(disk, w) \in [BlockIds -> BlockRefs]
  BY <1>1, PutTyped DEF TypeInv
<1>3. Put(disk, w \o <<At(1, MapBlock(used))>>) =
          [b \in BlockIds |-> IF b = 1 THEN MapBlock(used) ELSE Put(disk, w)[b]]
  BY PutLast
<1>4. MapBlock(used) \in BlockRefs
  BY DEF MapBlock, MapRefs, BlockRefs
<1> QED  BY <1>2, <1>3, <1>4

LEMMA WriteTyped ==
    ASSUME TypeInv, NEW fd \in Fds, NEW buf \in Buffers, sfs_write(fd, buf)
    PROVE  TypeInv'
<1> DEFINE cur == fdtable[fd].cur
           old == fdtable[fd].inode
           bid == fdtable[fd].inode_bid
           e == cur + Len(buf)
           n == NewFrames(old, e)
           inode == IF n = 0 THEN old ELSE ResizedInode(old, n)
           used == UsedAfter(BlocksFor(n))
           w == IF n = 0 THEN << >> ELSE ResizeWrites(old, bid, n)
           dk == Put(disk, w \o <<At(1, MapBlock(used))>>)
           wild == \E p \in cur .. cur + Len(buf) - 1 : Target(dk, inode, cur, Len(buf), p) = -1
<1>1. CASE Lose("write", fd)
  BY <1>1 DEF Lose, TypeInv
<1>2. CASE ~Lose("write", fd)
  <2>1. /\ e <= MaxCursor /\ sb' = sb
        /\ disk' = WithBytes(dk, inode, cur, buf) /\ freemap' = used
        /\ fdtable' = [fdtable EXCEPT ![fd].cur = e, ![fd].inode = inode]
        /\ broken' \in {wild \/ ~Intact', wild \/ ~Intact' \/ Overruns(inode, cur, Len(buf))}
    BY <1>2 DEF sfs_write
  <2>2. /\ fdtable[fd] \in FdRefs /\ cur \in Nat /\ old \in InodeRefs /\ bid \in Refs
        /\ buf \in Seq(Bytes) /\ e \in 0 .. MaxCursor /\ e \in Nat
    <3>1. fdtable[fd] \in FdRefs /\ cur \in 0 .. MaxCursor /\ old \in InodeRefs /\ bid \in Refs
      BY DEF TypeInv, FdRefs
    <3>2. buf \in Seq(Bytes) /\ Len(buf) \in Nat
      BY CallsAssumption
    <3> HIDE DEF cur, old, bid
    <3> QED  BY <2>1, <3>1, <3>2, SizesAssumption
  <2> HIDE DEF cur, old, bid, e
  <2>3. /\ n \in Nat
        /\ old.size + FrameSize * n \in {FrameSize * k : k \in 0 .. MaxCursor}
    BY <2>1, <2>2, WholeFrames
  <2> HIDE DEF n
  <2>4. inode \in InodeRefs
    BY <2>2, <2>3, ResizedTyped
  <2>5. used \in SUBSET Ids /\ {1, 2} \subseteq used
    <3>1. BlocksFor(n) \in Nat
      BY <2>3, SizesAssumption DEF BlocksFor
    <3> QED  BY <3>1, UsedRefs
  <2>6. \E R : TypedWrites(R) /\ w \in Seq(R)
    <3>1. CASE n = 0
      <4>1. w \in Seq({}) /\ TypedWrites({})
        BY <3>1 DEF TypedWrites
      <4> QED  BY <4>1
    <3>2. CASE n # 0
      <4>1. n \in Nat \ {0} /\ w = ResizeWrites(old, bid, n)
        BY <2>3, <3>2
      <4> QED  BY <2>2, <2>3, <4>1, ResizeWritesTyped
    <3> QED  BY <3>1, <3>2
  <2> HIDE DEF w, used
  <2>7. dk \in [BlockIds -> BlockRefs]
    BY <2>5, <2>6, PutTypedWrites
  <2> HIDE DEF dk, inode
  <2>8. disk' \in [BlockIds -> BlockRefs]
    BY <2>1, <2>2, <2>7, WithBytesTyped
  <2>9. broken' \in BOOLEAN
    <3> HIDE DEF wild
    <3> QED  BY <2>1
  <2>10. fdtable' \in [Fds -> FdRefs]
    <3>1. [[fdtable[fd] EXCEPT !.cur = e] EXCEPT !.inode = inode] \in FdRefs
      BY <2>2, <2>4 DEF FdRefs
    <3>2. fdtable' = [[fdtable EXCEPT ![fd] = [fdtable[fd] EXCEPT !.cur = e]]
                         EXCEPT ![fd] = [[fdtable[fd] EXCEPT !.cur = e] EXCEPT !.inode = inode]]
      BY <2>1 DEF TypeInv
    <3>3. [fdtable[fd] EXCEPT !.cur = e] \in FdRefs
      BY <2>2 DEF FdRefs
    <3> QED  BY <3>1, <3>2, <3>3 DEF TypeInv
  <2> QED  BY <2>1, <2>5, <2>8, <2>9, <2>10 DEF TypeInv
<1> QED  BY <1>1, <1>2
-----------------------------------------------------------------------------
(* The new storage. *)
LEMMA ListedFromNone ==
    ASSUME NEW dk \in [BlockIds -> BlockRefs] PROVE Listed(dk, 0) = {}
  BY ListedIds, ListedRefs, NoRef

LEMMA InitHolds == ASSUME Init PROVE IInv
<1>1. disk \in [BlockIds -> BlockRefs]
  <2>1. SuperBlock(0) \in BlockRefs
    BY NewBlocks, NoRef
  <2>2. MapBlock({1, 2}) \in BlockRefs
    BY SizesAssumption DEF MapBlock, MapRefs, BlockRefs, Ids, BlockIds
  <2>3. NothingWritten \in BlockRefs
    <3>1. [o \in 0 .. BlockSize - 1 |-> Zero] \in [0 .. BlockSize - 1 -> Bytes]
      BY CallsAssumption
    <3> QED  BY <3>1 DEF NothingWritten, DataBlock, DataRefs, BlockRefs
  <2> QED  BY <2>1, <2>2, <2>3 DEF Init
<1>2. TypeInv
  <2>1. {1, 2} \in SUBSET Ids
    BY SizesAssumption DEF Ids, BlockIds
  <2>2. sb \in Refs /\ freemap \in SUBSET Ids /\ {1, 2} \subseteq freemap /\ broken \in BOOLEAN
    BY <2>1, NoRef DEF Init
  <2>3. fdtable \in [Fds -> FdRefs]
    BY ClosedFdTyped DEF Init
  <2> QED  BY <1>1, <2>2, <2>3 DEF TypeInv
<1>3. Intact
  <2>1. Dirs = {}
    BY <1>1, ListedFromNone DEF Dirs, Init
  <2>2. Inodes = {} /\ Frames = {}
    BY <2>1 DEF Inodes, Frames
  <2>3. disk[0] = SuperBlock(0) /\ disk[1] = MapBlock({1, 2})
    BY NoRef DEF Init
  <2>4. Links = {}
    BY <2>1, <2>2, <2>3 DEF Links, LinksOf, SuperBlock
  <2>5. Owned = {}
    BY <2>4 DEF Owned
  <2> QED  BY <2>1, <2>3, <2>4, <2>5, FS_EmptySet DEF Intact, Init
<1> QED  BY <1>2, <1>3 DEF IInv

(* A call that changes no block changes nothing the tree is made of. *)
LEMMA SameTree ==
    ASSUME disk' = disk, sb' = sb, freemap' = freemap
    PROVE  /\ (Intact' <=> Intact) /\ Dirs' = Dirs /\ Leaked' = Leaked /\ Owned' = Owned
           /\ \A d : InodesOf(d)' = InodesOf(d)
  BY DEF Intact, Dirs, InodesOf, FramesOf, Links, LinksOf, Inodes, Frames, Owned, Leaked

LEMMA StepHolds == ASSUME IInv, [Next]_vars PROVE IInv'
<1> USE DEF IInv
<1>1. CASE UNCHANGED vars
  <2>1. Intact' <=> Intact
    BY <1>1, SameTree DEF vars
  <2> QED  BY <1>1, <2>1 DEF TypeInv, vars
<1>2. CASE Next
  <2>1. TypeInv /\ Intact /\ ~broken
    BY <1>2 DEF Next
  <2>2. ASSUME sfs_print_info \/ sfs_reloadfs \/ sfs_lsdir \/ sfs_ls PROVE IInv'
    <3>1. TypeInv' /\ UNCHANGED <<disk, sb, freemap>>
      BY <2>1, <2>2, InformTyped
    <3> QED  BY <2>1, <3>1, SameTree
  <2>3. ASSUME NEW d \in DirNames, sfs_mkdir(d) \/ sfs_rmdir(d) PROVE IInv'
    <3>1. TypeInv'
      BY <2>1, <2>3, MkdirTyped, RmdirTyped
    <3>2. UNCHANGED <<disk, sb, freemap>> \/ broken' = ~Intact'
      BY <2>3 DEF sfs_mkdir, sfs_rmdir, Follow
    <3> QED  BY <2>1, <3>1, <3>2, SameTree
  <2>4. ASSUME NEW d \in DirNames, NEW f \in FileNames, sfs_open(d, f) PROVE IInv'
    <3>1. TypeInv'
      BY <2>1, <2>4, OpenTyped
    <3>2. UNCHANGED <<disk, sb, freemap>> \/ broken' = ~Intact'
      BY <2>4 DEF sfs_open, OpenExisting, OpenNew, Follow
    <3> QED  BY <2>1, <3>1, <3>2, SameTree
  <2>5. ASSUME NEW fd \in Held, sfs_close(fd) \/ sfs_remove(fd) \/ sfs_eof(fd) PROVE IInv'
    <3>1. fd \in Fds
      BY DEF Held
    <3>2. TypeInv'
      BY <2>1, <2>5, <3>1, CloseTyped, RemoveTyped, EofTyped
    <3>3. UNCHANGED <<disk, sb, freemap>> \/ broken' = ~Intact' \/ broken' = TRUE
      BY <2>5 DEF sfs_close, sfs_remove, sfs_eof, Follow, Lose
    <3> QED  BY <2>1, <3>2, <3>3, SameTree
  <2>6. ASSUME NEW fd \in Held, NEW buf \in Buffers, sfs_write(fd, buf) PROVE IInv'
    <3>1. TypeInv'
      BY <2>1, <2>6, WriteTyped DEF Held
    <3>2. ~broken' => Intact'
      BY <2>6 DEF sfs_write, Lose
    <3> QED  BY <3>1, <3>2
  <2>7. ASSUME NEW fd \in Held, NEW n \in Lengths, sfs_read(fd, n) PROVE IInv'
    <3>1. TypeInv' /\ UNCHANGED <<disk, sb, freemap>>
      BY <2>1, <2>7, ReadTyped DEF Held
    <3> QED  BY <2>1, <3>1, SameTree
  <2>8. ASSUME NEW fd \in Held, NEW m \in Moves, NEW loc \in {"set", "cur", "end"}, sfs_seek(fd, m, loc)
        PROVE  IInv'
    <3>1. TypeInv'
      BY <2>1, <2>8, SeekTyped DEF Held
    <3>2. UNCHANGED <<disk, sb, freemap>>
      BY <2>8 DEF sfs_seek
    <3> QED  BY <2>1, <3>1, <3>2, SameTree
  <2> QED  BY <1>2, <2>2, <2>3, <2>4, <2>5, <2>6, <2>7, <2>8 DEF Next
<1> QED  BY <1>1, <1>2

(* What the calls rely on holds until something breaks, and no call stores *)
(* an id outside the storage.                                              *)
THEOREM SfsInvariant == Spec => []IInv
<1>1. Init => IInv
  BY InitHolds
<1>2. IInv /\ [Next]_vars => IInv'
  BY StepHolds
<1> QED  BY <1>1, <1>2, PTL DEF Spec

(* TypeOK (fs.c): no sequence of calls stores an id outside the storage,   *)
(* marks block 0 used, or leaves a file with a part of a frame.            *)
THEOREM SfsTypes == Spec => []TypeOK
<1>1. IInv => TypeOK
  BY TypeInvIsEnough DEF IInv
<1> QED  BY <1>1, SfsInvariant, PTL

-----------------------------------------------------------------------------
(* The tree in the blocks dk below the first directory s, with the blocks  *)
(* used marked: what Intact says of the storage, for any storage.          *)
InodesIn(dk, d) == {dk[d].inodes[i] : i \in InodeSlots} \ {0}
FramesIn(dk, n) == Listed(dk, dk[n].first_frame)
ContentsIn(dk, f) == {dk[f].content[i] : i \in FramePlaces}
InodesUnder(dk, s) == UNION {InodesIn(dk, d) : d \in Listed(dk, s)}
FramesUnder(dk, s) == UNION {FramesIn(dk, n) : n \in InodesUnder(dk, s)}
OwnedUnder(dk, s) ==
    Listed(dk, s) \cup InodesUnder(dk, s) \cup FramesUnder(dk, s)
    \cup UNION {ContentsIn(dk, f) : f \in FramesUnder(dk, s)}

IsFile(dk, n) ==
    /\ dk[n].kind = "inode"
    /\ dk[n].size = FrameSize * Cardinality(FramesIn(dk, n))
    /\ \A f \in FramesIn(dk, n) :
          dk[f].kind = "frame" /\ \A i \in FramePlaces : dk[f].content[i] # 0
Shape(dk, s) ==
    \A d \in Listed(dk, s) : dk[d].kind = "dir" /\ \A n \in InodesIn(dk, d) : IsFile(dk, n)

(* Place i of block b links to the block x. *)
Link(dk, s, b, i, x) ==
    /\ x # 0
    /\ \/ b = 0 /\ i = -1 /\ x = s
       \/ b \in Listed(dk, s) /\ i = -1 /\ x = dk[b].next_dir
       \/ b \in Listed(dk, s) /\ i \in InodeSlots /\ x = dk[b].inodes[i]
       \/ b \in InodesUnder(dk, s) /\ i = -1 /\ x = dk[b].first_frame
       \/ b \in FramesUnder(dk, s) /\ i = -1 /\ x = dk[b].next
       \/ b \in FramesUnder(dk, s) /\ i \in FramePlaces /\ x = dk[b].content[i]
HeldOnce(dk, s) ==
    \A b, i, c, j, x : Link(dk, s, b, i, x) /\ Link(dk, s, c, j, x) => b = c /\ i = j
Tree(dk, s, used) ==
    /\ dk[0] = SuperBlock(s) /\ dk[1] = MapBlock(used)
    /\ Shape(dk, s) /\ HeldOnce(dk, s)
    /\ OwnedUnder(dk, s) \subseteq used \ {1, 2}

Typed(dk, s) == dk \in [BlockIds -> BlockRefs] /\ s \in Refs

LEMMA ShapeRefs ==
    ASSUME NEW dk, NEW s, Typed(dk, s), Shape(dk, s)
    PROVE  /\ Listed(dk, s) \subseteq Refs \ {0} /\ InodesUnder(dk, s) \subseteq Refs \ {0}
           /\ FramesUnder(dk, s) \subseteq Refs \ {0}
           /\ \A d \in Listed(dk, s) : dk[d] \in DirRefs /\ dk[d].kind = "dir"
           /\ \A n \in InodesUnder(dk, s) : dk[n] \in InodeRefs /\ IsFile(dk, n) /\ dk[n].kind = "inode"
           /\ \A f \in FramesUnder(dk, s) :
                 /\ dk[f] \in FrameRefs /\ dk[f].kind = "frame"
                 /\ \A i \in FramePlaces : dk[f].content[i] \in Refs \ {0}
<1> USE DEF Typed
<1>1. Listed(dk, s) \subseteq Refs \ {0}
  BY ListedRefs
<1>2. \A d \in Listed(dk, s) : dk[d] \in DirRefs /\ dk[d].kind = "dir"
  BY <1>1, NoRef, KindOf DEF Shape
<1>3. InodesUnder(dk, s) \subseteq Refs \ {0}
  BY <1>2 DEF InodesUnder, InodesIn, DirRefs
<1>4. \A n \in InodesUnder(dk, s) : dk[n] \in InodeRefs /\ IsFile(dk, n) /\ dk[n].kind = "inode"
  <2>1. \A n \in InodesUnder(dk, s) : IsFile(dk, n)
    BY DEF InodesUnder, Shape
  <2> QED  BY <1>3, <2>1, NoRef, KindOf DEF IsFile
<1>5. FramesUnder(dk, s) \subseteq Refs \ {0}
  <2>1. \A n \in InodesUnder(dk, s) : FramesIn(dk, n) \subseteq Refs \ {0}
    BY <1>4, ListedRefs DEF FramesIn, InodeRefs
  <2> QED  BY <2>1 DEF FramesUnder
<1>6. ASSUME NEW f \in FramesUnder(dk, s)
      PROVE  /\ dk[f] \in FrameRefs /\ dk[f].kind = "frame"
             /\ \A i \in FramePlaces : dk[f].content[i] \in Refs \ {0}
  <2>1. PICK n \in InodesUnder(dk, s) : f \in FramesIn(dk, n)
    BY DEF FramesUnder
  <2>2. dk[f].kind = "frame" /\ \A i \in FramePlaces : dk[f].content[i] # 0
    BY <1>4, <2>1 DEF IsFile
  <2>3. dk[f] \in FrameRefs
    BY <1>5, <2>2, NoRef, KindOf
  <2> QED  BY <2>2, <2>3 DEF FrameRefs
<1> QED  BY <1>1, <1>2, <1>3, <1>4, <1>5, <1>6

(* Whatever is in a list is its first or linked to from the list. *)
LEMMA ListedIsLinked ==
    ASSUME NEW dk, LinksAreIds(dk), NEW first \in BlockIds, NEW x \in Listed(dk, first)
    PROVE  x # 0 /\ (x = first \/ \E b \in Listed(dk, first) : Next_of(dk[b]) = x)
<1> DEFINE S == {first} \cup {Next_of(dk[b]) : b \in Listed(dk, first)}
<1>1. first \in S /\ \A b \in S \cap Listed(dk, first) : Next_of(dk[b]) # 0 => Next_of(dk[b]) \in S
  OBVIOUS
<1>2. Listed(dk, first) \subseteq S
  <2> HIDE DEF S
  <2> QED  BY <1>1, ListedIsLeast
<1>3. x \in Ids
  BY ListedIds
<1> QED  BY <1>2, <1>3 DEF Ids

(* What the blocks of the tree link to is the tree's. *)
LEMMA OwnedIsLinked ==
    ASSUME NEW dk, NEW s, Typed(dk, s), Shape(dk, s)
    PROVE  \A x : x \in OwnedUnder(dk, s) <=> \E b, i : Link(dk, s, b, i, x)
<1>1. /\ Listed(dk, s) \subseteq Refs \ {0} /\ InodesUnder(dk, s) \subseteq Refs \ {0}
      /\ FramesUnder(dk, s) \subseteq Refs \ {0}
      /\ \A d \in Listed(dk, s) : dk[d] \in DirRefs /\ dk[d].kind = "dir"
      /\ \A n \in InodesUnder(dk, s) : dk[n] \in InodeRefs /\ IsFile(dk, n) /\ dk[n].kind = "inode"
      /\ \A f \in FramesUnder(dk, s) :
            /\ dk[f] \in FrameRefs /\ dk[f].kind = "frame"
            /\ \A i \in FramePlaces : dk[f].content[i] \in Refs \ {0}
  BY ShapeRefs
<1>2. LinksAreIds(dk) /\ s \in BlockIds
  BY ListedRefs, NoRef DEF Typed
<1>3. ASSUME NEW x \in Listed(dk, s) PROVE \E b, i : Link(dk, s, b, i, x)
  <2>1. CASE x = s
    <3>1. Link(dk, s, 0, -1, x)
      BY <1>1, <2>1 DEF Link
    <3> QED  BY <3>1
  <2>2. CASE x # s
    <3>1. PICK b \in Listed(dk, s) : Next_of(dk[b]) = x
      BY <1>2, <2>2, ListedIsLinked
    <3>2. x = dk[b].next_dir /\ x # 0
      BY <1>1, <3>1 DEF Next_of
    <3>3. Link(dk, s, b, -1, x)
      BY <3>1, <3>2 DEF Link
    <3> QED  BY <3>3
  <2> QED  BY <2>1, <2>2
<1>4. ASSUME NEW x \in InodesUnder(dk, s) PROVE \E b, i : Link(dk, s, b, i, x)
  <2>1. PICK d \in Listed(dk, s) : x \in InodesIn(dk, d)
    BY DEF InodesUnder
  <2>2. PICK i \in InodeSlots : x = dk[d].inodes[i]
    BY <2>1 DEF InodesIn
  <2>3. Link(dk, s, d, i, x)
    BY <1>1, <2>1, <2>2 DEF Link
  <2> QED  BY <2>3
<1>5. ASSUME NEW x \in FramesUnder(dk, s) PROVE \E b, i : Link(dk, s, b, i, x)
  <2>1. PICK n \in InodesUnder(dk, s) : x \in FramesIn(dk, n)
    BY DEF FramesUnder
  <2>2. FramesIn(dk, n) \subseteq FramesUnder(dk, s)
    BY DEF FramesUnder
  <2>3. dk[n].first_frame \in BlockIds
    BY <1>1, NoRef DEF InodeRefs
  <2>4. CASE x = dk[n].first_frame
    <3>1. Link(dk, s, n, -1, x)
      BY <1>1, <2>4 DEF Link
    <3> QED  BY <3>1
  <2>5. CASE x # dk[n].first_frame
    <3>1. PICK b \in FramesIn(dk, n) : Next_of(dk[b]) = x
      BY <1>2, <2>1, <2>3, <2>5, ListedIsLinked DEF FramesIn
    <3>2. b \in FramesUnder(dk, s) /\ dk[b].kind = "frame"
      BY <1>1, <2>2
    <3>3. x = dk[b].next /\ x # 0
      BY <1>1, <3>1, <3>2 DEF Next_of
    <3>4. Link(dk, s, b, -1, x)
      BY <3>1, <3>2, <3>3 DEF Link
    <3> QED  BY <3>4
  <2> QED  BY <2>4, <2>5
<1>6. ASSUME NEW f \in FramesUnder(dk, s), NEW x \in ContentsIn(dk, f)
      PROVE  \E b, i : Link(dk, s, b, i, x)
  <2>1. PICK i \in FramePlaces : x = dk[f].content[i]
    BY DEF ContentsIn
  <2>2. Link(dk, s, f, i, x)
    BY <1>1, <2>1 DEF Link
  <2> QED  BY <2>2
<1>7. ASSUME NEW x, NEW b, NEW i, Link(dk, s, b, i, x) PROVE x \in OwnedUnder(dk, s)
  <2>1. CASE b = 0 /\ i = -1 /\ x = s
    <3>1. x \in Listed(dk, s)
      BY <1>2, <1>7, <2>1, ListedIds DEF Link
    <3> QED  BY <3>1 DEF OwnedUnder
  <2>2. CASE b \in Listed(dk, s) /\ i = -1 /\ x = dk[b].next_dir
    <3>1. x = Next_of(dk[b]) /\ x # 0
      BY <1>1, <1>7, <2>2 DEF Next_of, Link
    <3>2. x \in Listed(dk, s)
      BY <1>2, <2>2, <3>1, ListedIsClosed
    <3> QED  BY <3>2 DEF OwnedUnder
  <2>3. CASE b \in Listed(dk, s) /\ i \in InodeSlots /\ x = dk[b].inodes[i]
    <3>1. x # 0
      BY <1>7 DEF Link
    <3>2. x \in InodesIn(dk, b)
      BY <2>3, <3>1 DEF InodesIn
    <3> QED  BY <2>3, <3>2 DEF OwnedUnder, InodesUnder
  <2>4. CASE b \in InodesUnder(dk, s) /\ i = -1 /\ x = dk[b].first_frame
    <3>1. x # 0 /\ x \in BlockIds
      BY <1>1, <1>7, <2>4, NoRef DEF Link, InodeRefs
    <3>2. x \in FramesIn(dk, b)
      BY <1>2, <2>4, <3>1, ListedIds DEF FramesIn
    <3> QED  BY <2>4, <3>2 DEF OwnedUnder, FramesUnder
  <2>5. CASE b \in FramesUnder(dk, s) /\ i = -1 /\ x = dk[b].next
    <3>1. PICK n \in InodesUnder(dk, s) : b \in FramesIn(dk, n)
      BY <2>5 DEF FramesUnder
    <3>2. x = Next_of(dk[b]) /\ x # 0 /\ dk[n].first_frame \in BlockIds
      BY <1>1, <1>7, <2>5, <3>1, NoRef DEF Next_of, Link, InodeRefs
    <3>3. x \in FramesIn(dk, n)
      BY <1>2, <3>1, <3>2, ListedIsClosed DEF FramesIn
    <3> QED  BY <3>1, <3>3 DEF OwnedUnder, FramesUnder
  <2>6. CASE b \in FramesUnder(dk, s) /\ i \in FramePlaces /\ x = dk[b].content[i]
    BY <2>6 DEF OwnedUnder, ContentsIn
  <2> QED  BY <1>7, <2>1, <2>2, <2>3, <2>4, <2>5, <2>6 DEF Link
<1>8. ASSUME NEW x \in OwnedUnder(dk, s) PROVE \E b, i : Link(dk, s, b, i, x)
  BY <1>3, <1>4, <1>5, <1>6 DEF OwnedUnder
<1> QED  BY <1>7, <1>8

(* Intact counts links and the blocks they hold: they are as many when     *)
(* each block is held once.                                                *)
LinksIn(dk, b) ==
    CASE dk[b].kind = "super" -> {<<b, -1, dk[b].first_dir>>}
      [] dk[b].kind = "dir" ->
            {<<b, -1, dk[b].next_dir>>} \cup {<<b, i, dk[b].inodes[i]>> : i \in InodeSlots}
      [] dk[b].kind = "inode" -> {<<b, -1, dk[b].first_frame>>}
      [] dk[b].kind = "frame" ->
            {<<b, -1, dk[b].next>>} \cup {<<b, i, dk[b].content[i]>> : i \in FramePlaces}
LinksUnder(dk, s) ==
    {l \in UNION {LinksIn(dk, b) :
                  b \in {0} \cup Listed(dk, s) \cup InodesUnder(dk, s) \cup FramesUnder(dk, s)} : l[3] # 0}

LEMMA LinksAreTriples ==
    ASSUME NEW dk, NEW s, Typed(dk, s), Shape(dk, s), dk[0] = SuperBlock(s)
    PROVE  /\ \A l \in LinksUnder(dk, s) : l = <<l[1], l[2], l[3]>> /\ Link(dk, s, l[1], l[2], l[3])
           /\ \A b, i, x : Link(dk, s, b, i, x) => <<b, i, x>> \in LinksUnder(dk, s)
<1>1. /\ Listed(dk, s) \subseteq Refs \ {0} /\ InodesUnder(dk, s) \subseteq Refs \ {0}
      /\ FramesUnder(dk, s) \subseteq Refs \ {0}
      /\ \A d \in Listed(dk, s) : dk[d].kind = "dir"
      /\ \A n \in InodesUnder(dk, s) : dk[n].kind = "inode"
      /\ \A f \in FramesUnder(dk, s) : dk[f].kind = "frame"
  BY ShapeRefs
<1>2. LinksIn(dk, 0) = {<<0, -1, s>>}
  BY DEF LinksIn, SuperBlock
<1>3. ASSUME NEW b \in Listed(dk, s)
      PROVE  LinksIn(dk, b) =
                 {<<b, -1, dk[b].next_dir>>} \cup {<<b, i, dk[b].inodes[i]>> : i \in InodeSlots}
  BY <1>1 DEF LinksIn
<1>4. ASSUME NEW b \in InodesUnder(dk, s) PROVE LinksIn(dk, b) = {<<b, -1, dk[b].first_frame>>}
  BY <1>1 DEF LinksIn
<1>5. ASSUME NEW b \in FramesUnder(dk, s)
      PROVE  LinksIn(dk, b) =
                 {<<b, -1, dk[b].next>>} \cup {<<b, i, dk[b].content[i]>> : i \in FramePlaces}
  BY <1>1 DEF LinksIn
<1>6. ASSUME NEW l \in LinksUnder(dk, s)
      PROVE  l = <<l[1], l[2], l[3]>> /\ Link(dk, s, l[1], l[2], l[3])
  <2>1. l[3] # 0 /\ \E b \in {0} \cup Listed(dk, s) \cup InodesUnder(dk, s) \cup FramesUnder(dk, s) :
                        l \in LinksIn(dk, b)
    BY DEF LinksUnder
  <2>2. CASE l \in LinksIn(dk, 0)
    <3>1. l = <<0, -1, s>>
      BY <1>2, <2>2
    <3> QED  BY <2>1, <3>1 DEF Link
  <2>3. ASSUME NEW b \in Listed(dk, s), l \in LinksIn(dk, b)
        PROVE  l = <<l[1], l[2], l[3]>> /\ Link(dk, s, l[1], l[2], l[3])
    <3>1. CASE l = <<b, -1, dk[b].next_dir>>
      BY <2>1, <3>1 DEF Link
    <3>2. ASSUME NEW i \in InodeSlots, l = <<b, i, dk[b].inodes[i]>>
          PROVE  l = <<l[1], l[2], l[3]>> /\ Link(dk, s, l[1], l[2], l[3])
      BY <2>1, <3>2 DEF Link
    <3> QED  BY <1>3, <2>3, <3>1, <3>2
  <2>4. ASSUME NEW b \in InodesUnder(dk, s), l \in LinksIn(dk, b)
        PROVE  l = <<l[1], l[2], l[3]>> /\ Link(dk, s, l[1], l[2], l[3])
    <3>1. l = <<b, -1, dk[b].first_frame>>
      BY <1>4, <2>4
    <3> QED  BY <2>1, <3>1 DEF Link
  <2>5. ASSUME NEW b \in FramesUnder(dk, s), l \in LinksIn(dk, b)
        PROVE  l = <<l[1], l[2], l[3]>> /\ Link(dk, s, l[1], l[2], l[3])
    <3>1. CASE l = <<b, -1, dk[b].next>>
      BY <2>1, <3>1 DEF Link
    <3>2. ASSUME NEW i \in FramePlaces, l = <<b, i, dk[b].content[i]>>
          PROVE  l = <<l[1], l[2], l[3]>> /\ Link(dk, s, l[1], l[2], l[3])
      BY <2>1, <3>2 DEF Link
    <3> QED  BY <1>5, <2>5, <3>1, <3>2
  <2> QED  BY <2>1, <2>2, <2>3, <2>4, <2>5
<1>7. ASSUME NEW b, NEW i, NEW x, Link(dk, s, b, i, x) PROVE <<b, i, x>> \in LinksUnder(dk, s)
  <2> DEFINE l == <<b, i, x>>
  <2>1. l[3] # 0 /\ l[3] = x
    BY <1>7 DEF Link
  <2>2. CASE b = 0 /\ i = -1 /\ x = s
    <3>1. l \in LinksIn(dk, 0)
      BY <1>2, <2>2
    <3> QED  BY <2>1, <3>1 DEF LinksUnder
  <2>3. CASE b \in Listed(dk, s) /\ i = -1 /\ x = dk[b].next_dir
    <3>1. l \in LinksIn(dk, b)
      BY <1>3, <2>3
    <3> QED  BY <2>1, <2>3, <3>1 DEF LinksUnder
  <2>4. CASE b \in Listed(dk, s) /\ i \in InodeSlots /\ x = dk[b].inodes[i]
    <3>1. l \in LinksIn(dk, b)
      BY <1>3, <2>4
    <3> QED  BY <2>1, <2>4, <3>1 DEF LinksUnder
  <2>5. CASE b \in InodesUnder(dk, s) /\ i = -1 /\ x = dk[b].first_frame
    <3>1. l \in LinksIn(dk, b)
      BY <1>4, <2>5
    <3> QED  BY <2>1, <2>5, <3>1 DEF LinksUnder
  <2>6. CASE b \in FramesUnder(dk, s) /\ i = -1 /\ x = dk[b].next
    <3>1. l \in LinksIn(dk, b)
      BY <1>5, <2>6
    <3> QED  BY <2>1, <2>6, <3>1 DEF LinksUnder
  <2>7. CASE b \in FramesUnder(dk, s) /\ i \in FramePlaces /\ x = dk[b].content[i]
    <3>1. l \in LinksIn(dk, b)
      BY <1>5, <2>7
    <3> QED  BY <2>1, <2>7, <3>1 DEF LinksUnder
  <2> QED  BY <1>7, <2>2, <2>3, <2>4, <2>5, <2>6, <2>7 DEF Link
<1> QED  BY <1>6, <1>7

LEMMA LinksAreFinite ==
    ASSUME NEW dk, NEW s, Typed(dk, s), Shape(dk, s), dk[0] = SuperBlock(s)
    PROVE  IsFiniteSet(LinksUnder(dk, s))
<1> DEFINE S == LinksUnder(dk, s)
           P == -1 .. DbNinodes + FrameCount
           T == (BlockIds \X P) \X BlockIds
           f == [l \in S |-> <<<<l[1], l[2]>>, l[3]>>]
<1>1. \A l \in S : l = <<l[1], l[2], l[3]>> /\ Link(dk, s, l[1], l[2], l[3])
  BY LinksAreTriples
<1>2. ASSUME NEW b, NEW i, NEW x, Link(dk, s, b, i, x)
      PROVE  b \in BlockIds /\ i \in P /\ x \in BlockIds
  <2>1. x \in OwnedUnder(dk, s)
    BY <1>2, OwnedIsLinked
  <2>2. /\ Listed(dk, s) \subseteq Refs \ {0} /\ InodesUnder(dk, s) \subseteq Refs \ {0}
        /\ FramesUnder(dk, s) \subseteq Refs \ {0}
        /\ \A g \in FramesUnder(dk, s) : \A j \in FramePlaces : dk[g].content[j] \in Refs \ {0}
    BY ShapeRefs
  <2>3. x \in BlockIds
    BY <2>1, <2>2, NoRef DEF OwnedUnder, ContentsIn
  <2>4. b \in BlockIds
    BY <1>2, <2>2, NoRef DEF Link
  <2>5. i \in P
    <3>1. i = -1 \/ i \in InodeSlots \/ i \in FramePlaces
      BY <1>2 DEF Link
    <3> QED  BY <3>1, SizesAssumption DEF InodeSlots, FramePlaces
  <2> QED  BY <2>3, <2>4, <2>5
<1>3. IsFiniteSet(T)
  <2>1. IsFiniteSet(BlockIds)
    BY FS_Interval, SizesAssumption DEF BlockIds
  <2>2. IsFiniteSet(P)
    <3>1. -1 \in Int /\ DbNinodes + FrameCount \in Int
      BY SizesAssumption
    <3> QED  BY <3>1, FS_Interval
  <2> HIDE DEF P
  <2>3. IsFiniteSet(BlockIds \X P)
    BY <2>1, <2>2, FS_Product
  <2> QED  BY <2>1, <2>3, FS_Product
<1> HIDE DEF S, P
<1>4. f \in Injection(S, T)
  <2>1. f \in [S -> T]
    <3>1. ASSUME NEW l \in S PROVE f[l] \in T
      <4>1. l[1] \in BlockIds /\ l[2] \in P /\ l[3] \in BlockIds
        BY <1>1, <1>2
      <4> QED  BY <4>1
    <3> HIDE DEF T
    <3> QED  BY <3>1
  <2>2. ASSUME NEW l \in S, NEW m \in S, f[l] = f[m] PROVE l = m
    <3>1. l[1] = m[1] /\ l[2] = m[2] /\ l[3] = m[3]
      BY <2>2
    <3>2. l = <<l[1], l[2], l[3]>> /\ m = <<m[1], m[2], m[3]>>
      BY <1>1
    <3> QED  BY <3>1, <3>2
  <2> HIDE DEF f, T
  <2> QED  BY <2>1, <2>2 DEF Injection, IsInjective
<1> HIDE DEF f, T
<1> QED  BY <1>3, <1>4, FS_Injection DEF S

LEMMA CountedIsHeldOnce ==
    ASSUME NEW dk, NEW s, Typed(dk, s), Shape(dk, s), dk[0] = SuperBlock(s)
    PROVE  LET L == LinksUnder(dk, s)
               O == {l[3] : l \in L}
           IN  /\ O = OwnedUnder(dk, s)
               /\ Cardinality(L) = Cardinality(O) <=> HeldOnce(dk, s)
<1> DEFINE L == LinksUnder(dk, s)
           O == {l[3] : l \in L}
           f == [l \in L |-> l[3]]
<1>1. /\ \A l \in L : l = <<l[1], l[2], l[3]>> /\ Link(dk, s, l[1], l[2], l[3])
      /\ \A b, i, x : Link(dk, s, b, i, x) => <<b, i, x>> \in L
  BY LinksAreTriples
<1>2. IsFiniteSet(L)
  BY LinksAreFinite
<1> HIDE DEF L
<1>3. O = OwnedUnder(dk, s)
  <2>1. ASSUME NEW x \in O PROVE x \in OwnedUnder(dk, s)
    BY <1>1, OwnedIsLinked
  <2>2. ASSUME NEW x \in OwnedUnder(dk, s) PROVE x \in O
    <3>1. PICK b, i : Link(dk, s, b, i, x)
      BY OwnedIsLinked
    <3>2. <<b, i, x>> \in L /\ <<b, i, x>>[3] = x
      BY <1>1, <3>1
    <3> QED  BY <3>2
  <2> QED  BY <2>1, <2>2
<1>4. f \in Surjection(L, O)
  BY DEF Surjection
<1>5. Cardinality(O) = Cardinality(L) <=> f \in Injection(L, O)
  <2> HIDE DEF f, O
  <2> QED  BY <1>2, <1>4, FS_Surjection
<1>6. ASSUME f \in Injection(L, O) PROVE HeldOnce(dk, s)
  <2>1. \A l, m \in L : f[l] = f[m] => l = m
    <3> HIDE DEF f, O
    <3> QED  BY <1>6 DEF Injection, IsInjective
  <2>2. ASSUME NEW b, NEW i, NEW c, NEW j, NEW x, Link(dk, s, b, i, x), Link(dk, s, c, j, x)
        PROVE  b = c /\ i = j
    <3>1. <<b, i, x>> \in L /\ <<c, j, x>> \in L /\ <<b, i, x>>[3] = <<c, j, x>>[3]
      BY <1>1, <2>2
    <3>2. <<b, i, x>> = <<c, j, x>>
      BY <2>1, <3>1
    <3> QED  BY <3>2
  <2> QED  BY <2>2 DEF HeldOnce
<1>7. ASSUME HeldOnce(dk, s) PROVE f \in Injection(L, O)
  <2>1. f \in [L -> O]
    OBVIOUS
  <2>2. ASSUME NEW l \in L, NEW m \in L, f[l] = f[m] PROVE l = m
    <3>1. /\ l = <<l[1], l[2], l[3]>> /\ Link(dk, s, l[1], l[2], l[3])
          /\ m = <<m[1], m[2], m[3]>> /\ Link(dk, s, m[1], m[2], m[3]) /\ l[3] = m[3]
      BY <1>1, <2>2
    <3>2. l[1] = m[1] /\ l[2] = m[2]
      BY <1>7, <3>1 DEF HeldOnce
    <3> QED  BY <3>1, <3>2
  <2> HIDE DEF f, O
  <2> QED  BY <2>1, <2>2 DEF Injection, IsInjective
<1>8. Cardinality(L) = Cardinality(O) <=> HeldOnce(dk, s)
  <2> HIDE DEF f, O
  <2> QED  BY <1>5, <1>6, <1>7
<1> QED  BY <1>3, <1>8 DEF L

LEMMA IntactIsTree ==
    ASSUME Typed(disk, sb)
    PROVE  /\ Intact <=> Tree(disk, sb, freemap)
           /\ Dirs = Listed(disk, sb) /\ Inodes = InodesUnder(disk, sb)
           /\ \A d : InodesOf(d) = InodesIn(disk, d)
           /\ \A n : FramesOf(n) = FramesIn(disk, n)
           /\ Intact => Owned = OwnedUnder(disk, sb)
<1>1. /\ Dirs = Listed(disk, sb) /\ Inodes = InodesUnder(disk, sb)
      /\ Frames = FramesUnder(disk, sb)
      /\ \A d : InodesOf(d) = InodesIn(disk, d)
      /\ \A n : FramesOf(n) = FramesIn(disk, n)
  BY DEF Dirs, Inodes, Frames, InodesUnder, FramesUnder, InodesOf, InodesIn, FramesOf, FramesIn
<1>2. Links = LinksUnder(disk, sb)
  BY <1>1 DEF Links, LinksUnder, LinksOf, LinksIn
<1>3. Intact <=>
        /\ disk[0] = SuperBlock(sb) /\ disk[1] = MapBlock(freemap)
        /\ Shape(disk, sb)
        /\ Cardinality(Links) = Cardinality(Owned)
        /\ Owned \subseteq freemap \ {1, 2}
  BY <1>1 DEF Intact, Shape, IsFile
<1>4. ASSUME disk[0] = SuperBlock(sb), Shape(disk, sb)
      PROVE  /\ Cardinality(Links) = Cardinality(Owned) <=> HeldOnce(disk, sb)
             /\ Owned = OwnedUnder(disk, sb)
  BY <1>2, <1>4, CountedIsHeldOnce DEF Owned
<1> QED  BY <1>1, <1>3, <1>4 DEF Tree

LEMMA IntactIsTreeAfter ==
    ASSUME Typed(disk', sb')
    PROVE  /\ Intact' <=> Tree(disk', sb', freemap')
           /\ Dirs' = Listed(disk', sb') /\ Inodes' = InodesUnder(disk', sb')
           /\ \A d : InodesOf(d)' = InodesIn(disk', d)
           /\ \A n : FramesOf(n)' = FramesIn(disk', n)
           /\ Intact' => Owned' = OwnedUnder(disk', sb')
<1>1. /\ Dirs' = Listed(disk', sb') /\ Inodes' = InodesUnder(disk', sb')
      /\ Frames' = FramesUnder(disk', sb')
      /\ \A d : InodesOf(d)' = InodesIn(disk', d)
      /\ \A n : FramesOf(n)' = FramesIn(disk', n)
  BY DEF Dirs, Inodes, Frames, InodesUnder, FramesUnder, InodesOf, InodesIn, FramesOf, FramesIn
<1>2. Links' = LinksUnder(disk', sb')
  BY <1>1 DEF Links, LinksUnder, LinksOf, LinksIn
<1>3. Intact' <=>
        /\ disk'[0] = SuperBlock(sb') /\ disk'[1] = MapBlock(freemap')
        /\ Shape(disk', sb')
        /\ Cardinality(Links)' = Cardinality(Owned)'
        /\ Owned' \subseteq freemap' \ {1, 2}
  BY <1>1 DEF Intact, Shape, IsFile
<1>4. ASSUME disk'[0] = SuperBlock(sb'), Shape(disk', sb')
      PROVE  /\ Cardinality(Links)' = Cardinality(Owned)' <=> HeldOnce(disk', sb')
             /\ Owned' = OwnedUnder(disk', sb')
  BY <1>2, <1>4, CountedIsHeldOnce DEF Owned
<1> QED  BY <1>1, <1>3, <1>4 DEF Tree

-----------------------------------------------------------------------------
(* A tree whose blocks are held once: its lists end, its parts are apart.  *)
LEMMA WhoLinks ==
    ASSUME NEW dk, NEW s, Typed(dk, s), Shape(dk, s)
    PROVE  /\ s # 0 => Link(dk, s, 0, -1, s)
           /\ \A d \in Listed(dk, s) : dk[d].next_dir # 0 => Link(dk, s, d, -1, dk[d].next_dir)
           /\ \A d \in Listed(dk, s) : \A i \in InodeSlots :
                 dk[d].inodes[i] # 0 => Link(dk, s, d, i, dk[d].inodes[i])
           /\ \A n \in InodesUnder(dk, s) :
                 dk[n].first_frame # 0 => Link(dk, s, n, -1, dk[n].first_frame)
           /\ \A f \in FramesUnder(dk, s) : dk[f].next # 0 => Link(dk, s, f, -1, dk[f].next)
           /\ \A f \in FramesUnder(dk, s) : \A i \in FramePlaces :
                 Link(dk, s, f, i, dk[f].content[i]) /\ dk[f].content[i] \in Refs \ {0}
<1>1. \A f \in FramesUnder(dk, s) : \A i \in FramePlaces : dk[f].content[i] \in Refs \ {0}
  BY ShapeRefs
<1> QED  BY <1>1 DEF Link

LEMMA Nexts ==
    ASSUME NEW dk, NEW s, Typed(dk, s), Shape(dk, s)
    PROVE  /\ \A d \in Listed(dk, s) : Next_of(dk[d]) = dk[d].next_dir
           /\ \A f \in FramesUnder(dk, s) : Next_of(dk[f]) = dk[f].next
           /\ \A n \in InodesUnder(dk, s) :
                 FramesIn(dk, n) \subseteq FramesUnder(dk, s) /\ dk[n].first_frame \in BlockIds
           /\ \A d \in Listed(dk, s) : InodesIn(dk, d) \subseteq InodesUnder(dk, s)
           /\ \A f \in FramesUnder(dk, s) : \E n \in InodesUnder(dk, s) : f \in FramesIn(dk, n)
           /\ \A n \in InodesUnder(dk, s) : \E d \in Listed(dk, s) : n \in InodesIn(dk, d)
           /\ LinksAreIds(dk) /\ s \in BlockIds
<1>1. /\ \A d \in Listed(dk, s) : dk[d].kind = "dir"
      /\ \A f \in FramesUnder(dk, s) : dk[f].kind = "frame"
      /\ \A n \in InodesUnder(dk, s) : dk[n] \in InodeRefs
  BY ShapeRefs
<1>2. \A d \in Listed(dk, s) : Next_of(dk[d]) = dk[d].next_dir
  BY <1>1 DEF Next_of
<1>3. \A f \in FramesUnder(dk, s) : Next_of(dk[f]) = dk[f].next
  BY <1>1 DEF Next_of
<1>4. \A n \in InodesUnder(dk, s) :
         FramesIn(dk, n) \subseteq FramesUnder(dk, s) /\ dk[n].first_frame \in BlockIds
  BY <1>1, NoRef DEF FramesUnder, InodeRefs
<1>5. \A d \in Listed(dk, s) : InodesIn(dk, d) \subseteq InodesUnder(dk, s)
  BY DEF InodesUnder
<1>6. LinksAreIds(dk) /\ s \in BlockIds
  BY ListedRefs, NoRef DEF Typed
<1> QED  BY <1>2, <1>3, <1>4, <1>5, <1>6 DEF FramesUnder, InodesUnder

LEMMA PartsApart ==
    ASSUME NEW dk, NEW s, Typed(dk, s), Shape(dk, s), HeldOnce(dk, s)
    PROVE  /\ Listed(dk, s) \cap InodesUnder(dk, s) = {}
           /\ Listed(dk, s) \cap FramesUnder(dk, s) = {}
           /\ InodesUnder(dk, s) \cap FramesUnder(dk, s) = {}
           /\ \A f \in FramesUnder(dk, s) :
                 ContentsIn(dk, f) \cap (Listed(dk, s) \cup InodesUnder(dk, s) \cup FramesUnder(dk, s)) = {}
           /\ 0 \notin Listed(dk, s) \cup InodesUnder(dk, s) \cup FramesUnder(dk, s)
           /\ 0 \notin OwnedUnder(dk, s)
<1>1. /\ \A d \in Listed(dk, s) : dk[d].kind = "dir"
      /\ \A n \in InodesUnder(dk, s) : dk[n].kind = "inode"
      /\ \A f \in FramesUnder(dk, s) : dk[f].kind = "frame"
      /\ 0 \notin Listed(dk, s) \cup InodesUnder(dk, s) \cup FramesUnder(dk, s)
  BY ShapeRefs
<1>2. ASSUME NEW f \in FramesUnder(dk, s), NEW i \in FramePlaces
      PROVE  dk[f].content[i] \notin Listed(dk, s) \cup InodesUnder(dk, s) \cup FramesUnder(dk, s)
  <2> DEFINE x == dk[f].content[i]
  <2>1. Link(dk, s, f, i, x) /\ i # -1 /\ f # 0
    <3>1. i \in Nat
      BY SizesAssumption DEF FramePlaces
    <3> QED  BY <1>1, <3>1, WhoLinks
  <2> HIDE DEF x
  <2>2. CASE x \in Listed(dk, s)
    <3>1. x # 0 /\ (x = s \/ \E b \in Listed(dk, s) : Next_of(dk[b]) = x)
      BY <2>2, Nexts, ListedIsLinked
    <3>2. CASE x = s
      BY <2>1, <3>1, <3>2, WhoLinks DEF HeldOnce
    <3>3. ASSUME NEW b \in Listed(dk, s), Next_of(dk[b]) = x PROVE FALSE
      <4>1. Link(dk, s, b, -1, x)
        BY <3>1, <3>3, WhoLinks, Nexts
      <4> QED  BY <2>1, <4>1 DEF HeldOnce
    <3> QED  BY <3>1, <3>2, <3>3
  <2>3. ASSUME NEW d \in Listed(dk, s), x \in InodesIn(dk, d) PROVE FALSE
    <3>1. PICK j \in InodeSlots : x = dk[d].inodes[j] /\ x # 0
      BY <2>3 DEF InodesIn
    <3>2. Link(dk, s, d, j, x)
      BY <3>1, WhoLinks
    <3>3. d = f
      BY <2>1, <3>2 DEF HeldOnce
    <3> QED  BY <1>1, <3>3
  <2>4. ASSUME NEW n \in InodesUnder(dk, s), x \in FramesIn(dk, n) PROVE FALSE
    <3>1. x # 0 /\ (x = dk[n].first_frame \/ \E b \in FramesIn(dk, n) : Next_of(dk[b]) = x)
      BY <2>4, Nexts, ListedIsLinked DEF FramesIn
    <3>2. CASE x = dk[n].first_frame
      BY <2>1, <3>1, <3>2, WhoLinks DEF HeldOnce
    <3>3. ASSUME NEW b \in FramesIn(dk, n), Next_of(dk[b]) = x PROVE FALSE
      <4>1. b \in FramesUnder(dk, s) /\ dk[b].next = x
        BY <3>3, Nexts
      <4>2. Link(dk, s, b, -1, x)
        BY <3>1, <4>1, WhoLinks
      <4> QED  BY <2>1, <4>2 DEF HeldOnce
    <3> QED  BY <3>1, <3>2, <3>3
  <2> QED  BY <2>2, <2>3, <2>4 DEF x, InodesUnder, FramesUnder
<1>3. 0 \notin OwnedUnder(dk, s)
  BY OwnedIsLinked DEF Link
<1> QED  BY <1>1, <1>2, <1>3 DEF ContentsIn

LEMMA ListsEnd ==
    ASSUME NEW dk, NEW s, Typed(dk, s), Shape(dk, s), HeldOnce(dk, s)
    PROVE  /\ OneWay(dk, s)
           /\ \A n \in InodesUnder(dk, s) : OneWay(dk, dk[n].first_frame)
<1>1. OneWay(dk, s)
  <2>1. ASSUME NEW b \in Listed(dk, s), NEW c \in Listed(dk, s), Next_of(dk[b]) # 0
        PROVE  Next_of(dk[b]) # s /\ (Next_of(dk[b]) = Next_of(dk[c]) => b = c)
    <3>1. Link(dk, s, b, -1, Next_of(dk[b])) /\ b # 0
      BY <2>1, WhoLinks, Nexts, PartsApart
    <3>2. Next_of(dk[b]) # s
      BY <2>1, <3>1, WhoLinks DEF HeldOnce
    <3>3. ASSUME Next_of(dk[b]) = Next_of(dk[c]) PROVE b = c
      <4>1. Link(dk, s, c, -1, Next_of(dk[b]))
        BY <2>1, <3>3, WhoLinks, Nexts
      <4> QED  BY <3>1, <4>1 DEF HeldOnce
    <3> QED  BY <3>2, <3>3
  <2> QED  BY <2>1 DEF OneWay
<1>2. ASSUME NEW n \in InodesUnder(dk, s) PROVE OneWay(dk, dk[n].first_frame)
  <2>1. ASSUME NEW b \in FramesIn(dk, n), NEW c \in FramesIn(dk, n), Next_of(dk[b]) # 0
        PROVE  /\ Next_of(dk[b]) # dk[n].first_frame
               /\ Next_of(dk[b]) = Next_of(dk[c]) => b = c
    <3>0. b \in FramesUnder(dk, s) /\ c \in FramesUnder(dk, s)
      BY Nexts
    <3>1. Link(dk, s, b, -1, Next_of(dk[b])) /\ b # n
      BY <2>1, <3>0, WhoLinks, Nexts, PartsApart
    <3>2. Next_of(dk[b]) # dk[n].first_frame
      BY <2>1, <3>1, WhoLinks DEF HeldOnce
    <3>3. ASSUME Next_of(dk[b]) = Next_of(dk[c]) PROVE b = c
      <4>1. Link(dk, s, c, -1, Next_of(dk[b]))
        BY <2>1, <3>0, <3>3, WhoLinks, Nexts
      <4> QED  BY <3>1, <4>1 DEF HeldOnce
    <3> QED  BY <3>2, <3>3
  <2> QED  BY <2>1 DEF OneWay, FramesIn
<1> QED  BY <1>1, <1>2

LEMMA InodeHeldOnce ==
    ASSUME NEW dk, NEW s, Typed(dk, s), Shape(dk, s), HeldOnce(dk, s),
           NEW d \in Listed(dk, s), NEW e \in Listed(dk, s),
           NEW i \in InodeSlots, NEW j \in InodeSlots,
           dk[d].inodes[i] # 0, dk[d].inodes[i] = dk[e].inodes[j]
    PROVE  d = e /\ i = j
<1>1. Link(dk, s, d, i, dk[d].inodes[i]) /\ Link(dk, s, e, j, dk[d].inodes[i])
  BY WhoLinks
<1> QED  BY <1>1 DEF HeldOnce

(* A frame of two files would make them one. *)
LEMMA FilesApart ==
    ASSUME NEW dk, NEW s, Typed(dk, s), Shape(dk, s), HeldOnce(dk, s),
           NEW n \in InodesUnder(dk, s), NEW m \in InodesUnder(dk, s), n # m
    PROVE  FramesIn(dk, n) \cap FramesIn(dk, m) = {}
<1> DEFINE S == FramesIn(dk, n) \ FramesIn(dk, m)
<1>1. /\ FramesIn(dk, n) \subseteq FramesUnder(dk, s) /\ dk[n].first_frame \in BlockIds
      /\ FramesIn(dk, m) \subseteq FramesUnder(dk, s) /\ dk[m].first_frame \in BlockIds
      /\ LinksAreIds(dk) /\ n \notin FramesUnder(dk, s) /\ m \notin FramesUnder(dk, s)
  BY Nexts, PartsApart
<1>2. ASSUME NEW x \in FramesIn(dk, m)
      PROVE  \E b \in {m} \cup FramesIn(dk, m) : Link(dk, s, b, -1, x)
  <2>1. x # 0 /\ (x = dk[m].first_frame \/ \E b \in FramesIn(dk, m) : Next_of(dk[b]) = x)
    BY <1>1, ListedIsLinked DEF FramesIn
  <2>2. CASE x = dk[m].first_frame
    BY <2>1, <2>2, WhoLinks
  <2>3. ASSUME NEW b \in FramesIn(dk, m), Next_of(dk[b]) = x PROVE Link(dk, s, b, -1, x)
    BY <1>1, <2>1, <2>3, WhoLinks, Nexts
  <2> QED  BY <2>1, <2>2, <2>3
<1>3. ASSUME dk[n].first_frame # 0 PROVE dk[n].first_frame \in S
  <2>1. Link(dk, s, n, -1, dk[n].first_frame)
    BY <1>3, WhoLinks
  <2>2. dk[n].first_frame \notin FramesIn(dk, m)
    BY <1>1, <1>2, <2>1 DEF HeldOnce
  <2>3. dk[n].first_frame \in FramesIn(dk, n)
    BY <1>1, <1>3, ListedIds DEF FramesIn
  <2> QED  BY <2>2, <2>3
<1>4. ASSUME NEW b \in S, Next_of(dk[b]) # 0 PROVE Next_of(dk[b]) \in S
  <2>1. Link(dk, s, b, -1, Next_of(dk[b]))
    BY <1>1, <1>4, WhoLinks, Nexts
  <2>2. Next_of(dk[b]) \notin FramesIn(dk, m)
    BY <1>1, <1>2, <2>1 DEF HeldOnce
  <2>3. Next_of(dk[b]) \in FramesIn(dk, n)
    BY <1>1, <1>4, ListedIsClosed DEF FramesIn
  <2> QED  BY <2>2, <2>3
<1>5. FramesIn(dk, n) \subseteq S
  <2> HIDE DEF S
  <2> QED  BY <1>1, <1>3, <1>4, ListedIsLeast DEF FramesIn
<1> QED  BY <1>5

LEMMA ContentHeldOnce ==
    ASSUME NEW dk, NEW s, Typed(dk, s), Shape(dk, s), HeldOnce(dk, s),
           NEW f \in FramesUnder(dk, s), NEW g \in FramesUnder(dk, s),
           NEW i \in FramePlaces, NEW j \in FramePlaces, dk[f].content[i] = dk[g].content[j]
    PROVE  f = g /\ i = j
<1>1. Link(dk, s, f, i, dk[f].content[i]) /\ Link(dk, s, g, j, dk[f].content[i])
  BY WhoLinks
<1> QED  BY <1>1 DEF HeldOnce

(* A file whose inode and frames are left alone. *)
LEMMA FileKept ==
    ASSUME NEW dk, LinksAreIds(dk), NEW em, LinksAreIds(em),
           NEW n, em[n] = dk[n], dk[n].first_frame \in BlockIds,
           \A f \in FramesIn(dk, n) : em[f] = dk[f]
    PROVE  /\ FramesIn(em, n) = FramesIn(dk, n)
           /\ IsFile(dk, n) => IsFile(em, n)
<1>1. FramesIn(em, n) = FramesIn(dk, n)
  BY SameListing DEF FramesIn
<1> QED  BY <1>1 DEF IsFile

(* The blocks of a tree but the directories are as they were; so are the   *)
(* files.                                                                  *)
LEMMA FilesKept ==
    ASSUME NEW dk, NEW s, Typed(dk, s), Shape(dk, s), NEW em, LinksAreIds(em),
           \A b \in InodesUnder(dk, s) \cup FramesUnder(dk, s) : em[b] = dk[b]
    PROVE  \A n \in InodesUnder(dk, s) : FramesIn(em, n) = FramesIn(dk, n) /\ IsFile(em, n)
<1>1. LinksAreIds(dk) /\ \A n \in InodesUnder(dk, s) :
         FramesIn(dk, n) \subseteq FramesUnder(dk, s) /\ dk[n].first_frame \in BlockIds
  BY Nexts
<1>2. \A n \in InodesUnder(dk, s) : IsFile(dk, n)
  BY ShapeRefs
<1> QED  BY <1>1, <1>2, FileKept

(* New links, from blocks of the tree or new ones, to blocks that were not *)
(* the tree's.                                                             *)
LEMMA HeldOnceAfter ==
    ASSUME NEW dk, NEW s, Typed(dk, s), Shape(dk, s), HeldOnce(dk, s), NEW em, NEW s2, NEW N,
           \A b, i, x : Link(em, s2, b, i, x) => Link(dk, s, b, i, x) \/ <<b, i, x>> \in N,
           \A b, i, x : <<b, i, x>> \in N => x \notin OwnedUnder(dk, s),
           \A b, i, c, j, x : <<b, i, x>> \in N /\ <<c, j, x>> \in N => b = c /\ i = j
    PROVE  HeldOnce(em, s2)
<1>1. \A b, i, x : Link(dk, s, b, i, x) => x \in OwnedUnder(dk, s)
  BY OwnedIsLinked
<1>2. ASSUME NEW b, NEW i, NEW c, NEW j, NEW x, Link(em, s2, b, i, x), Link(em, s2, c, j, x)
      PROVE  b = c /\ i = j
  <2>1. CASE Link(dk, s, b, i, x)
    <3>1. x \in OwnedUnder(dk, s)
      BY <1>1, <2>1
    <3>2. Link(dk, s, c, j, x)
      BY <1>2, <3>1
    <3> QED  BY <2>1, <3>2 DEF HeldOnce
  <2>2. CASE <<b, i, x>> \in N
    <3>1. x \notin OwnedUnder(dk, s)
      BY <2>2
    <3>2. <<c, j, x>> \in N
      BY <1>1, <1>2, <3>1
    <3> QED  BY <2>2, <3>2
  <2> QED  BY <1>2, <2>1, <2>2
<1> QED  BY <1>2 DEF HeldOnce

MkdirWrites(dk, s, used, em, s2, new, name) ==
    /\ s2 = (IF s = 0 THEN new ELSE s)
    /\ em[0] = SuperBlock(s2) /\ em[1] = MapBlock(used \cup {new})
    /\ em[new] = DirBlock(name)
    /\ \A b \in BlockIds \ {0, 1, new} :
          em[b] = IF s # 0 /\ b = LastOf(dk, s) THEN [dk[b] EXCEPT !.next_dir = new] ELSE dk[b]

MkdirDone(dk, s, used, em, s2, new) ==
    /\ Tree(em, s2, used \cup {new})
    /\ Listed(em, s2) = Listed(dk, s) \cup {new}
    /\ OwnedUnder(em, s2) = OwnedUnder(dk, s) \cup {new}
    /\ InodesIn(em, new) = {}
    /\ \A d \in Listed(dk, s) : /\ em[d].inodes = dk[d].inodes /\ em[d].dir_name = dk[d].dir_name
                                /\ InodesIn(em, d) = InodesIn(dk, d)
    /\ \A b \in InodesUnder(dk, s) \cup FramesUnder(dk, s) : em[b] = dk[b]
    /\ InodesUnder(em, s2) = InodesUnder(dk, s) /\ FramesUnder(em, s2) = FramesUnder(dk, s)
LEMMA MkdirTree ==
    ASSUME NEW dk, NEW s, NEW used, Typed(dk, s), Tree(dk, s, used),
           NEW new \in Refs \ {0}, new \notin used, NEW name \in DirNames,
           NEW em, NEW s2, Typed(em, s2), MkdirWrites(dk, s, used, em, s2, new, name)
    PROVE  MkdirDone(dk, s, used, em, s2, new)
<1> DEFINE last == LastOf(dk, s)
           D == Listed(dk, s)
           I == InodesUnder(dk, s)
           F == FramesUnder(dk, s)
<1>1. /\ LinksAreIds(dk) /\ LinksAreIds(em) /\ s \in BlockIds /\ s2 \in BlockIds
      /\ Shape(dk, s) /\ HeldOnce(dk, s) /\ OwnedUnder(dk, s) \subseteq used \ {1, 2}
      /\ new \in Ids /\ new \in BlockIds /\ new # 0 /\ new # 1
  BY ListedRefs, NoRef DEF Tree, Typed, Refs, Ids
<1>2. /\ D \subseteq BlockIds \ {0, 1, new} /\ I \subseteq BlockIds \ {0, 1, new}
      /\ F \subseteq BlockIds \ {0, 1, new}
      /\ D \cap I = {} /\ D \cap F = {} /\ I \cap F = {}
  <2>1. D \subseteq Refs \ {0} /\ I \subseteq Refs \ {0} /\ F \subseteq Refs \ {0}
    BY <1>1, ShapeRefs
  <2>2. new \notin D \cup I \cup F
    BY <1>1 DEF OwnedUnder
  <2>3. D \cap I = {} /\ D \cap F = {} /\ I \cap F = {}
    BY <1>1, PartsApart
  <2> QED  BY <2>1, <2>2, <2>3, NoRef DEF Refs
<1>3. /\ \A d \in D : dk[d] \in DirRefs /\ dk[d].kind = "dir"
      /\ DirBlock(name).kind = "dir" /\ DirBlock(name).next_dir = 0
      /\ \A i \in InodeSlots : DirBlock(name).inodes[i] = 0
  BY <1>1, ShapeRefs DEF DirBlock
<1>4. \A d \in D : /\ em[d].kind = "dir" /\ em[d].inodes = dk[d].inodes /\ em[d].dir_name = dk[d].dir_name
                   /\ em[d].next_dir = IF s # 0 /\ d = last THEN new ELSE dk[d].next_dir
  <2>1. ASSUME NEW d \in D, s # 0, d = last
        PROVE  em[d] = [dk[d] EXCEPT !.next_dir = new] /\ dk[d] \in DirRefs
    BY <1>2, <1>3, <2>1 DEF MkdirWrites
  <2>2. ASSUME NEW d \in D, ~(s # 0 /\ d = last) PROVE em[d] = dk[d] /\ dk[d].kind = "dir"
    BY <1>2, <1>3, <2>2 DEF MkdirWrites
  <2> HIDE DEF D, last
  <2> QED  BY <2>1, <2>2 DEF DirRefs
<1>5. s # 0 => last \in D /\ dk[last].next_dir = 0
  <2>1. ASSUME s # 0 PROVE last \in D /\ Next_of(dk[last]) = 0
    <3>1. s \in Ids /\ OneWay(dk, s)
      BY <1>1, <2>1, ListsEnd DEF Ids
    <3> QED  BY <1>1, <3>1, ListEnds
  <2> QED  BY <1>1, <2>1, Nexts
<1>6. \A b \in I \cup F : em[b] = dk[b]
  BY <1>2, <1>5 DEF MkdirWrites
<1>7. em[new] = DirBlock(name) /\ em[0] = SuperBlock(s2) /\ em[1] = MapBlock(used \cup {new})
  BY DEF MkdirWrites
<1>8. Listed(em, s2) = D \cup {new}
  <2> DEFINE t == <<new>>
  <2>1. t[1] = new /\ Len(t) = 1 /\ IsLinked(em, t) /\ {t[k] : k \in 1 .. Len(t)} = {new}
    <3>1. Next_of(em[new]) = 0
      BY <1>3, <1>7 DEF Next_of
    <3>2. t \in Seq(Ids) /\ Len(t) = 1 /\ t[1] = new
      BY <1>1
    <3> HIDE DEF t
    <3>3. 1 .. Len(t) = {1} /\ 1 .. Len(t) - 1 = {}
      BY <3>2
    <3>4. {t[k] : k \in 1 .. Len(t)} = {new}
      BY <3>2, <3>3
    <3>5. IsLinked(em, t)
      BY <3>1, <3>2, <3>3 DEF IsLinked
    <3> QED  BY <3>2, <3>4, <3>5
  <2> HIDE DEF t
  <2>2. CASE s = 0
    <3>1. D = {} /\ s2 = new
      BY <1>1, <2>2, ListedIds DEF MkdirWrites
    <3>2. Listed(em, t[1]) = {t[k] : k \in 1 .. Len(t)}
      BY <1>1, <2>1, NewListing
    <3> QED  BY <2>1, <3>1, <3>2
  <2>3. CASE s # 0
    <3>1. s \in Ids /\ OneWay(dk, s) /\ s2 = s
      BY <1>1, <2>3, ListsEnd DEF Ids, MkdirWrites
    <3>2. \A j \in 1 .. Len(t) : t[j] \notin D
      <4>1. 1 .. Len(t) = {1}
        BY <2>1
      <4> QED  BY <1>2, <2>1, <4>1
    <3>3. \A b \in D : Next_of(em[b]) = IF b = LastOf(dk, s) THEN t[1] ELSE Next_of(dk[b])
      <4>1. \A b \in D : Next_of(em[b]) = em[b].next_dir /\ Next_of(dk[b]) = dk[b].next_dir
        BY <1>3, <1>4 DEF Next_of
      <4> QED  BY <1>4, <2>1, <2>3, <4>1
    <3> HIDE DEF last
    <3>4. Listed(em, s) = D \cup {t[k] : k \in 1 .. Len(t)}
      BY <1>1, <2>1, <3>1, <3>2, <3>3, AppendedListing
    <3> QED  BY <2>1, <3>1, <3>4
  <2> QED  BY <2>2, <2>3
<1>9. InodesIn(em, new) = {} /\ \A d \in D : InodesIn(em, d) = InodesIn(dk, d)
  BY <1>3, <1>4, <1>7 DEF InodesIn
<1>10. InodesUnder(em, s2) = I
  BY <1>8, <1>9 DEF InodesUnder
<1>11. \A n \in I : FramesIn(em, n) = FramesIn(dk, n) /\ IsFile(em, n)
  BY <1>1, <1>6, FilesKept
<1>12. FramesUnder(em, s2) = F
  BY <1>10, <1>11 DEF FramesUnder
<1>13. OwnedUnder(em, s2) = OwnedUnder(dk, s) \cup {new}
  <2>1. \A f \in F : ContentsIn(em, f) = ContentsIn(dk, f)
    BY <1>6 DEF ContentsIn
  <2> QED  BY <1>8, <1>10, <1>12, <2>1 DEF OwnedUnder
<1>14. Shape(em, s2)
  <2>1. em[new].kind = "dir"
    BY <1>3, <1>7
  <2>2. \A d \in D : InodesIn(em, d) \subseteq I
    BY <1>9 DEF InodesUnder
  <2> QED  BY <1>4, <1>8, <1>9, <1>11, <2>1, <2>2 DEF Shape
<1>15. HeldOnce(em, s2)
  <2> DEFINE N == {<<IF s = 0 THEN 0 ELSE last, -1, new>>}
  <2>1. ASSUME NEW b, NEW i, NEW x, Link(em, s2, b, i, x)
        PROVE  Link(dk, s, b, i, x) \/ <<b, i, x>> \in N
    <3>1. CASE b = 0 /\ i = -1 /\ x = s2
      <4>1. x = s \/ (s = 0 /\ x = new)
        BY <3>1 DEF MkdirWrites
      <4> QED  BY <2>1, <3>1, <4>1 DEF Link
    <3>2. CASE b \in D
      <4>1. CASE i = -1 /\ x = em[b].next_dir
        BY <1>4, <2>1, <3>2, <4>1 DEF Link
      <4>2. CASE i \in InodeSlots /\ x = em[b].inodes[i]
        BY <1>4, <2>1, <3>2, <4>2 DEF Link
      <4>3. b # 0 /\ b \notin I /\ b \notin F
        BY <1>2, <3>2
      <4> QED  BY <1>10, <1>12, <2>1, <3>2, <4>1, <4>2, <4>3 DEF Link
    <3>3. CASE b = new
      <4>1. b # 0 /\ b \notin I /\ b \notin F
        BY <1>1, <1>2, <3>3
      <4>2. x # 0 /\ ((i = -1 /\ x = em[b].next_dir) \/ (i \in InodeSlots /\ x = em[b].inodes[i]))
        BY <1>10, <1>12, <2>1, <4>1 DEF Link
      <4> QED  BY <1>3, <1>7, <3>3, <4>2
    <3>4. CASE b \in I \cup F
      <4>1. b # 0 /\ b \notin Listed(em, s2) /\ em[b] = dk[b]
        BY <1>2, <1>6, <1>8, <3>4
      <4> QED  BY <1>10, <1>12, <2>1, <4>1 DEF Link
    <3> QED  BY <1>8, <1>10, <1>12, <2>1, <3>1, <3>2, <3>3, <3>4 DEF Link
  <2>2. new \notin OwnedUnder(dk, s)
    BY <1>1
  <2>3. \A b, i, x : <<b, i, x>> \in N => x \notin OwnedUnder(dk, s)
    BY <2>2
  <2>4. \A b, i, c, j, x : <<b, i, x>> \in N /\ <<c, j, x>> \in N => b = c /\ i = j
    OBVIOUS
  <2> HIDE DEF N
  <2> QED  BY <1>1, <2>1, <2>3, <2>4, HeldOnceAfter
<1>16. OwnedUnder(em, s2) \subseteq (used \cup {new}) \ {1, 2}
  BY <1>1, <1>13 DEF Refs
<1> QED
  BY <1>4, <1>6, <1>7, <1>8, <1>9, <1>10, <1>12, <1>13, <1>14, <1>15, <1>16 DEF Tree, MkdirDone

(* What is on each block after a call. *)
LEMMA StoredBlocks ==
    ASSUME NEW R, NEW w \in Seq(R), NEW used, Store(w, used)
    PROVE  /\ freemap' = used
           /\ \A b \in BlockIds :
                 disk'[b] = IF b \in freemap \ used THEN FreeBlock
                            ELSE IF b = 1 THEN MapBlock(used) ELSE Put(disk, w)[b]
<1>1. Put(disk, w \o <<At(1, MapBlock(used))>>) =
          [b \in BlockIds |-> IF b = 1 THEN MapBlock(used) ELSE Put(disk, w)[b]]
  BY PutLast
<1> QED  BY <1>1 DEF Store

LEMMA ShortSequences ==
    ASSUME NEW S, NEW p \in S, NEW q \in S
    PROVE  /\ << >> \o <<p>> = <<p>> /\ << >> \in Seq(S) /\ <<p>> \in Seq(S)
           /\ <<p>> \o <<q>> = <<p, q>> /\ <<p, q>> \in Seq(S)
<1>1. << >> \in Seq(S) /\ <<p>> \in Seq(S) /\ <<p, q>> \in Seq(S) /\ <<q>> \in Seq(S)
  OBVIOUS
<1>2. << >> \o <<p>> = <<p>>
  BY <1>1
<1>3. <<p>> \o <<q>> = <<p, q>>
  <2> DEFINE u == <<p>>
             v == <<q>>
             w == <<p, q>>
  <2>1. /\ u \in Seq(S) /\ v \in Seq(S) /\ w \in Seq(S) /\ Len(u) = 1 /\ Len(v) = 1 /\ Len(w) = 2
        /\ u[1] = w[1] /\ v[1] = w[2]
    BY <1>1
  <2> HIDE DEF u, v, w
  <2>2. /\ u \o v \in Seq(S) /\ Len(u \o v) = Len(w) /\ (u \o v)[1] = w[1] /\ (u \o v)[2] = w[2]
    <3>1. /\ u \o v \in Seq(S) /\ Len(u \o v) = Len(u) + Len(v)
          /\ \A j \in 1 .. Len(u) : (u \o v)[j] = u[j]
          /\ \A j \in 1 .. Len(v) : (u \o v)[Len(u) + j] = v[j]
      <4>1. u \in Seq(S) /\ v \in Seq(S)
        BY <2>1
      <4> QED  BY <4>1, Concatenation
    <3> DEFINE r == u \o v
    <3> HIDE DEF r
    <3>2. 1 \in 1 .. Len(u) /\ 1 \in 1 .. Len(v) /\ Len(u) + 1 = 2 /\ Len(u) + Len(v) = Len(w)
      BY <2>1
    <3>3. r[1] = u[1] /\ r[Len(u) + 1] = v[1] /\ r \in Seq(S) /\ Len(r) = Len(w)
      BY <3>1, <3>2 DEF r
    <3>4. r[1] = w[1] /\ r[2] = w[2]
      BY <2>1, <3>2, <3>3
    <3> QED  BY <3>3, <3>4 DEF r
  <2>3. \A k \in 1 .. Len(w) : k = 1 \/ k = 2
    BY <2>1
  <2>4. u \o v = w
    BY <2>1, <2>2, <2>3, SeqEqual
  <2> QED  BY <2>4 DEF u, v, w
<1> QED  BY <1>1, <1>2, <1>3

LEMMA PutOne ==
    ASSUME NEW dk, NEW c, NEW x
    PROVE  \A b \in BlockIds : Put(dk, <<At(c, x)>>)[b] = IF b = c THEN x ELSE dk[b]
<1> DEFINE R == {At(c, x)}
           none == << >>
<1>1. none \o <<At(c, x)>> = <<At(c, x)>> /\ none \in Seq(R)
  BY ShortSequences
<1>2. \A b \in BlockIds : Put(dk, none)[b] = dk[b]
  BY PutNothing
<1> HIDE DEF R, none
<1>3. Put(dk, none \o <<At(c, x)>>) = [b \in BlockIds |-> IF b = c THEN x ELSE Put(dk, none)[b]]
  BY <1>1, PutLast
<1> QED  BY <1>1, <1>2, <1>3

LEMMA PutTwo ==
    ASSUME NEW dk, NEW a, NEW x, NEW c, NEW y
    PROVE  \A b \in BlockIds : Put(dk, <<At(a, x), At(c, y)>>)[b] =
                                   IF b = c THEN y ELSE IF b = a THEN x ELSE dk[b]
<1> DEFINE R == {At(a, x), At(c, y)}
           u == <<At(a, x)>>
<1>1. u \o <<At(c, y)>> = <<At(a, x), At(c, y)>> /\ u \in Seq(R)
  <2>1. At(a, x) \in R /\ At(c, y) \in R
    OBVIOUS
  <2> HIDE DEF R
  <2> QED  BY <2>1, ShortSequences
<1>2. \A b \in BlockIds : Put(dk, u)[b] = IF b = a THEN x ELSE dk[b]
  BY PutOne
<1> HIDE DEF R, u
<1>3. Put(dk, u \o <<At(c, y)>>) = [b \in BlockIds |-> IF b = c THEN y ELSE Put(dk, u)[b]]
  BY <1>1, PutLast
<1> QED  BY <1>1, <1>2, <1>3
-----------------------------------------------------------------------------
(* Each call leaves a tree. *)
LEMMA SameNodes ==
    ASSUME NEW dk, NEW s, NEW used, Typed(dk, s), Tree(dk, s, used), NEW em, Typed(em, s),
           em[0] = dk[0], em[1] = dk[1],
           \A b \in Listed(dk, s) \cup InodesUnder(dk, s) \cup FramesUnder(dk, s) : em[b] = dk[b]
    PROVE  /\ Tree(em, s, used) /\ Listed(em, s) = Listed(dk, s)
           /\ InodesUnder(em, s) = InodesUnder(dk, s) /\ FramesUnder(em, s) = FramesUnder(dk, s)
           /\ OwnedUnder(em, s) = OwnedUnder(dk, s)
<1> DEFINE D == Listed(dk, s)
           I == InodesUnder(dk, s)
           F == FramesUnder(dk, s)
<1>1. /\ LinksAreIds(dk) /\ LinksAreIds(em) /\ s \in BlockIds
      /\ Shape(dk, s) /\ HeldOnce(dk, s) /\ OwnedUnder(dk, s) \subseteq used \ {1, 2}
  BY ListedRefs, NoRef DEF Tree, Typed
<1>2. Listed(em, s) = D
  BY <1>1, SameListing
<1>3. \A d \in D : InodesIn(em, d) = InodesIn(dk, d)
  BY DEF InodesIn
<1>4. InodesUnder(em, s) = I
  BY <1>2, <1>3 DEF InodesUnder
<1>5. \A n \in I : FramesIn(em, n) = FramesIn(dk, n) /\ IsFile(em, n)
  BY <1>1, FilesKept
<1>6. FramesUnder(em, s) = F
  BY <1>4, <1>5 DEF FramesUnder
<1>7. OwnedUnder(em, s) = OwnedUnder(dk, s)
  <2>1. \A f \in F : ContentsIn(em, f) = ContentsIn(dk, f)
    BY DEF ContentsIn
  <2> QED  BY <1>2, <1>4, <1>6, <2>1 DEF OwnedUnder
<1>8. Shape(em, s)
  <2>1. \A d \in D : dk[d].kind = "dir" /\ InodesIn(dk, d) \subseteq I
    BY <1>1, ShapeRefs DEF InodesUnder
  <2> QED  BY <1>2, <1>3, <1>5, <2>1 DEF Shape
<1>9. HeldOnce(em, s)
  <2>1. \A b, i, x : Link(em, s, b, i, x) => Link(dk, s, b, i, x)
    BY <1>2, <1>4, <1>6 DEF Link
  <2> QED  BY <1>1, <2>1 DEF HeldOnce
<1> QED  BY <1>1, <1>2, <1>4, <1>6, <1>7, <1>8, <1>9 DEF Tree

RmdirWrites(dk, used, em, d, before) ==
    /\ em[0] = dk[0] /\ em[1] = MapBlock(used \ {d})
    /\ em[before] = [dk[before] EXCEPT !.next_dir = dk[d].next_dir]
    /\ \A b \in BlockIds \ {0, 1, d, before} : em[b] = dk[b]

RmdirDone(dk, s, used, em, d) ==
    /\ Tree(em, s, used \ {d})
    /\ Listed(em, s) = Listed(dk, s) \ {d}
    /\ OwnedUnder(em, s) = OwnedUnder(dk, s) \ {d}
    /\ \A e \in Listed(dk, s) \ {d} : em[e].inodes = dk[e].inodes /\ InodesIn(em, e) = InodesIn(dk, e)
    /\ \A b \in InodesUnder(dk, s) \cup FramesUnder(dk, s) : em[b] = dk[b]
    /\ InodesUnder(em, s) = InodesUnder(dk, s) /\ FramesUnder(em, s) = FramesUnder(dk, s)
LEMMA RmdirTree ==
    ASSUME NEW dk, NEW s, NEW used, Typed(dk, s), Tree(dk, s, used),
           NEW d \in Listed(dk, s), d # s, InodesIn(dk, d) = {},
           NEW before \in Listed(dk, s), dk[before].next_dir = d,
           NEW em, Typed(em, s), RmdirWrites(dk, used, em, d, before)
    PROVE  RmdirDone(dk, s, used, em, d)
<1> DEFINE D == Listed(dk, s)
           I == InodesUnder(dk, s)
           F == FramesUnder(dk, s)
<1>1. /\ LinksAreIds(dk) /\ LinksAreIds(em) /\ s \in BlockIds
      /\ Shape(dk, s) /\ HeldOnce(dk, s) /\ OwnedUnder(dk, s) \subseteq used \ {1, 2}
      /\ dk[0] = SuperBlock(s)
  BY ListedRefs, NoRef DEF Tree, Typed
<1>2. /\ D \subseteq BlockIds \ {0, 1} /\ I \subseteq BlockIds \ {0, 1} /\ F \subseteq BlockIds \ {0, 1}
      /\ D \cap I = {} /\ D \cap F = {} /\ I \cap F = {}
      /\ \A f \in F : ContentsIn(dk, f) \cap D = {}
  <2>1. D \subseteq Refs \ {0} /\ I \subseteq Refs \ {0} /\ F \subseteq Refs \ {0}
    BY <1>1, ShapeRefs
  <2>2. /\ D \cap I = {} /\ D \cap F = {} /\ I \cap F = {}
        /\ \A f \in F : ContentsIn(dk, f) \cap D = {}
    BY <1>1, PartsApart
  <2> QED  BY <2>1, <2>2, NoRef DEF Refs
<1>3. /\ \A e \in D : dk[e] \in DirRefs /\ dk[e].kind = "dir"
      /\ \A e \in D : Next_of(dk[e]) = dk[e].next_dir
  BY <1>1, ShapeRefs, Nexts
<1>4. s \in Ids /\ OneWay(dk, s) /\ s # 0
  <2>1. s # 0
    BY <1>1, ListedIds
  <2> QED  BY <1>1, <2>1, ListsEnd DEF Ids
<1>5. before # d
  <2>1. CASE before = d
    <3>1. Next_of(dk[d]) = d /\ d # 0
      BY <1>2, <1>3, <2>1
    <3>2. Link(dk, s, d, -1, d)
      BY <1>1, <1>3, <3>1, WhoLinks
    <3> DEFINE S == D \ {d}
    <3>3. s \in S
      BY <1>1, <1>4, ListedIds
    <3>4. ASSUME NEW e \in S, Next_of(dk[e]) # 0 PROVE Next_of(dk[e]) \in S
      <4>1. Next_of(dk[e]) \in D
        BY <1>1, <3>4, ListedIsClosed
      <4>2. Next_of(dk[e]) # d
        BY <1>4, <3>1, <3>4 DEF OneWay
      <4> QED  BY <4>1, <4>2
    <3>5. D \subseteq S
      <4> HIDE DEF S
      <4> QED  BY <1>1, <3>3, <3>4, ListedIsLeast
    <3> QED  BY <3>5
  <2> QED  BY <2>1
<1>6. /\ \A e \in D \ {d} : /\ em[e].kind = "dir" /\ em[e].inodes = dk[e].inodes
                            /\ em[e].next_dir = IF e = before THEN dk[d].next_dir ELSE dk[e].next_dir
  <2>1. em[before] = [dk[before] EXCEPT !.next_dir = dk[d].next_dir] /\ dk[before] \in DirRefs
    BY <1>3 DEF RmdirWrites
  <2>2. ASSUME NEW e \in D \ {d}, e # before PROVE em[e] = dk[e]
    BY <1>2, <2>2 DEF RmdirWrites
  <2> HIDE DEF D
  <2> QED  BY <1>3, <2>1, <2>2 DEF DirRefs
<1>7. \A b \in I \cup F : em[b] = dk[b]
  BY <1>2 DEF RmdirWrites
<1>8. Listed(em, s) = D \ {d}
  <2>1. \A e \in D \ {d} : Next_of(em[e]) = em[e].next_dir
    BY <1>6 DEF Next_of
  <2>2. Next_of(dk[before]) = d /\ Next_of(em[before]) = Next_of(dk[d])
    BY <1>3, <1>5, <1>6, <2>1
  <2>3. \A b \in D \ {before, d} : Next_of(em[b]) = Next_of(dk[b])
    BY <1>3, <1>6, <2>1
  <2> QED  BY <1>1, <1>4, <2>2, <2>3, ListedWithout
<1>9. \A e \in D \ {d} : InodesIn(em, e) = InodesIn(dk, e)
  BY <1>6 DEF InodesIn
<1>10. InodesUnder(em, s) = I
  BY <1>8, <1>9 DEF InodesUnder
<1>11. \A n \in I : FramesIn(em, n) = FramesIn(dk, n) /\ IsFile(em, n)
  BY <1>1, <1>7, FilesKept
<1>12. FramesUnder(em, s) = F
  BY <1>10, <1>11 DEF FramesUnder
<1>13. OwnedUnder(em, s) = OwnedUnder(dk, s) \ {d}
  <2>1. \A f \in F : ContentsIn(em, f) = ContentsIn(dk, f)
    BY <1>7 DEF ContentsIn
  <2>2. d \notin I /\ d \notin F /\ \A f \in F : d \notin ContentsIn(dk, f)
    BY <1>2
  <2> QED  BY <1>8, <1>10, <1>12, <2>1, <2>2 DEF OwnedUnder
<1>14. Shape(em, s)
  <2>1. \A e \in D : InodesIn(dk, e) \subseteq I
    BY DEF InodesUnder
  <2> QED  BY <1>6, <1>8, <1>9, <1>11, <2>1 DEF Shape
<1>15. HeldOnce(em, s)
  <2>1. ASSUME NEW b, NEW i, NEW x, Link(em, s, b, i, x)
        PROVE  \/ Link(dk, s, b, i, x) /\ b # d /\ ~(b = before /\ i = -1)
               \/ b = before /\ i = -1 /\ x = dk[d].next_dir /\ x # 0
    <3>0. x # 0
      BY <2>1 DEF Link
    <3>1. CASE b = 0 /\ i = -1 /\ x = s
      BY <1>2, <3>0, <3>1 DEF Link
    <3>2. CASE b \in D \ {d} /\ i = -1 /\ x = em[b].next_dir
      <4>1. CASE b = before
        BY <1>6, <3>0, <3>2, <4>1
      <4>2. CASE b # before
        BY <1>6, <3>0, <3>2, <4>2 DEF Link
      <4> QED  BY <4>1, <4>2
    <3>3. CASE b \in D \ {d} /\ i \in InodeSlots /\ x = em[b].inodes[i]
      <4>1. i # -1
        BY <3>3, SizesAssumption DEF InodeSlots
      <4> QED  BY <1>6, <3>0, <3>3, <4>1 DEF Link
    <3>4. CASE b \in I /\ i = -1 /\ x = em[b].first_frame
      BY <1>2, <1>7, <3>0, <3>4 DEF Link
    <3>5. CASE b \in F /\ i = -1 /\ x = em[b].next
      BY <1>2, <1>7, <3>0, <3>5 DEF Link
    <3>6. CASE b \in F /\ i \in FramePlaces /\ x = em[b].content[i]
      BY <1>2, <1>7, <3>0, <3>6 DEF Link
    <3> QED  BY <1>8, <1>10, <1>12, <2>1, <3>1, <3>2, <3>3, <3>4, <3>5, <3>6 DEF Link
  <2>2. dk[d].next_dir # 0 => Link(dk, s, d, -1, dk[d].next_dir)
    BY <1>1, WhoLinks
  <2>3. ASSUME NEW b, NEW i, NEW c, NEW j, NEW x, Link(em, s, b, i, x), Link(em, s, c, j, x)
        PROVE  b = c /\ i = j
    <3>1. \A h, k : Link(dk, s, h, k, x) /\ x = dk[d].next_dir => h = d
      <4>1. ASSUME NEW h, NEW k, Link(dk, s, h, k, x), x = dk[d].next_dir PROVE h = d
        <5>1. x # 0
          BY <4>1 DEF Link
        <5>2. Link(dk, s, d, -1, x)
          BY <2>2, <4>1, <5>1
        <5> QED  BY <1>1, <4>1, <5>2 DEF HeldOnce
      <4> QED  BY <4>1
    <3> QED  BY <1>1, <2>1, <2>3, <3>1 DEF HeldOnce
  <2> QED  BY <2>3 DEF HeldOnce
<1>16. OwnedUnder(em, s) \subseteq (used \ {d}) \ {1, 2}
  BY <1>1, <1>13
<1> QED
  BY <1>1, <1>6, <1>7, <1>8, <1>9, <1>10, <1>12, <1>13, <1>14, <1>15, <1>16 DEF Tree, RmdirWrites, RmdirDone

LEMMA NoTree ==
    ASSUME NEW em, Typed(em, 0), NEW used, em[0] = SuperBlock(0), em[1] = MapBlock(used)
    PROVE  Tree(em, 0, used) /\ Listed(em, 0) = {} /\ OwnedUnder(em, 0) = {}
<1>1. Listed(em, 0) = {}
  BY ListedFromNone DEF Typed
<1>2. InodesUnder(em, 0) = {} /\ FramesUnder(em, 0) = {} /\ OwnedUnder(em, 0) = {}
  BY <1>1 DEF InodesUnder, FramesUnder, OwnedUnder
<1>3. \A b, i, x : ~Link(em, 0, b, i, x)
  BY <1>1, <1>2 DEF Link
<1> QED  BY <1>1, <1>2, <1>3 DEF Tree, Shape, HeldOnce

OpenWrites(dk, used, em, d, slot, new, name) ==
    /\ em[0] = dk[0] /\ em[1] = MapBlock(used \cup {new})
    /\ em[d] = [dk[d] EXCEPT !.inodes[slot] = new]
    /\ em[new] = Inode(name)
    /\ \A b \in BlockIds \ {0, 1, d, new} : em[b] = dk[b]

OpenDone(dk, s, used, em, d, new) ==
    /\ Tree(em, s, used \cup {new})
    /\ Listed(em, s) = Listed(dk, s)
    /\ OwnedUnder(em, s) = OwnedUnder(dk, s) \cup {new}
    /\ InodesIn(em, d) = InodesIn(dk, d) \cup {new}
    /\ \A e \in Listed(dk, s) \ {d} : em[e] = dk[e] /\ InodesIn(em, e) = InodesIn(dk, e)
    /\ em[d].dir_name = dk[d].dir_name
    /\ \A b \in InodesUnder(dk, s) \cup FramesUnder(dk, s) : em[b] = dk[b]
    /\ InodesUnder(em, s) = InodesUnder(dk, s) \cup {new}
    /\ FramesUnder(em, s) = FramesUnder(dk, s)
LEMMA OpenTree ==
    ASSUME NEW dk, NEW s, NEW used, Typed(dk, s), Tree(dk, s, used),
           NEW d \in Listed(dk, s), NEW slot \in InodeSlots, dk[d].inodes[slot] = 0,
           NEW new \in Refs \ {0}, new \notin used, NEW name \in FileNames,
           NEW em, Typed(em, s), OpenWrites(dk, used, em, d, slot, new, name)
    PROVE  OpenDone(dk, s, used, em, d, new)
<1> DEFINE D == Listed(dk, s)
           I == InodesUnder(dk, s)
           F == FramesUnder(dk, s)
<1>1. /\ LinksAreIds(dk) /\ LinksAreIds(em) /\ s \in BlockIds
      /\ Shape(dk, s) /\ HeldOnce(dk, s) /\ OwnedUnder(dk, s) \subseteq used \ {1, 2}
      /\ dk[0] = SuperBlock(s) /\ new # 0
  BY ListedRefs, NoRef DEF Tree, Typed
<1>2. /\ D \subseteq BlockIds \ {0, 1, new} /\ I \subseteq BlockIds \ {0, 1, new}
      /\ F \subseteq BlockIds \ {0, 1, new}
      /\ D \cap I = {} /\ D \cap F = {} /\ I \cap F = {}
  <2>1. D \subseteq Refs \ {0} /\ I \subseteq Refs \ {0} /\ F \subseteq Refs \ {0}
    BY <1>1, ShapeRefs
  <2>2. D \cap I = {} /\ D \cap F = {} /\ I \cap F = {}
    BY <1>1, PartsApart
  <2>3. new \notin D \cup I \cup F
    BY <1>1 DEF OwnedUnder
  <2> QED  BY <2>1, <2>2, <2>3, NoRef DEF Refs
<1>3. \A e \in D : dk[e] \in DirRefs /\ dk[e].kind = "dir"
  BY <1>1, ShapeRefs
<1>4. /\ em[d].kind = "dir" /\ em[d].next_dir = dk[d].next_dir /\ em[d].dir_name = dk[d].dir_name
      /\ \A i \in InodeSlots : em[d].inodes[i] = IF i = slot THEN new ELSE dk[d].inodes[i]
  <2> DEFINE a == [dk[d].inodes EXCEPT ![slot] = new]
  <2>1. em[d] = [dk[d] EXCEPT !.inodes = a] /\ dk[d] \in DirRefs
    BY <1>3 DEF OpenWrites, DirRefs
  <2>2. \A i \in InodeSlots : a[i] = IF i = slot THEN new ELSE dk[d].inodes[i]
    BY <2>1 DEF DirRefs
  <2> HIDE DEF a
  <2>3. em[d].inodes = a /\ em[d].kind = "dir" /\ em[d].next_dir = dk[d].next_dir
        /\ em[d].dir_name = dk[d].dir_name
    BY <2>1 DEF DirRefs
  <2> QED  BY <2>2, <2>3
<1>5. /\ \A e \in D \ {d} : em[e] = dk[e]
      /\ \A b \in I \cup F : em[b] = dk[b]
  BY <1>2 DEF OpenWrites
<1>6. Listed(em, s) = D
  <2>1. \A e \in D : Next_of(em[e]) = Next_of(dk[e])
    BY <1>3, <1>4, <1>5 DEF Next_of
  <2> QED  BY <1>1, <2>1, SameListing
<1>7. InodesIn(em, d) = InodesIn(dk, d) \cup {new}
  <2>1. ASSUME NEW x \in InodesIn(em, d) PROVE x \in InodesIn(dk, d) \cup {new}
    BY <1>4, <2>1 DEF InodesIn
  <2>2. ASSUME NEW x \in InodesIn(dk, d) PROVE x \in InodesIn(em, d)
    <3>1. PICK i \in InodeSlots : x = dk[d].inodes[i] /\ x # 0
      BY <2>2 DEF InodesIn
    <3>2. x = em[d].inodes[i]
      BY <1>4, <3>1
    <3> QED  BY <3>1, <3>2 DEF InodesIn
  <2>3. new \in InodesIn(em, d)
    <3>1. new = em[d].inodes[slot]
      BY <1>4
    <3> QED  BY <1>1, <3>1 DEF InodesIn
  <2> QED  BY <2>1, <2>2, <2>3
<1>8. \A e \in D \ {d} : InodesIn(em, e) = InodesIn(dk, e)
  BY <1>5 DEF InodesIn
<1>9. InodesUnder(em, s) = I \cup {new}
  BY <1>6, <1>7, <1>8 DEF InodesUnder
<1>10. \A n \in I : FramesIn(em, n) = FramesIn(dk, n) /\ IsFile(em, n)
  BY <1>1, <1>5, FilesKept
<1>11. em[new] = Inode(name) /\ FramesIn(em, new) = {} /\ IsFile(em, new)
  <2>1. em[new] = Inode(name)
    BY DEF OpenWrites
  <2>2. FramesIn(em, new) = {}
    <3>1. em[new].first_frame = 0
      BY <2>1 DEF Inode
    <3> QED  BY <3>1, ListedFromNone DEF FramesIn, Typed
  <2>3. FrameSize * Cardinality({}) = 0
    BY FS_EmptySet, SizesAssumption DEF FrameSize
  <2> QED  BY <2>1, <2>2, <2>3 DEF IsFile, Inode
<1>12. FramesUnder(em, s) = F
  BY <1>9, <1>10, <1>11 DEF FramesUnder
<1>13. OwnedUnder(em, s) = OwnedUnder(dk, s) \cup {new}
  <2>1. \A f \in F : ContentsIn(em, f) = ContentsIn(dk, f)
    BY <1>5 DEF ContentsIn
  <2> QED  BY <1>6, <1>9, <1>12, <2>1 DEF OwnedUnder
<1>14. Shape(em, s)
  <2>1. \A e \in D : InodesIn(em, e) \subseteq I \cup {new} /\ em[e].kind = "dir"
    BY <1>3, <1>4, <1>5, <1>6, <1>9 DEF InodesUnder
  <2> QED  BY <1>6, <1>10, <1>11, <2>1 DEF Shape
<1>15. HeldOnce(em, s)
  <2> DEFINE N == {<<d, slot, new>>}
  <2>1. ASSUME NEW b, NEW i, NEW x, Link(em, s, b, i, x)
        PROVE  Link(dk, s, b, i, x) \/ <<b, i, x>> \in N
    <3>0. x # 0
      BY <2>1 DEF Link
    <3>1. CASE b = 0 /\ i = -1 /\ x = s
      BY <3>0, <3>1 DEF Link
    <3>2. CASE b \in D /\ i = -1 /\ x = em[b].next_dir
      BY <1>4, <1>5, <3>0, <3>2 DEF Link
    <3>3. CASE b \in D /\ i \in InodeSlots /\ x = em[b].inodes[i]
      <4>1. CASE b = d /\ i = slot
        BY <1>4, <3>3, <4>1
      <4>2. CASE ~(b = d /\ i = slot)
        BY <1>4, <1>5, <3>0, <3>3, <4>2 DEF Link
      <4> QED  BY <4>1, <4>2
    <3>4. CASE b \in I \cup {new} /\ i = -1 /\ x = em[b].first_frame
      <4>1. b # new
        BY <1>11, <3>0, <3>4 DEF Inode
      <4> QED  BY <1>5, <3>0, <3>4, <4>1 DEF Link
    <3>5. CASE b \in F /\ i = -1 /\ x = em[b].next
      BY <1>5, <3>0, <3>5 DEF Link
    <3>6. CASE b \in F /\ i \in FramePlaces /\ x = em[b].content[i]
      BY <1>5, <3>0, <3>6 DEF Link
    <3> QED  BY <1>6, <1>9, <1>12, <2>1, <3>1, <3>2, <3>3, <3>4, <3>5, <3>6 DEF Link
  <2>2. new \notin OwnedUnder(dk, s)
    BY <1>1
  <2>3. \A b, i, x : <<b, i, x>> \in N => x \notin OwnedUnder(dk, s)
    BY <2>2
  <2>4. \A b, i, c, j, x : <<b, i, x>> \in N /\ <<c, j, x>> \in N => b = c /\ i = j
    OBVIOUS
  <2> HIDE DEF N
  <2> QED  BY <1>1, <2>1, <2>3, <2>4, HeldOnceAfter
<1>16. OwnedUnder(em, s) \subseteq (used \cup {new}) \ {1, 2}
  BY <1>1, <1>13 DEF Refs
<1> QED
  BY <1>1, <1>4, <1>5, <1>6, <1>7, <1>8, <1>9, <1>12, <1>13, <1>14, <1>15, <1>16 DEF Tree, OpenWrites, OpenDone

RemoveWrites(dk, used, em, d, n) ==
    LET freed == FramesIn(dk, n) \cup {n}
    IN  /\ em[0] = dk[0] /\ em[1] = MapBlock(used \ freed)
        /\ em[d] = [dk[d] EXCEPT !.inodes =
                       [i \in InodeSlots |-> IF dk[d].inodes[i] = n THEN 0 ELSE dk[d].inodes[i]]]
        /\ \A b \in BlockIds \ ({0, 1, d} \cup freed) : em[b] = dk[b]

RemoveDone(dk, s, used, em, d, n) ==
    /\ Tree(em, s, used \ (FramesIn(dk, n) \cup {n}))
    /\ Listed(em, s) = Listed(dk, s)
    /\ InodesIn(em, d) = InodesIn(dk, d) \ {n}
    /\ \A e \in Listed(dk, s) \ {d} : em[e] = dk[e] /\ InodesIn(em, e) = InodesIn(dk, e)
    /\ em[d].dir_name = dk[d].dir_name
    /\ InodesUnder(em, s) = InodesUnder(dk, s) \ {n}
    /\ FramesUnder(em, s) = FramesUnder(dk, s) \ FramesIn(dk, n)
    /\ \A b \in (InodesUnder(dk, s) \ {n}) \cup (FramesUnder(dk, s) \ FramesIn(dk, n)) :
          em[b] = dk[b]
    /\ FramesIn(dk, n) = {} => OwnedUnder(em, s) = OwnedUnder(dk, s) \ {n}
LEMMA RemoveTree ==
    ASSUME NEW dk, NEW s, NEW used, Typed(dk, s), Tree(dk, s, used),
           NEW d \in Listed(dk, s), NEW n \in InodesIn(dk, d),
           NEW em, Typed(em, s), RemoveWrites(dk, used, em, d, n)
    PROVE  RemoveDone(dk, s, used, em, d, n)
<1> DEFINE D == Listed(dk, s)
           I == InodesUnder(dk, s)
           F == FramesUnder(dk, s)
           G == FramesIn(dk, n)
<1>1. /\ LinksAreIds(dk) /\ LinksAreIds(em) /\ s \in BlockIds
      /\ Shape(dk, s) /\ HeldOnce(dk, s) /\ OwnedUnder(dk, s) \subseteq used \ {1, 2}
      /\ dk[0] = SuperBlock(s) /\ n \in I
  BY ListedRefs, NoRef DEF Tree, Typed, InodesUnder
<1>2. /\ D \subseteq BlockIds \ {0, 1} /\ I \subseteq BlockIds \ {0, 1}
      /\ F \subseteq BlockIds \ {0, 1} /\ G \subseteq F
      /\ D \cap I = {} /\ D \cap F = {} /\ I \cap F = {}
      /\ \A f \in F : ContentsIn(dk, f) \cap I = {}
  <2>1. D \subseteq Refs \ {0} /\ I \subseteq Refs \ {0} /\ F \subseteq Refs \ {0}
    BY <1>1, ShapeRefs
  <2>2. /\ D \cap I = {} /\ D \cap F = {} /\ I \cap F = {}
        /\ \A f \in F : ContentsIn(dk, f) \cap I = {}
    BY <1>1, PartsApart
  <2>3. G \subseteq F
    BY <1>1, Nexts
  <2> QED  BY <2>1, <2>2, <2>3, NoRef DEF Refs
<1>3. \A e \in D : dk[e] \in DirRefs /\ dk[e].kind = "dir"
  BY <1>1, ShapeRefs
<1>4. /\ em[d].kind = "dir" /\ em[d].next_dir = dk[d].next_dir /\ em[d].dir_name = dk[d].dir_name
      /\ \A i \in InodeSlots :
            em[d].inodes[i] = IF dk[d].inodes[i] = n THEN 0 ELSE dk[d].inodes[i]
  <2> DEFINE a == [i \in InodeSlots |-> IF dk[d].inodes[i] = n THEN 0 ELSE dk[d].inodes[i]]
  <2>1. em[d] = [dk[d] EXCEPT !.inodes = a] /\ dk[d] \in DirRefs
    BY <1>3 DEF RemoveWrites
  <2>2. \A i \in InodeSlots : a[i] = IF dk[d].inodes[i] = n THEN 0 ELSE dk[d].inodes[i]
    OBVIOUS
  <2> HIDE DEF a
  <2>3. em[d].inodes = a /\ em[d].kind = "dir" /\ em[d].next_dir = dk[d].next_dir
        /\ em[d].dir_name = dk[d].dir_name
    BY <2>1 DEF DirRefs
  <2> QED  BY <2>2, <2>3
<1>5. /\ \A e \in D \ {d} : em[e] = dk[e]
      /\ \A b \in (I \ {n}) \cup (F \ G) : em[b] = dk[b]
  BY <1>1, <1>2 DEF RemoveWrites
<1>6. Listed(em, s) = D
  <2>1. \A e \in D : Next_of(em[e]) = Next_of(dk[e])
    BY <1>3, <1>4, <1>5 DEF Next_of
  <2> QED  BY <1>1, <2>1, SameListing
<1>7. InodesIn(em, d) = InodesIn(dk, d) \ {n}
  <2>1. ASSUME NEW x \in InodesIn(em, d) PROVE x \in InodesIn(dk, d) \ {n}
    BY <1>4, <2>1 DEF InodesIn
  <2>2. ASSUME NEW x \in InodesIn(dk, d) \ {n} PROVE x \in InodesIn(em, d)
    <3>1. PICK i \in InodeSlots : x = dk[d].inodes[i] /\ x # 0
      BY <2>2 DEF InodesIn
    <3>2. x = em[d].inodes[i]
      BY <1>4, <2>2, <3>1
    <3> QED  BY <3>1, <3>2 DEF InodesIn
  <2> QED  BY <2>1, <2>2
<1>8. \A e \in D \ {d} : InodesIn(em, e) = InodesIn(dk, e)
  BY <1>5 DEF InodesIn
<1>9. InodesUnder(em, s) = I \ {n}
  <2>1. ASSUME NEW e \in D \ {d} PROVE n \notin InodesIn(dk, e)
    <3>1. ASSUME n \in InodesIn(dk, e) PROVE FALSE
      <4>1. PICK i \in InodeSlots : n = dk[e].inodes[i] /\ n # 0
        BY <3>1 DEF InodesIn
      <4>2. PICK j \in InodeSlots : n = dk[d].inodes[j]
        BY DEF InodesIn
      <4>3. dk[e].inodes[i] # 0 /\ dk[e].inodes[i] = dk[d].inodes[j]
        BY <4>1, <4>2
      <4>4. e = d
        BY <1>1, <4>3, InodeHeldOnce
      <4> QED  BY <2>1, <4>4
    <3> QED  BY <3>1
  <2> QED  BY <1>6, <1>7, <1>8, <2>1 DEF InodesUnder
<1>10. \A m \in I \ {n} : FramesIn(dk, m) \cap G = {} /\ FramesIn(dk, m) \subseteq F
  BY <1>1, FilesApart, Nexts
<1>11. ASSUME NEW m \in I \ {n} PROVE FramesIn(em, m) = FramesIn(dk, m) /\ IsFile(em, m)
  <2>1. em[m] = dk[m] /\ \A f \in FramesIn(dk, m) : em[f] = dk[f]
    BY <1>5, <1>10
  <2>2. dk[m].first_frame \in BlockIds /\ IsFile(dk, m)
    BY <1>1, Nexts, ShapeRefs
  <2> QED  BY <1>1, <2>1, <2>2, FileKept
<1>12. FramesUnder(em, s) = F \ G
  <2>1. FramesUnder(em, s) = UNION {FramesIn(dk, m) : m \in I \ {n}}
    BY <1>9, <1>11 DEF FramesUnder
  <2>2. F = UNION {FramesIn(dk, m) : m \in I}
    BY DEF FramesUnder
  <2> QED  BY <1>1, <1>10, <2>1, <2>2
<1>13. \A f \in F \ G : ContentsIn(em, f) = ContentsIn(dk, f)
  BY <1>5 DEF ContentsIn
<1>14. OwnedUnder(em, s) \subseteq OwnedUnder(dk, s) \ (G \cup {n})
  <2>1. \A f \in F : ContentsIn(dk, f) \cap (F \cup I) = {}
    BY <1>1, PartsApart
  <2>2. OwnedUnder(em, s) = D \cup (I \ {n}) \cup (F \ G) \cup UNION {ContentsIn(dk, f) : f \in F \ G}
    BY <1>6, <1>9, <1>12, <1>13 DEF OwnedUnder
  <2>3. OwnedUnder(dk, s) = D \cup I \cup F \cup UNION {ContentsIn(dk, f) : f \in F}
    BY DEF OwnedUnder
  <2> HIDE DEF D, I, F, G
  <2> QED  BY <1>1, <1>2, <2>1, <2>2, <2>3
<1>15. ASSUME G = {} PROVE OwnedUnder(em, s) = OwnedUnder(dk, s) \ {n}
  <2>1. n \notin D /\ n \notin F /\ \A f \in F : n \notin ContentsIn(dk, f)
    BY <1>1, <1>2
  <2> QED  BY <1>6, <1>9, <1>12, <1>13, <1>15, <2>1 DEF OwnedUnder
<1>16. Shape(em, s)
  <2>1. \A e \in D : InodesIn(em, e) \subseteq I \ {n} /\ em[e].kind = "dir"
    BY <1>3, <1>4, <1>5, <1>6, <1>9 DEF InodesUnder
  <2> QED  BY <1>6, <1>11, <2>1 DEF Shape
<1>17. HeldOnce(em, s)
  <2>1. ASSUME NEW b, NEW i, NEW x, Link(em, s, b, i, x) PROVE Link(dk, s, b, i, x)
    <3>0. x # 0
      BY <2>1 DEF Link
    <3>1. CASE b = 0 /\ i = -1 /\ x = s
      BY <3>0, <3>1 DEF Link
    <3>2. CASE b \in D /\ i = -1 /\ x = em[b].next_dir
      BY <1>4, <1>5, <3>0, <3>2 DEF Link
    <3>3. CASE b \in D /\ i \in InodeSlots /\ x = em[b].inodes[i]
      BY <1>4, <1>5, <3>0, <3>3 DEF Link
    <3>4. CASE b \in I \ {n} /\ i = -1 /\ x = em[b].first_frame
      BY <1>5, <3>0, <3>4 DEF Link
    <3>5. CASE b \in F \ G /\ i = -1 /\ x = em[b].next
      BY <1>5, <3>0, <3>5 DEF Link
    <3>6. CASE b \in F \ G /\ i \in FramePlaces /\ x = em[b].content[i]
      BY <1>5, <3>0, <3>6 DEF Link
    <3> QED  BY <1>6, <1>9, <1>12, <2>1, <3>1, <3>2, <3>3, <3>4, <3>5, <3>6 DEF Link
  <2> QED  BY <1>1, <2>1 DEF HeldOnce
<1>18. OwnedUnder(em, s) \subseteq (used \ (G \cup {n})) \ {1, 2}
  BY <1>1, <1>14
<1>19. em[0] = SuperBlock(s) /\ em[1] = MapBlock(used \ (G \cup {n}))
  BY <1>1 DEF RemoveWrites
<1>20. Tree(em, s, used \ (G \cup {n}))
  BY <1>16, <1>17, <1>18, <1>19 DEF Tree
<1> QED
  BY <1>4, <1>5, <1>6, <1>7, <1>8, <1>9, <1>12, <1>15, <1>20 DEF RemoveDone

(* A growing file. *)
LEMMA CountDistinct ==
    ASSUME NEW S, NEW t \in Seq(S), \A i, j \in 1 .. Len(t) : t[i] = t[j] => i = j
    PROVE  /\ IsFiniteSet({t[k] : k \in 1 .. Len(t)})
           /\ Cardinality({t[k] : k \in 1 .. Len(t)}) = Len(t)
<1> DEFINE n == Len(t)
           T == {t[k] : k \in 1 .. n}
           f == [k \in 1 .. n |-> t[k]]
<1>1. n \in Nat /\ 1 \in Int /\ n \in Int
  BY LenProperties
<1>2. IsFiniteSet(1 .. n) /\ Cardinality(1 .. n) = n
  <2> HIDE DEF n
  <2>1. IsFiniteSet(1 .. n) /\ Cardinality(1 .. n) = IF 1 <= n THEN n - 1 + 1 ELSE 0
    BY <1>1, FS_Interval
  <2> QED  BY <1>1, <2>1
<1>3. f \in Surjection(1 .. n, T) /\ f \in Injection(1 .. n, T)
  BY DEF Surjection, Injection, IsInjective
<1>4. IsFiniteSet(T) /\ Cardinality(T) <= Cardinality(1 .. n)
      /\ (Cardinality(T) = Cardinality(1 .. n) <=> f \in Injection(1 .. n, T))
  <2> HIDE DEF f, T, n
  <2> QED  BY <1>2, <1>3, FS_Surjection
<1> QED  BY <1>2, <1>3, <1>4

GrowWrites(dk, s, used, em, m, t) ==
    /\ em[0] = dk[0] /\ em[1] = MapBlock(used)
    /\ em[m] = [kind |-> "inode", size |-> dk[m].size + FrameSize * Len(t),
                first_frame |-> IF dk[m].first_frame = 0 THEN t[1] ELSE dk[m].first_frame,
                file_name |-> dk[m].file_name]
    /\ \A k \in 1 .. Len(t) :
          em[t[k]] \in FrameRefs /\ em[t[k]].next = IF k < Len(t) THEN t[k + 1] ELSE 0
    /\ \A b \in (Listed(dk, s) \cup InodesUnder(dk, s) \cup FramesUnder(dk, s)) \ {m} :
          em[b] = IF dk[m].first_frame # 0 /\ b = LastOf(dk, dk[m].first_frame)
                  THEN [dk[b] EXCEPT !.next = t[1]] ELSE dk[b]
NewFrameIds(t, used) ==
    /\ t \in Seq(Refs \ {0}) /\ Len(t) >= 1
    /\ \A k \in 1 .. Len(t) : t[k] \notin used
    /\ \A k, l \in 1 .. Len(t) : t[k] = t[l] => k = l
NewOnes(em, t, used) ==
    /\ NewFrameIds(t, used)
    /\ \A k \in 1 .. Len(t) : \A i \in FramePlaces : em[t[k]].content[i] \notin used \cup {0}
    /\ \A k, l \in 1 .. Len(t) : \A i, j \in FramePlaces :
          em[t[k]].content[i] = em[t[l]].content[j] => k = l /\ i = j
    /\ \A k, l \in 1 .. Len(t) : \A i \in FramePlaces : t[k] # em[t[l]].content[i]
Marked(dk, s, used) == OwnedUnder(dk, s) \subseteq used
FramesOfList(t) == {t[k] : k \in 1 .. Len(t)}
LongerBy(dk, em, m, t) ==
    Listing(em, em[m].first_frame) = Listing(dk, dk[m].first_frame) \o t
NewBlocksIn(em, t) == FramesOfList(t) \cup UNION {ContentsIn(em, f) : f \in FramesOfList(t)}

LEMMA GrownList ==
    ASSUME NEW dk, NEW s, Typed(dk, s), Shape(dk, s), HeldOnce(dk, s), NEW used, NEW used2,
           Marked(dk, s, used), NEW m \in InodesUnder(dk, s), NEW t, NEW em, Typed(em, s),
           GrowWrites(dk, s, used2, em, m, t), NewFrameIds(t, used)
    PROVE  /\ LongerBy(dk, em, m, t)
           /\ FramesIn(em, m) = FramesIn(dk, m) \cup FramesOfList(t)
           /\ dk[m].first_frame # 0 => LastOf(dk, dk[m].first_frame) \in FramesIn(dk, m)
           /\ dk[m].first_frame # 0 => dk[LastOf(dk, dk[m].first_frame)].next = 0
<1> DEFINE first == dk[m].first_frame
           last == LastOf(dk, first)
           F == FramesUnder(dk, s)
<1>1. /\ LinksAreIds(dk) /\ LinksAreIds(em) /\ first \in BlockIds
      /\ FramesIn(dk, m) \subseteq F /\ m \notin F
      /\ \A f \in F : Next_of(dk[f]) = dk[f].next /\ dk[f] \in FrameRefs
  <2>1. LinksAreIds(dk) /\ LinksAreIds(em)
    BY ListedRefs DEF Typed
  <2>2. first \in BlockIds /\ FramesIn(dk, m) \subseteq F /\ \A f \in F : Next_of(dk[f]) = dk[f].next
    BY Nexts
  <2>3. m \notin F
    BY PartsApart
  <2>4. \A f \in F : dk[f] \in FrameRefs
    BY ShapeRefs
  <2> QED  BY <2>1, <2>2, <2>3, <2>4
<1>2. t \in Seq(Ids) /\ Len(t) \in Nat /\ Len(t) >= 1
  <2>1. Refs \ {0} \subseteq Ids
    BY DEF Refs, Ids
  <2> QED  BY <2>1, SeqMonotonic DEF NewFrameIds
<1>3. \A k \in 1 .. Len(t) : Next_of(em[t[k]]) = IF k < Len(t) THEN t[k + 1] ELSE 0
  <2>1. \A k \in 1 .. Len(t) : em[t[k]].kind = "frame"
    BY DEF GrowWrites, FrameRefs
  <2> QED  BY <2>1 DEF GrowWrites, Next_of
<1>4. IsLinked(em, t)
  <2>1. \A j \in 1 .. Len(t) - 1 : Next_of(em[t[j]]) = t[j + 1]
    BY <1>2, <1>3
  <2>2. Next_of(em[t[Len(t)]]) = 0
    BY <1>2, <1>3
  <2> QED  BY <1>2, <2>1, <2>2 DEF IsLinked, NewFrameIds
<1>5. FramesOfList(t) \cap FramesIn(dk, m) = {}
  <2>1. FramesIn(dk, m) \subseteq used
    BY <1>1 DEF OwnedUnder, Marked
  <2> QED  BY <2>1 DEF FramesOfList, NewFrameIds
<1>6. em[m].first_frame = IF first = 0 THEN t[1] ELSE first
  BY DEF GrowWrites
<1>7. CASE first = 0
  <2>1. Listing(dk, first) = << >>
    BY <1>1, <1>7, ListingShape DEF IsWalk
  <2>2. FramesIn(dk, m) = {}
    BY <1>1, <1>7, ListedIds DEF FramesIn
  <2>3. Listing(em, t[1]) = t /\ Listed(em, t[1]) = FramesOfList(t)
    BY <1>1, <1>4, NewListing DEF FramesOfList
  <2>4. << >> \o t = t
    BY <1>2, ConcatEmptySeq
  <2> QED  BY <1>6, <1>7, <2>1, <2>2, <2>3, <2>4 DEF FramesIn, LongerBy
<1>8. CASE first # 0
  <2>1. first \in Ids /\ OneWay(dk, first)
    BY <1>1, <1>8, ListsEnd DEF Ids
  <2>2. last \in FramesIn(dk, m) /\ Next_of(dk[last]) = 0
    BY <1>1, <2>1, ListEnds DEF FramesIn
  <2>3. \A b \in FramesIn(dk, m) : Next_of(em[b]) = IF b = last THEN t[1] ELSE Next_of(dk[b])
    <3>1. ASSUME NEW b \in FramesIn(dk, m) PROVE Next_of(em[b]) = IF b = last THEN t[1] ELSE Next_of(dk[b])
      <4>1. em[b] = IF b = last THEN [dk[b] EXCEPT !.next = t[1]] ELSE dk[b]
        BY <1>1, <1>8 DEF GrowWrites
      <4>2. [dk[b] EXCEPT !.next = t[1]].next = t[1] /\ [dk[b] EXCEPT !.next = t[1]].kind = "frame"
        BY <1>1 DEF FrameRefs
      <4>3. Next_of([dk[b] EXCEPT !.next = t[1]]) = t[1]
        BY <4>2 DEF Next_of
      <4> QED  BY <4>1, <4>3
    <3> QED  BY <3>1
  <2>4. \A j \in 1 .. Len(t) : t[j] \notin FramesIn(dk, m)
    BY <1>5 DEF FramesOfList
  <2> HIDE DEF last
  <2>5. /\ Listing(em, first) = Listing(dk, first) \o t
        /\ Listed(em, first) = Listed(dk, first) \cup {t[k] : k \in 1 .. Len(t)}
    <3> HIDE DEF first
    <3>1. \A b \in Listed(dk, first) : Next_of(em[b]) = IF b = last THEN t[1] ELSE Next_of(dk[b])
      BY <2>3 DEF FramesIn, first
    <3>2. \A j \in 1 .. Len(t) : t[j] \notin Listed(dk, first)
      BY <2>4 DEF FramesIn, first
    <3> QED  BY <1>1, <1>4, <2>1, <3>1, <3>2, AppendedListing DEF last
  <2>6. dk[last].next = 0
    BY <1>1, <2>2
  <2> QED  BY <1>6, <1>8, <2>2, <2>5, <2>6 DEF FramesIn, FramesOfList, last, LongerBy
<1> QED  BY <1>7, <1>8

(* The inode m is whole again, and of the frames only the last one of the  *)
(* file has changed: it leads to the new ones.                             *)
FileGrown(dk, s, em, m, t) ==
    /\ IsFile(em, m)
    /\ \A f \in FramesUnder(dk, s) :
          /\ em[f].content = dk[f].content /\ em[f].kind = "frame"
          /\ em[f].next = IF dk[m].first_frame # 0 /\ f = LastOf(dk, dk[m].first_frame)
                          THEN t[1] ELSE dk[f].next

LEMMA GrownFile ==
    ASSUME NEW dk, NEW s, Typed(dk, s), Shape(dk, s), HeldOnce(dk, s), NEW used, NEW used2,
           Marked(dk, s, used), NEW m \in InodesUnder(dk, s), NEW t, NEW em, Typed(em, s),
           GrowWrites(dk, s, used2, em, m, t), NewOnes(em, t, used)
    PROVE  FileGrown(dk, s, em, m, t)
<1> DEFINE G == FramesIn(dk, m)
           F == FramesUnder(dk, s)
           T == FramesOfList(t)
<1>1. /\ FramesIn(em, m) = G \cup T
      /\ dk[m].first_frame # 0 => LastOf(dk, dk[m].first_frame) \in G
  <2>1. NewFrameIds(t, used)
    BY DEF NewOnes
  <2> QED  BY <2>1, GrownList
<1>2. /\ G \subseteq F /\ m \notin F /\ IsFile(dk, m)
      /\ \A f \in F : /\ dk[f] \in FrameRefs /\ dk[f].kind = "frame"
                      /\ \A i \in FramePlaces : dk[f].content[i] # 0
  BY Nexts, PartsApart, ShapeRefs
<1>3. \A f \in F : /\ em[f].content = dk[f].content /\ em[f].kind = "frame"
                   /\ em[f].next = IF dk[m].first_frame # 0 /\ f = LastOf(dk, dk[m].first_frame)
                                   THEN t[1] ELSE dk[f].next
  <2>1. ASSUME NEW f \in F
        PROVE  em[f] = IF dk[m].first_frame # 0 /\ f = LastOf(dk, dk[m].first_frame)
                       THEN [dk[f] EXCEPT !.next = t[1]] ELSE dk[f]
    BY <1>2 DEF GrowWrites
  <2>2. ASSUME NEW f \in F
        PROVE  /\ [dk[f] EXCEPT !.next = t[1]].content = dk[f].content
               /\ [dk[f] EXCEPT !.next = t[1]].kind = "frame"
               /\ [dk[f] EXCEPT !.next = t[1]].next = t[1]
    BY <1>2 DEF FrameRefs
  <2>3. ASSUME NEW f \in F, dk[m].first_frame # 0 /\ f = LastOf(dk, dk[m].first_frame)
        PROVE  em[f].content = dk[f].content /\ em[f].kind = "frame" /\ em[f].next = t[1]
    <3>1. em[f] = [dk[f] EXCEPT !.next = t[1]]
      BY <2>1, <2>3
    <3> QED  BY <2>2, <3>1
  <2>4. ASSUME NEW f \in F, ~(dk[m].first_frame # 0 /\ f = LastOf(dk, dk[m].first_frame))
        PROVE  em[f] = dk[f] /\ em[f].kind = "frame"
    BY <1>2, <2>1, <2>4
  <2> HIDE DEF F
  <2> QED  BY <2>3, <2>4
<1>4. t \in Seq(Refs \ {0}) /\ Len(t) \in Nat /\ Len(t) >= 1
      /\ \A k, l \in 1 .. Len(t) : t[k] = t[l] => k = l
  BY DEF NewOnes, NewFrameIds
<1>5. IsFiniteSet(T) /\ Cardinality(T) = Len(t)
  BY <1>4, CountDistinct DEF FramesOfList
<1>6. IsFiniteSet(G)
  <2>1. LinksAreIds(dk) /\ dk[m].first_frame \in BlockIds
    BY Nexts
  <2> QED  BY <2>1, ListedIds DEF FramesIn
<1>7. G \cap T = {}
  <2>1. G \subseteq used
    BY <1>2 DEF OwnedUnder, Marked
  <2> QED  BY <2>1 DEF FramesOfList, NewOnes, NewFrameIds
<1>8. Cardinality(G) \in Nat /\ Cardinality(G \cup T) = Cardinality(G) + Len(t)
  <2>1. Cardinality(G \cup T) = Cardinality(G) + Cardinality(T) - Cardinality(G \cap T)
    BY <1>5, <1>6, FS_Union
  <2>2. Cardinality(G \cap T) = 0 /\ Cardinality(G) \in Nat
    BY <1>6, <1>7, FS_EmptySet, FS_CardinalityType
  <2> QED  BY <1>4, <1>5, <2>1, <2>2
<1>9. em[m].size = FrameSize * Cardinality(FramesIn(em, m)) /\ em[m].kind = "inode"
  <2>1. em[m].size = FrameSize * Cardinality(G) + FrameSize * Len(t) /\ em[m].kind = "inode"
    BY <1>2 DEF GrowWrites, IsFile
  <2>2. \A x, y, z \in Nat : x * y + x * z = x * (y + z)
    OBVIOUS
  <2>3. FrameSize \in Nat
    BY SizesAssumption DEF FrameSize
  <2> QED  BY <1>1, <1>4, <1>8, <2>1, <2>2, <2>3
<1>10. \A f \in T : em[f].kind = "frame" /\ \A i \in FramePlaces : em[f].content[i] # 0
  BY DEF GrowWrites, FramesOfList, FrameRefs, NewOnes, NewFrameIds
<1>11. IsFile(em, m)
  BY <1>1, <1>2, <1>3, <1>9, <1>10 DEF IsFile
<1> QED  BY <1>3, <1>11 DEF FileGrown

GrowDone(dk, s, used2, em, m, t) ==
    /\ Tree(em, s, used2)
    /\ Listed(em, s) = Listed(dk, s) /\ InodesUnder(em, s) = InodesUnder(dk, s)
    /\ \A d \in Listed(dk, s) : em[d] = dk[d] /\ InodesIn(em, d) = InodesIn(dk, d)
    /\ \A n \in InodesUnder(dk, s) \ {m} : em[n] = dk[n] /\ FramesIn(em, n) = FramesIn(dk, n)
    /\ FramesUnder(em, s) = FramesUnder(dk, s) \cup FramesOfList(t)
    /\ OwnedUnder(em, s) = OwnedUnder(dk, s) \cup NewBlocksIn(em, t)
LEMMA GrowTree ==
    ASSUME NEW dk, NEW s, NEW used, Typed(dk, s), Tree(dk, s, used), NEW used2,
           NEW m \in InodesUnder(dk, s), NEW t, NEW em, Typed(em, s),
           GrowWrites(dk, s, used2, em, m, t), NewOnes(em, t, used),
           used \cup NewBlocksIn(em, t) \subseteq used2
    PROVE  GrowDone(dk, s, used2, em, m, t)
<1> DEFINE D == Listed(dk, s)
           I == InodesUnder(dk, s)
           F == FramesUnder(dk, s)
           T == FramesOfList(t)
           first == dk[m].first_frame
           last == LastOf(dk, first)
<1>1. /\ LinksAreIds(dk) /\ LinksAreIds(em) /\ s \in BlockIds
      /\ Shape(dk, s) /\ HeldOnce(dk, s) /\ OwnedUnder(dk, s) \subseteq used \ {1, 2}
      /\ Marked(dk, s, used) /\ dk[0] = SuperBlock(s)
  BY ListedRefs, NoRef DEF Tree, Typed, Marked
<1>2. /\ D \cap I = {} /\ D \cap F = {} /\ I \cap F = {} /\ 0 \notin D \cup I \cup F
      /\ FramesIn(dk, m) \subseteq F
      /\ \A n \in I : FramesIn(dk, n) \subseteq F
      /\ \A n \in I \ {m} : FramesIn(dk, n) \cap FramesIn(dk, m) = {}
  BY <1>1, PartsApart, Nexts, FilesApart
<1>3. /\ FramesIn(em, m) = FramesIn(dk, m) \cup T
      /\ first # 0 => last \in FramesIn(dk, m)
      /\ first # 0 => dk[last].next = 0
  <2>1. NewFrameIds(t, used)
    BY DEF NewOnes
  <2> QED  BY <1>1, <2>1, GrownList
<1>4. /\ IsFile(em, m)
      /\ \A f \in F : /\ em[f].content = dk[f].content /\ em[f].kind = "frame"
                      /\ em[f].next = IF first # 0 /\ f = last THEN t[1] ELSE dk[f].next
  <2>1. FileGrown(dk, s, em, m, t)
    <3> HIDE DEF D, I, F, T, first, last
    <3> QED  BY <1>1, GrownFile
  <2> QED  BY <2>1 DEF FileGrown
<1>5. /\ \A d \in D : em[d] = dk[d] /\ d # m
      /\ \A n \in I \ {m} : em[n] = dk[n]
      /\ \A f \in F : f # m /\ (~(first # 0 /\ f = last) => em[f] = dk[f])
  <2>1. \A b \in D \cup (I \ {m}) : b # m /\ ~(first # 0 /\ b = last)
    BY <1>2, <1>3
  <2> HIDE DEF last, first
  <2>2. \A b \in D \cup (I \ {m}) : em[b] = dk[b]
    BY <2>1 DEF GrowWrites, first, last
  <2>3. \A f \in F : f # m
    BY <1>2
  <2>4. ASSUME NEW f \in F, ~(first # 0 /\ f = last) PROVE em[f] = dk[f]
    BY <2>3, <2>4 DEF GrowWrites, first, last
  <2> QED  BY <2>1, <2>2, <2>3, <2>4
<1>6. Listed(em, s) = D
  <2>1. \A d \in D : Next_of(em[d]) = Next_of(dk[d])
    BY <1>5
  <2> QED  BY <1>1, <2>1, SameListing
<1>7. \A d \in D : InodesIn(em, d) = InodesIn(dk, d)
  BY <1>5 DEF InodesIn
<1>8. InodesUnder(em, s) = I
  BY <1>6, <1>7 DEF InodesUnder
<1>9. ASSUME NEW n \in I \ {m} PROVE FramesIn(em, n) = FramesIn(dk, n) /\ IsFile(em, n)
  <2>1. \A f \in FramesIn(dk, n) : em[f] = dk[f]
    <3> HIDE DEF last
    <3> QED  BY <1>2, <1>3, <1>5
  <2>2. dk[n].first_frame \in BlockIds /\ IsFile(dk, n)
    BY <1>1, Nexts, ShapeRefs
  <2> QED  BY <1>1, <1>5, <2>1, <2>2, FileKept
<1>10. FramesUnder(em, s) = F \cup T
  <2>1. FramesUnder(em, s) = UNION {FramesIn(em, n) : n \in I} /\ F = UNION {FramesIn(dk, n) : n \in I}
    BY <1>8 DEF FramesUnder
  <2> HIDE DEF F, T, I, last
  <2>2. \A n \in I : FramesIn(em, n) = IF n = m THEN FramesIn(dk, n) \cup T ELSE FramesIn(dk, n)
    BY <1>3, <1>9
  <2> QED  BY <2>1, <2>2 DEF I
<1>11. \A f \in F : ContentsIn(em, f) = ContentsIn(dk, f)
  BY <1>4 DEF ContentsIn
<1>12. OwnedUnder(em, s) = OwnedUnder(dk, s) \cup NewBlocksIn(em, t)
  <2>1. /\ OwnedUnder(em, s) = D \cup I \cup (F \cup T) \cup UNION {ContentsIn(em, f) : f \in F \cup T}
        /\ OwnedUnder(dk, s) = D \cup I \cup F \cup UNION {ContentsIn(dk, f) : f \in F}
        /\ NewBlocksIn(em, t) = T \cup UNION {ContentsIn(em, f) : f \in T}
    BY <1>6, <1>8, <1>10 DEF OwnedUnder, NewBlocksIn
  <2>2. UNION {ContentsIn(em, f) : f \in F} = UNION {ContentsIn(dk, f) : f \in F}
    BY <1>11
  <2> HIDE DEF D, I, F, T
  <2> QED  BY <2>1, <2>2
<1>13. Shape(em, s)
  <2>1. \A d \in D : dk[d].kind = "dir" /\ InodesIn(dk, d) \subseteq I
    BY <1>1, ShapeRefs DEF InodesUnder
  <2> QED  BY <1>4, <1>5, <1>6, <1>7, <1>9, <2>1 DEF Shape
<1>14. HeldOnce(em, s)
  <2> DEFINE N == {<<IF first = 0 THEN m ELSE last, -1, t[1]>>}
                  \cup {<<t[k], -1, t[k + 1]>> : k \in 1 .. Len(t) - 1}
                  \cup {<<t[p[1]], p[2], em[t[p[1]]].content[p[2]]>> : p \in (1 .. Len(t)) \X FramePlaces}
  <2>1. ASSUME NEW b, NEW i, NEW x, Link(em, s, b, i, x)
        PROVE  Link(dk, s, b, i, x) \/ <<b, i, x>> \in N
    <3>0. x # 0
      BY <2>1 DEF Link
    <3>1. CASE b = 0 /\ i = -1 /\ x = s
      BY <3>0, <3>1 DEF Link
    <3>2. CASE b \in D /\ ((i = -1 /\ x = em[b].next_dir) \/ (i \in InodeSlots /\ x = em[b].inodes[i]))
      BY <1>5, <3>0, <3>2 DEF Link
    <3>3. CASE b \in I /\ i = -1 /\ x = em[b].first_frame
      <4>1. CASE b = m /\ first = 0
        <5>1. x = t[1]
          BY <3>3, <4>1 DEF GrowWrites
        <5> QED  BY <3>3, <4>1, <5>1
      <4>2. CASE b = m /\ first # 0
        <5>1. x = first
          BY <3>3, <4>2 DEF GrowWrites
        <5> QED  BY <3>0, <3>3, <4>2, <5>1 DEF Link
      <4>3. CASE b # m
        BY <1>5, <3>0, <3>3, <4>3 DEF Link
      <4> QED  BY <4>1, <4>2, <4>3
    <3>4. CASE b \in F /\ i = -1 /\ x = em[b].next
      <4>1. CASE first # 0 /\ b = last
        <5>1. x = t[1]
          BY <1>4, <3>4, <4>1
        <5> HIDE DEF last, first
        <5> QED  BY <3>4, <4>1, <5>1
      <4>2. CASE ~(first # 0 /\ b = last)
        <5>1. x = dk[b].next
          BY <1>4, <3>4, <4>2
        <5> QED  BY <3>0, <3>4, <5>1 DEF Link
      <4> QED  BY <4>1, <4>2
    <3>5. CASE b \in F /\ i \in FramePlaces /\ x = em[b].content[i]
      BY <1>4, <3>0, <3>5 DEF Link
    <3>6. CASE b \in T /\ i = -1 /\ x = em[b].next
      <4>1. PICK k \in 1 .. Len(t) : b = t[k]
        BY <3>6 DEF FramesOfList
      <4>2. x = IF k < Len(t) THEN t[k + 1] ELSE 0
        BY <3>6, <4>1 DEF GrowWrites
      <4>3. k \in 1 .. Len(t) - 1 /\ x = t[k + 1]
        BY <3>0, <4>2 DEF NewOnes, NewFrameIds
      <4>4. <<t[k], -1, t[k + 1]>> \in {<<t[l], -1, t[l + 1]>> : l \in 1 .. Len(t) - 1}
        BY <4>3
      <4>5. <<b, i, x>> = <<t[k], -1, t[k + 1]>>
        BY <3>6, <4>1, <4>3
      <4> QED  BY <4>4, <4>5
    <3>7. CASE b \in T /\ i \in FramePlaces /\ x = em[b].content[i]
      <4>1. PICK k \in 1 .. Len(t) : b = t[k]
        BY <3>7 DEF FramesOfList
      <4>2. <<k, i>> \in (1 .. Len(t)) \X FramePlaces /\ <<k, i>>[1] = k /\ <<k, i>>[2] = i
        BY <3>7
      <4>3. <<t[k], i, em[t[k]].content[i]>> \in
                {<<t[p[1]], p[2], em[t[p[1]]].content[p[2]]>> : p \in (1 .. Len(t)) \X FramePlaces}
        BY <4>2
      <4>4. <<b, i, x>> = <<t[k], i, em[t[k]].content[i]>>
        BY <3>7, <4>1
      <4> QED  BY <4>3, <4>4
    <3> HIDE DEF N, D, I, F, T
    <3>8. (b = 0 /\ i = -1 /\ x = s)
            \/ (b \in D /\ ((i = -1 /\ x = em[b].next_dir) \/ (i \in InodeSlots /\ x = em[b].inodes[i])))
            \/ (b \in I /\ i = -1 /\ x = em[b].first_frame)
            \/ (b \in F \cup T /\ i = -1 /\ x = em[b].next)
            \/ (b \in F \cup T /\ i \in FramePlaces /\ x = em[b].content[i])
      BY <1>6, <1>8, <1>10, <2>1 DEF Link
    <3> QED  BY <3>1, <3>2, <3>3, <3>4, <3>5, <3>6, <3>7, <3>8
  <2> DEFINE Fresh(b, i, x) ==
               \/ b = (IF first = 0 THEN m ELSE last) /\ i = -1 /\ x = t[1]
               \/ \E k \in 1 .. Len(t) - 1 : b = t[k] /\ i = -1 /\ x = t[k + 1]
               \/ \E k \in 1 .. Len(t) : i \in FramePlaces /\ b = t[k] /\ x = em[t[k]].content[i]
  <2>2. ASSUME NEW b, NEW i, NEW x, <<b, i, x>> \in N PROVE Fresh(b, i, x)
    <3>1. CASE <<b, i, x>> = <<IF first = 0 THEN m ELSE last, -1, t[1]>>
      <4> HIDE DEF first, last
      <4> QED  BY <3>1
    <3>2. CASE <<b, i, x>> \in {<<t[k], -1, t[k + 1]>> : k \in 1 .. Len(t) - 1}
      BY <3>2
    <3>3. CASE <<b, i, x>> \in
                 {<<t[p[1]], p[2], em[t[p[1]]].content[p[2]]>> : p \in (1 .. Len(t)) \X FramePlaces}
      <4>1. PICK p \in (1 .. Len(t)) \X FramePlaces :
               <<b, i, x>> = <<t[p[1]], p[2], em[t[p[1]]].content[p[2]]>>
        BY <3>3
      <4>2. p[1] \in 1 .. Len(t) /\ p[2] \in FramePlaces /\ b = t[p[1]] /\ i = p[2]
            /\ x = em[t[p[1]]].content[p[2]]
        BY <4>1
      <4> QED  BY <4>2
    <3> QED  BY <2>2, <3>1, <3>2, <3>3
  <2> HIDE DEF N, first, last
  <2>3. Len(t) \in Nat /\ Len(t) >= 1
    BY DEF NewOnes, NewFrameIds
  <2>4. ASSUME NEW b, NEW i, NEW x, <<b, i, x>> \in N PROVE x \notin OwnedUnder(dk, s)
    <3>1. x \notin used
      <4>1. Fresh(b, i, x)
        BY <2>2, <2>4
      <4>2. CASE x = t[1]
        BY <2>3, <4>2 DEF NewOnes, NewFrameIds
      <4>3. ASSUME NEW k \in 1 .. Len(t) - 1, x = t[k + 1] PROVE x \notin used
        <5>1. k + 1 \in 1 .. Len(t)
          BY <2>3
        <5> QED  BY <4>3, <5>1 DEF NewOnes, NewFrameIds
      <4>4. ASSUME NEW k \in 1 .. Len(t), i \in FramePlaces, x = em[t[k]].content[i] PROVE x \notin used
        BY <4>4 DEF NewOnes, NewFrameIds
      <4> QED  BY <4>1, <4>2, <4>3, <4>4
    <3> QED  BY <1>1, <3>1
  <2>5. ASSUME NEW b, NEW i, NEW c, NEW j, NEW x, <<b, i, x>> \in N, <<c, j, x>> \in N
        PROVE  b = c /\ i = j
    <3>1. Fresh(b, i, x) /\ Fresh(c, j, x)
      BY <2>2, <2>5
    <3>2. \A k \in 1 .. Len(t) - 1 : k \in 1 .. Len(t) /\ k + 1 \in 1 .. Len(t) /\ k + 1 # 1
      BY <2>3
    <3>3. 1 \in 1 .. Len(t)
      BY <2>3
    <3>4. /\ \A k, l \in 1 .. Len(t) : t[k] = t[l] => k = l
          /\ \A k, l \in 1 .. Len(t) : \A h, g \in FramePlaces :
                em[t[k]].content[h] = em[t[l]].content[g] => k = l /\ h = g
          /\ \A k, l \in 1 .. Len(t) : \A h \in FramePlaces : t[k] # em[t[l]].content[h]
      BY DEF NewOnes, NewFrameIds
    <3>5. \A k, l \in 1 .. Len(t) - 1 : t[k + 1] = t[l + 1] => k = l
      BY <3>2, <3>4
    <3>6. \A k \in 1 .. Len(t) - 1 : t[k + 1] # t[1]
      BY <3>2, <3>3, <3>4
    <3>7. \A k \in 1 .. Len(t) - 1 : \A l \in 1 .. Len(t) : \A h \in FramePlaces :
             t[k + 1] # em[t[l]].content[h]
      BY <3>2, <3>4
    <3>8. \A l \in 1 .. Len(t) : \A h \in FramePlaces : t[1] # em[t[l]].content[h]
      BY <3>3, <3>4
    <3> QED  BY <3>1, <3>4, <3>5, <3>6, <3>7, <3>8
  <2> HIDE DEF Fresh
  <2> QED  BY <1>1, <2>1, <2>4, <2>5, HeldOnceAfter
<1>15. OwnedUnder(em, s) \subseteq used2 \ {1, 2}
  <2>1. NewBlocksIn(em, t) \subseteq Refs
    <3>1. T \subseteq Refs
      BY DEF FramesOfList, NewOnes, NewFrameIds
    <3>2. \A f \in T : ContentsIn(em, f) \subseteq Refs
      BY DEF FramesOfList, GrowWrites, FrameRefs, ContentsIn
    <3> QED  BY <3>1, <3>2 DEF NewBlocksIn
  <2>2. OwnedUnder(dk, s) \subseteq used2 \ {1, 2} /\ NewBlocksIn(em, t) \subseteq used2
    BY <1>1
  <2> QED  BY <1>12, <2>1, <2>2 DEF Refs
<1>16. em[0] = SuperBlock(s) /\ em[1] = MapBlock(used2)
  BY <1>1 DEF GrowWrites
<1>17. Tree(em, s, used2)
  BY <1>13, <1>14, <1>15, <1>16 DEF Tree
<1> QED
  BY <1>5, <1>6, <1>7, <1>8, <1>9, <1>10, <1>12, <1>17 DEF GrowDone

-----------------------------------------------------------------------------
(* What each call does to the tree, to the blocks nothing leads to and to  *)
(* the files of the other descriptors.                                     *)
LEMMA TreeBefore ==
    ASSUME TypeInv, Intact
    PROVE  /\ Typed(disk, sb) /\ Tree(disk, sb, freemap)
           /\ Dirs = Listed(disk, sb) /\ Inodes = InodesUnder(disk, sb)
           /\ Owned = OwnedUnder(disk, sb)
           /\ \A d : InodesOf(d) = InodesIn(disk, d)
           /\ \A n : FramesOf(n) = FramesIn(disk, n)
           /\ Dirs \subseteq freemap /\ Inodes \subseteq freemap
           /\ Dirs \subseteq Refs \ {0} /\ Inodes \subseteq Refs \ {0}
<1>1. Typed(disk, sb)
  BY DEF Typed, TypeInv
<1>2. /\ Tree(disk, sb, freemap)
      /\ Dirs = Listed(disk, sb) /\ Inodes = InodesUnder(disk, sb)
      /\ Owned = OwnedUnder(disk, sb)
      /\ \A d : InodesOf(d) = InodesIn(disk, d)
      /\ \A n : FramesOf(n) = FramesIn(disk, n)
  BY <1>1, IntactIsTree
<1>3. Dirs \subseteq freemap /\ Inodes \subseteq freemap
  BY <1>2 DEF Tree, OwnedUnder
<1>4. Dirs \subseteq Refs \ {0} /\ Inodes \subseteq Refs \ {0}
  BY <1>1, <1>2, ShapeRefs DEF Tree
<1> QED  BY <1>1, <1>2, <1>3, <1>4

LEMMA TreeAfter ==
    ASSUME TypeInv'
    PROVE  /\ Typed(disk', sb') /\ (Intact' <=> Tree(disk', sb', freemap'))
           /\ Dirs' = Listed(disk', sb') /\ Inodes' = InodesUnder(disk', sb')
           /\ Intact' => Owned' = OwnedUnder(disk', sb')
           /\ \A d : InodesOf(d)' = InodesIn(disk', d)
           /\ \A n : FramesOf(n)' = FramesIn(disk', n)
<1>1. Typed(disk', sb')
  BY DEF Typed, TypeInv
<1> QED  BY <1>1, IntactIsTreeAfter

LEMMA NoBlockLeft ==
    ASSUME TypeInv, NEW n \in Nat, Cardinality(FreeBlocks) < n
    PROVE  UsedAfter(n) = Ids
<1>1. \A b \in FreeBlocks : \E k \in 1 .. n : Allocated(k) = b
  BY AllocatedBlocks
<1>2. FreeBlocks = Ids \ freemap
  BY DEF FreeBlocks, Ids
<1>3. UsedAfter(n) \subseteq Ids
  BY UsedRefs
<1>4. ASSUME NEW b \in Ids PROVE b \in UsedAfter(n)
  <2>1. CASE b \in freemap
    BY <2>1 DEF UsedAfter
  <2>2. CASE b \notin freemap
    <3>1. PICK k \in 1 .. n : Allocated(k) = b
      BY <1>1, <1>2, <2>2
    <3>2. b # 0
      BY DEF Ids
    <3> QED  BY <3>1, <3>2 DEF UsedAfter
  <2> QED  BY <2>1, <2>2
<1> QED  BY <1>3, <1>4

LEMMA OneBlock ==
    ASSUME TypeInv
    PROVE  /\ Allocated(1) \in Refs
           /\ Allocated(1) = 0 => UsedAfter(1) = Ids /\ freemap = Ids
           /\ Allocated(1) # 0 => /\ UsedAfter(1) = freemap \cup {Allocated(1)}
                                  /\ Allocated(1) \notin freemap
<1>1. Allocated(1) \in Refs /\ (Allocated(1) # 0 => Allocated(1) \in FreeBlocks)
  BY AllocatedRefs DEF TypeInv
<1>2. UsedAfter(1) = freemap \cup ({Allocated(1)} \ {0})
  <2>1. 1 .. 1 = {1}
    OBVIOUS
  <2> QED  BY <2>1 DEF UsedAfter
<1>3. ASSUME Allocated(1) = 0 PROVE UsedAfter(1) = Ids
  <2>1. Cardinality(FreeBlocks) \in Nat /\ (1 <= Cardinality(FreeBlocks) => Allocated(1) \in FreeBlocks)
    BY AllocatedBlocks
  <2>2. 0 \notin FreeBlocks
    BY DEF FreeBlocks
  <2> QED  BY <1>3, <2>1, <2>2, NoBlockLeft
<1>4. Allocated(1) # 0 => Allocated(1) \notin freemap
  BY <1>1 DEF FreeBlocks
<1> QED  BY <1>1, <1>2, <1>3, <1>4

KeepsFile(d, n) == d \in Dirs' /\ n \in InodesOf(d)' /\ disk'[n] = disk[n]
KeepsFiles == \A d \in Dirs : \A n \in InodesOf(d) : KeepsFile(d, n)

LEMMA UnchangedKeeps ==
    ASSUME UNCHANGED <<disk, sb, freemap>>
    PROVE  KeepsFiles /\ Leaked' = Leaked /\ (Intact' <=> Intact)
  BY SameTree DEF KeepsFiles, KeepsFile

(* The new directory, and what becomes of the tree with it. *)
MkdirMade(new, name) ==
    /\ MkdirWrites(disk, sb, freemap, disk', sb', new, name)
    /\ MkdirDone(disk, sb, freemap, disk', sb', new)
    /\ new \notin freemap

LEMMA MkdirStep ==
    ASSUME TypeInv, Intact, ~broken, NEW name \in DirNames, sfs_mkdir(name)
    PROVE  /\ fdtable' = fdtable /\ result'.op = "mkdir"
           /\ broken' => freemap' = Ids /\ freemap = Ids
           /\ ~broken' /\ disk' # disk => Leaked' \subseteq Leaked
           /\ ~broken' => KeepsFiles
           /\ DirOf(name) = 0 /\ freemap # Ids => \E new : MkdirMade(new, name)
<1>0. TypeInv'
  BY MkdirTyped
<1>1. fdtable' = fdtable /\ result'.op = "mkdir"
  BY DEF sfs_mkdir, Return
<1>2. CASE DirOf(name) # 0
  <2>1. UNCHANGED <<disk, sb, freemap, broken>>
    BY <1>2 DEF sfs_mkdir
  <2> QED  BY <1>1, <1>2, <2>1, UnchangedKeeps
<1>3. CASE DirOf(name) = 0
  <2> DEFINE new == Allocated(1)
             last == LastOf(disk, sb)
             used == UsedAfter(1)
             linked == [disk[last] EXCEPT !.next_dir = new]
             w1 == <<At(new, DirBlock(name)), At(0, SuperBlock(new))>>
             w2 == <<At(last, linked), At(new, DirBlock(name))>>
             w == IF sb = 0 THEN w1 ELSE w2
  <2>1. Store(w, used) /\ sb' = (IF sb = 0 THEN new ELSE sb) /\ broken' = ~Intact'
    BY <1>3 DEF sfs_mkdir, Follow
  <2>2. /\ new \in Refs /\ (new = 0 => used = Ids /\ freemap = Ids)
        /\ new # 0 => used = freemap \cup {new} /\ new \notin freemap
        /\ freemap \subseteq used
    BY OneBlock DEF UsedAfter
  <2>3. /\ Typed(disk, sb) /\ Tree(disk, sb, freemap) /\ Dirs = Listed(disk, sb)
        /\ Inodes = InodesUnder(disk, sb) /\ Owned = OwnedUnder(disk, sb)
        /\ \A d : InodesOf(d) = InodesIn(disk, d)
        /\ disk[0] = SuperBlock(sb) /\ disk[1] = MapBlock(freemap) /\ disk \in [BlockIds -> BlockRefs]
    BY TreeBefore DEF Tree, TypeInv
  <2>4. /\ Typed(disk', sb') /\ (Intact' <=> Tree(disk', sb', freemap'))
        /\ Dirs' = Listed(disk', sb') /\ \A d : InodesOf(d)' = InodesIn(disk', d)
        /\ Intact' => Owned' = OwnedUnder(disk', sb')
        /\ disk' \in [BlockIds -> BlockRefs]
    BY <1>0, TreeAfter DEF TypeInv
  <2>5. w \in Seq({At(new, DirBlock(name)), At(0, SuperBlock(new)), At(last, linked)})
    <3> DEFINE R == {At(new, DirBlock(name)), At(0, SuperBlock(new)), At(last, linked)}
    <3>1. At(new, DirBlock(name)) \in R /\ At(0, SuperBlock(new)) \in R /\ At(last, linked) \in R
      OBVIOUS
    <3> HIDE DEF R
    <3>2. w1 \in Seq(R) /\ w2 \in Seq(R)
      BY <3>1, ShortSequences
    <3> QED  BY <3>2 DEF R
  <2> HIDE DEF linked
  <2>6. \A b \in BlockIds : Put(disk, w)[b] =
           IF sb = 0 THEN (IF b = 0 THEN SuperBlock(new) ELSE IF b = new THEN DirBlock(name) ELSE disk[b])
           ELSE (IF b = new THEN DirBlock(name) ELSE IF b = last THEN linked ELSE disk[b])
    <3> HIDE DEF new, last
    <3>1. \A b \in BlockIds : Put(disk, w1)[b] =
             IF b = 0 THEN SuperBlock(new) ELSE IF b = new THEN DirBlock(name) ELSE disk[b]
      BY PutTwo
    <3>2. \A b \in BlockIds : Put(disk, w2)[b] =
             IF b = new THEN DirBlock(name) ELSE IF b = last THEN linked ELSE disk[b]
      BY PutTwo
    <3> QED  BY <3>1, <3>2
  <2> HIDE DEF w, w1, w2, new, last, used
  <2>7. freemap' = used /\ \A b \in BlockIds : disk'[b] =
           IF b = 1 THEN MapBlock(used)
           ELSE IF sb = 0 THEN (IF b = 0 THEN SuperBlock(new) ELSE IF b = new THEN DirBlock(name) ELSE disk[b])
           ELSE (IF b = new THEN DirBlock(name) ELSE IF b = last THEN linked ELSE disk[b])
    <3>1. freemap' = used /\ \A b \in BlockIds :
             disk'[b] = IF b \in freemap \ used THEN FreeBlock
                        ELSE IF b = 1 THEN MapBlock(used) ELSE Put(disk, w)[b]
      BY <2>1, <2>5, StoredBlocks
    <3> QED  BY <2>2, <2>6, <3>1
  <2>8. 0 \in BlockIds /\ 1 \in BlockIds /\ new # 1
    BY <2>2, NoRef DEF Refs
  <2>9. CASE new = 0
    <3>1. freemap' = Ids /\ freemap = Ids /\ used = Ids
      BY <2>2, <2>7, <2>9
    <3>2. CASE sb = 0
      <4>1. \A b \in BlockIds : disk'[b] = disk[b]
        BY <2>3, <2>7, <2>8, <2>9, <3>1, <3>2
      <4>2. disk' = disk /\ sb' = sb /\ freemap' = freemap
        BY <2>1, <2>3, <2>4, <2>9, <3>1, <3>2, <4>1
      <4> QED  BY <1>1, <3>1, <4>2, UnchangedKeeps
    <3>3. CASE sb # 0
      <4>1. disk'[0] = DirBlock(name)
        BY <2>7, <2>8, <2>9, <3>3
      <4>2. DirBlock(name) # SuperBlock(sb')
        <5>1. DirBlock(name).kind = "dir" /\ SuperBlock(sb').kind = "super"
          BY DEF DirBlock, SuperBlock
        <5> QED  BY <5>1
      <4>3. ~Intact'
        BY <2>4, <4>1, <4>2 DEF Tree
      <4> QED  BY <1>1, <2>1, <3>1, <4>3
    <3> QED  BY <3>2, <3>3
  <2>10. CASE new # 0
    <3>1. new \in Refs \ {0} /\ new \notin freemap /\ used = freemap \cup {new}
      BY <2>2, <2>10
    <3>2. MkdirWrites(disk, sb, freemap, disk', sb', new, name)
      <4>1. disk'[1] = MapBlock(freemap \cup {new}) /\ disk'[new] = DirBlock(name)
        BY <2>7, <2>8, <3>1, NoRef
      <4>2. ~(sb # 0 /\ last = 0)
        <5>1. ASSUME sb # 0 PROVE last # 0
          <6>1. sb \in Ids /\ LinksAreIds(disk) /\ OneWay(disk, sb)
            BY <2>3, <5>1, ListsEnd, Nexts DEF Tree, Ids
          <6>2. last \in Listed(disk, sb) /\ Listed(disk, sb) \subseteq Ids
            BY <6>1, ListEnds, ListedIds DEF last, Ids
          <6> QED  BY <6>2 DEF Ids
        <5> QED  BY <5>1
      <4>3. disk'[0] = SuperBlock(sb')
        BY <2>1, <2>3, <2>7, <2>8, <2>10, <4>2
      <4>4. \A b \in BlockIds \ {0, 1, new} :
               disk'[b] = IF sb # 0 /\ b = last THEN [disk[b] EXCEPT !.next_dir = new] ELSE disk[b]
        BY <2>7 DEF linked
      <4> QED  BY <2>1, <4>1, <4>3, <4>4 DEF MkdirWrites, last
    <3>3. /\ Tree(disk', sb', freemap \cup {new})
          /\ Listed(disk', sb') = Listed(disk, sb) \cup {new}
          /\ OwnedUnder(disk', sb') = OwnedUnder(disk, sb) \cup {new}
          /\ \A d \in Listed(disk, sb) : InodesIn(disk', d) = InodesIn(disk, d)
          /\ \A b \in InodesUnder(disk, sb) : disk'[b] = disk[b]
          /\ MkdirMade(new, name)
      <4>1. /\ Typed(disk, sb) /\ Tree(disk, sb, freemap) /\ Typed(disk', sb')
            /\ new \in Refs \ {0} /\ new \notin freemap
        BY <2>3, <2>4, <3>1
      <4>2. MkdirDone(disk, sb, freemap, disk', sb', new)
        BY <3>2, <4>1, MkdirTree
      <4>3. MkdirMade(new, name)
        BY <3>1, <3>2, <4>2 DEF MkdirMade
      <4> QED  BY <4>2, <4>3 DEF MkdirDone
    <3>4. Intact' /\ ~broken' /\ Owned' = Owned \cup {new} /\ freemap' = freemap \cup {new}
      BY <2>1, <2>3, <2>4, <2>7, <3>1, <3>3
    <3>5. Leaked' \subseteq Leaked
      BY <3>4 DEF Leaked
    <3>6. KeepsFiles
      BY <2>3, <2>4, <3>3 DEF KeepsFiles, KeepsFile, InodesUnder
    <3> QED  BY <1>1, <3>3, <3>4, <3>5, <3>6
  <2> QED  BY <2>9, <2>10
<1> QED  BY <1>2, <1>3

-----------------------------------------------------------------------------
(* A directory that is not the first goes. *)
RmdirMade(d) ==
    /\ sb' = sb /\ d \in Dirs
    /\ \E before \in Dirs :
          RmdirWrites(disk, freemap, disk', d, before) /\ disk[before].next_dir = d
    /\ RmdirDone(disk, sb, freemap, disk', d)

LEMMA RmdirStep ==
    ASSUME TypeInv, Intact, ~broken, NEW name \in DirNames, sfs_rmdir(name)
    PROVE  /\ fdtable' = fdtable /\ result'.op = "rmdir" /\ ~broken'
           /\ Leaked' \subseteq Leaked \/ (sb' = 0 /\ disk[sb].next_dir # 0)
           /\ sb' = 0 \/ KeepsFiles
           /\ DirOf(name) \notin {0, sb} /\ InodesOf(DirOf(name)) = {} => RmdirMade(DirOf(name))
<1>0. TypeInv'
  BY RmdirTyped
<1>1. fdtable' = fdtable /\ result'.op = "rmdir"
  BY DEF sfs_rmdir, Return
<1> DEFINE d == DirOf(name)
<1>2. CASE d = 0 \/ InodesOf(d) # {}
  <2>1. UNCHANGED <<disk, sb, freemap, broken>>
    BY <1>2 DEF sfs_rmdir
  <2> QED  BY <1>1, <1>2, <2>1, UnchangedKeeps
<1>3. CASE d # 0 /\ InodesOf(d) = {}
  <2> DEFINE used == freemap \ {d}
             before == CHOOSE b \in Dirs : disk[b].next_dir = d
             linked == [disk[before] EXCEPT !.next_dir = disk[d].next_dir]
             w == IF d = sb THEN <<At(0, SuperBlock(0))>> ELSE <<At(before, linked)>>
  <2>1. Store(w, used) /\ sb' = (IF d = sb THEN 0 ELSE sb) /\ broken' = ~Intact'
    BY <1>3 DEF sfs_rmdir, Unlink, FirstAfter, Follow
  <2>2. d \in Dirs /\ InodesOf(d) = {}
    BY <1>3, FoundDir
  <2>3. /\ Typed(disk, sb) /\ Tree(disk, sb, freemap) /\ Dirs = Listed(disk, sb)
        /\ Inodes = InodesUnder(disk, sb) /\ Owned = OwnedUnder(disk, sb)
        /\ \A e : InodesOf(e) = InodesIn(disk, e)
        /\ disk[0] = SuperBlock(sb) /\ disk[1] = MapBlock(freemap) /\ disk \in [BlockIds -> BlockRefs]
        /\ Dirs \subseteq Refs \ {0} /\ Shape(disk, sb) /\ sb \in Refs
    BY TreeBefore DEF Tree, TypeInv
  <2>4. /\ Typed(disk', sb') /\ (Intact' <=> Tree(disk', sb', freemap'))
        /\ Dirs' = Listed(disk', sb') /\ \A e : InodesOf(e)' = InodesIn(disk', e)
        /\ Intact' => Owned' = OwnedUnder(disk', sb')
    BY <1>0, TreeAfter
  <2>5. d \in Refs \ {0} /\ d # 1 /\ d \in BlockIds /\ 0 \in BlockIds /\ 1 \in BlockIds
    BY <2>2, <2>3, NoRef DEF Refs
  <2>6. w \in Seq({At(0, SuperBlock(0)), At(before, linked)})
    <3> DEFINE R == {At(0, SuperBlock(0)), At(before, linked)}
    <3>1. At(0, SuperBlock(0)) \in R /\ At(before, linked) \in R
      OBVIOUS
    <3> HIDE DEF R, linked, before, d
    <3>2. <<At(0, SuperBlock(0))>> \in Seq(R) /\ <<At(before, linked)>> \in Seq(R)
      BY <3>1, ShortSequences
    <3> QED  BY <3>2 DEF R
  <2>7. \A b \in BlockIds : Put(disk, w)[b] =
           IF d = sb THEN (IF b = 0 THEN SuperBlock(0) ELSE disk[b])
           ELSE (IF b = before THEN linked ELSE disk[b])
    <3> HIDE DEF d, before, linked
    <3>1. \A b \in BlockIds : Put(disk, <<At(0, SuperBlock(0))>>)[b] =
             IF b = 0 THEN SuperBlock(0) ELSE disk[b]
      BY PutOne
    <3>2. \A b \in BlockIds : Put(disk, <<At(before, linked)>>)[b] =
             IF b = before THEN linked ELSE disk[b]
      BY PutOne
    <3> QED  BY <3>1, <3>2
  <2> HIDE DEF w, linked, before, used, d
  <2>8. freemap' = used /\ \A b \in BlockIds :
           disk'[b] = IF b \in freemap \ used THEN FreeBlock
                      ELSE IF b = 1 THEN MapBlock(used) ELSE Put(disk, w)[b]
    BY <2>1, <2>6, StoredBlocks
  <2>9. freemap' = freemap \ {d} /\ \A b \in BlockIds \ {1, d} : disk'[b] = Put(disk, w)[b]
    BY <2>8 DEF used
  <2>10. disk'[1] = MapBlock(freemap \ {d})
    BY <2>5, <2>8 DEF used
  <2>11. CASE d = sb
    <3>1. sb' = 0 /\ disk'[0] = SuperBlock(0)
      BY <2>1, <2>5, <2>7, <2>9, <2>11
    <3>2. Tree(disk', 0, freemap') /\ OwnedUnder(disk', 0) = {}
      <4>1. Typed(disk', 0) /\ disk'[1] = MapBlock(freemap')
        BY <2>4, <2>9, <2>10, <3>1
      <4> QED  BY <3>1, <4>1, NoTree
    <3>3. Intact' /\ ~broken' /\ Owned' = {}
      BY <2>1, <2>4, <3>1, <3>2
    <3>4. ASSUME disk[sb].next_dir = 0 PROVE Leaked' \subseteq Leaked
      <4>1. Listed(disk, sb) = {sb}
        <5>1. Next_of(disk[sb]) = 0
          BY <2>2, <2>3, <2>11, <3>4, Nexts
        <5>2. LinksAreIds(disk) /\ sb \in BlockIds
          BY <2>3, Nexts
        <5>3. Listed(disk, sb) \subseteq {sb}
          <6>1. (sb # 0 => sb \in {sb}) /\ \A b \in {sb} \cap Listed(disk, sb) : Next_of(disk[b]) # 0 => Next_of(disk[b]) \in {sb}
            BY <5>1
          <6> HIDE <5>1
          <6> QED  BY <5>2, <6>1, ListedIsLeast
        <5> QED  BY <2>2, <2>3, <2>11, <5>3
      <4>2. InodesUnder(disk, sb) = {}
        BY <2>2, <2>3, <2>11, <4>1 DEF InodesUnder
      <4>3. OwnedUnder(disk, sb) = {d}
        BY <2>11, <4>1, <4>2 DEF OwnedUnder, FramesUnder
      <4> QED  BY <2>3, <2>9, <3>3, <4>3 DEF Leaked
    <3> QED  BY <1>1, <2>11, <3>1, <3>3, <3>4 DEF d
  <2>12. CASE d # sb
    <3>1. before \in Dirs /\ disk[before].next_dir = d
      <4>1. LinksAreIds(disk) /\ sb \in BlockIds /\ \A e \in Listed(disk, sb) : Next_of(disk[e]) = disk[e].next_dir
        BY <2>3, Nexts
      <4>2. d \in Listed(disk, sb)
        BY <2>2, <2>3
      <4>3. \E b \in Listed(disk, sb) : Next_of(disk[b]) = d
        BY <2>12, <4>1, <4>2, ListedIsLinked
      <4>4. \E b \in Dirs : disk[b].next_dir = d
        BY <2>3, <4>1, <4>3
      <4> QED  BY <4>4 DEF before
    <3>2. before # d /\ before \in BlockIds \ {0, 1}
      <4>1. before # d
        <5>1. LinksAreIds(disk) /\ sb \in BlockIds /\ OneWay(disk, sb) /\ Tree(disk, sb, freemap)
          BY <2>3, Nexts, ListsEnd DEF Tree
        <5>2. HeldOnce(disk, sb) /\ Shape(disk, sb)
          BY <2>3 DEF Tree
        <5>3. ASSUME before = d PROVE FALSE
          <6> DEFINE S == Listed(disk, sb) \ {d}
          <6>1. \A b \in S \cap Listed(disk, sb) : Next_of(disk[b]) # 0 => Next_of(disk[b]) \in S
            <7>1. ASSUME NEW b \in S, Next_of(disk[b]) # 0 PROVE Next_of(disk[b]) \in S
              <8>1. Next_of(disk[b]) \in Listed(disk, sb)
                BY <5>1, <7>1, ListedIsClosed
              <8>2. Next_of(disk[before]) = d /\ before \in Listed(disk, sb) /\ d # 0
                BY <2>3, <2>5, <3>1, Nexts
              <8>3. Next_of(disk[b]) # d
                BY <5>1, <5>3, <7>1, <8>2 DEF OneWay
              <8> QED  BY <8>1, <8>3
            <7> QED  BY <7>1
          <6>2. sb # 0 => sb \in S
            BY <2>12, <5>1, ListedIds
          <6> HIDE DEF S
          <6>3. Listed(disk, sb) \subseteq S
            BY <5>1, <6>1, <6>2, ListedIsLeast
          <6> QED  BY <2>2, <2>3, <6>3 DEF S
        <5> QED  BY <5>3
      <4> QED  BY <2>3, <3>1, <4>1, NoRef DEF Refs
    <3>3. RmdirWrites(disk, freemap, disk', d, before)
      <4>1. disk'[before] = [disk[before] EXCEPT !.next_dir = disk[d].next_dir]
        BY <2>7, <2>9, <2>12, <3>2 DEF linked
      <4>2. disk'[0] = disk[0] /\ \A b \in BlockIds \ {0, 1, d, before} : disk'[b] = disk[b]
        BY <2>5, <2>7, <2>9, <2>12, <3>2
      <4> QED  BY <2>10, <4>1, <4>2 DEF RmdirWrites
    <3>4. RmdirDone(disk, sb, freemap, disk', d)
      <4>1. /\ d \in Listed(disk, sb) /\ InodesIn(disk, d) = {}
            /\ before \in Listed(disk, sb) /\ disk[before].next_dir = d
        BY <2>2, <2>3, <3>1
      <4>2. Typed(disk, sb) /\ Tree(disk, sb, freemap) /\ Typed(disk', sb)
        BY <2>1, <2>3, <2>4, <2>12
      <4> QED  BY <2>12, <3>3, <4>1, <4>2, RmdirTree
    <3>5. /\ Tree(disk', sb, freemap \ {d}) /\ Listed(disk', sb) = Listed(disk, sb) \ {d}
          /\ OwnedUnder(disk', sb) = OwnedUnder(disk, sb) \ {d}
          /\ \A e \in Listed(disk, sb) \ {d} : InodesIn(disk', e) = InodesIn(disk, e)
          /\ \A b \in InodesUnder(disk, sb) : disk'[b] = disk[b]
      BY <3>4 DEF RmdirDone
    <3>6. Intact' /\ ~broken' /\ Owned' = Owned \ {d} /\ freemap' = freemap \ {d} /\ sb' = sb
      BY <2>1, <2>3, <2>4, <2>9, <2>12, <3>5
    <3>7. Leaked' \subseteq Leaked
      BY <3>6 DEF Leaked
    <3>8. KeepsFiles
      BY <2>2, <2>3, <2>4, <3>5, <3>6 DEF KeepsFiles, KeepsFile, InodesUnder
    <3>9. RmdirMade(d)
      BY <2>2, <3>1, <3>3, <3>4, <3>6 DEF RmdirMade
    <3> QED  BY <1>1, <3>6, <3>7, <3>8, <3>9 DEF d
  <2> QED  BY <2>11, <2>12
<1> QED  BY <1>2, <1>3

-----------------------------------------------------------------------------
(* A descriptor that sfs_open hands out agrees with the tree, and its file *)
(* is the one of that name or a new one.                                   *)
NewFd(fd, d, name) ==
    /\ Current(fd)' /\ fdtable'[fd].dir_bid = d
    /\ \/ fdtable'[fd].inode_bid = InodeOf(d, name)
       \/ fdtable'[fd].inode_bid \notin freemap

(* The new file, and what becomes of the tree with it. *)
OpenMade(d, new, name) ==
    /\ sb' = sb /\ new \notin freemap /\ new \in Refs \ {0}
    /\ \E slot \in InodeSlots : OpenWrites(disk, freemap, disk', d, slot, new, name)
    /\ OpenDone(disk, sb, freemap, disk', d, new)

LEMMA OpenNewStep ==
    ASSUME TypeInv, Intact, ~broken, TypeInv', NEW fd \in Fds, NEW d \in Dirs, NEW name \in FileNames,
           LowestSlot(d) # -1, OpenNew(fd, d, name)
    PROVE  /\ broken' => freemap' = Ids /\ freemap = Ids
           /\ ~broken' => Leaked' \subseteq Leaked /\ KeepsFiles /\ NewFd(fd, d, name)
           /\ ~broken' => OpenMade(d, Allocated(1), name)
<1> DEFINE new == Allocated(1)
           slot == LowestSlot(d)
           used == UsedAfter(1)
           linked == [disk[d] EXCEPT !.inodes[slot] = new]
           w == <<At(d, linked), At(new, Inode(name))>>
<1>1. Store(w, used) /\ broken' = ~Intact' /\ sb' = sb
  BY DEF OpenNew, Follow
<1>2. fdtable' = [fdtable EXCEPT ![fd] = OpenedFd(d, new, Inode(name))]
  BY DEF OpenNew
<1>3. /\ new \in Refs /\ (new = 0 => used = Ids /\ freemap = Ids)
      /\ new # 0 => used = freemap \cup {new} /\ new \notin freemap
      /\ freemap \subseteq used
  BY OneBlock DEF UsedAfter
<1>4. /\ Typed(disk, sb) /\ Tree(disk, sb, freemap) /\ Dirs = Listed(disk, sb)
      /\ Inodes = InodesUnder(disk, sb) /\ Owned = OwnedUnder(disk, sb)
      /\ \A e : InodesOf(e) = InodesIn(disk, e)
      /\ disk[0] = SuperBlock(sb) /\ disk[1] = MapBlock(freemap) /\ disk \in [BlockIds -> BlockRefs]
      /\ Dirs \subseteq Refs \ {0}
  BY TreeBefore DEF Tree, TypeInv
<1>5. /\ Typed(disk', sb) /\ (Intact' <=> Tree(disk', sb, freemap'))
      /\ Dirs' = Listed(disk', sb) /\ \A e : InodesOf(e)' = InodesIn(disk', e)
      /\ Intact' => Owned' = OwnedUnder(disk', sb)
  BY <1>1, TreeAfter
<1>6. slot \in InodeSlots /\ disk[d].inodes[slot] = 0
  BY LowestSlotIsFree
<1>7. w \in Seq({At(d, linked), At(new, Inode(name))})
  <2> DEFINE R == {At(d, linked), At(new, Inode(name))}
  <2>1. At(d, linked) \in R /\ At(new, Inode(name)) \in R
    OBVIOUS
  <2> HIDE DEF R, linked, new
  <2>2. w \in Seq(R)
    BY <2>1, ShortSequences
  <2> QED  BY <2>2 DEF R
<1>8. \A b \in BlockIds : Put(disk, w)[b] = IF b = new THEN Inode(name) ELSE IF b = d THEN linked ELSE disk[b]
  <2> HIDE DEF linked, new
  <2> QED  BY PutTwo
<1> HIDE DEF w, linked, used, new, slot
<1>9. freemap' = used /\ \A b \in BlockIds :
         disk'[b] = IF b \in freemap \ used THEN FreeBlock ELSE IF b = 1 THEN MapBlock(used) ELSE Put(disk, w)[b]
  BY <1>1, <1>7, StoredBlocks
<1>10. /\ freemap' = used /\ disk'[1] = MapBlock(used)
       /\ \A b \in BlockIds \ {1} : disk'[b] = IF b = new THEN Inode(name) ELSE IF b = d THEN linked ELSE disk[b]
  BY <1>3, <1>8, <1>9, NoRef
<1>11. 0 \in BlockIds /\ 1 \in BlockIds /\ new # 1 /\ d # 0 /\ d # 1 /\ d \in BlockIds
  BY <1>3, <1>4, NoRef DEF Refs
<1>12. CASE new = 0
  <2>1. freemap' = Ids /\ freemap = Ids
    BY <1>3, <1>10, <1>12
  <2>2. disk'[0] = Inode(name)
    BY <1>10, <1>11, <1>12
  <2>3. Inode(name) # SuperBlock(sb)
    <3>1. Inode(name).kind = "inode" /\ SuperBlock(sb).kind = "super"
      BY DEF Inode, SuperBlock
    <3> QED  BY <3>1
  <2>4. ~Intact'
    BY <1>5, <2>2, <2>3 DEF Tree
  <2> QED  BY <1>1, <2>1, <2>4
<1>13. CASE new # 0
  <2>1. new \in Refs \ {0} /\ new \notin freemap /\ used = freemap \cup {new} /\ new \in BlockIds
    BY <1>3, <1>13, NoRef
  <2>2. d \in Listed(disk, sb) /\ d \in freemap /\ new # d
    <3>1. d \in freemap
      BY <1>4 DEF Tree, OwnedUnder
    <3> QED  BY <1>4, <2>1, <3>1
  <2>3. OpenWrites(disk, freemap, disk', d, slot, new, name)
    <3>1. disk'[0] = disk[0] /\ disk'[1] = MapBlock(freemap \cup {new}) /\ disk'[new] = Inode(name)
      BY <1>10, <1>11, <1>13, <2>1
    <3>2. disk'[d] = [disk[d] EXCEPT !.inodes[slot] = new]
      BY <1>10, <1>11, <2>2 DEF linked
    <3>3. \A b \in BlockIds \ {0, 1, d, new} : disk'[b] = disk[b]
      BY <1>10
    <3> QED  BY <3>1, <3>2, <3>3 DEF OpenWrites
  <2>4. OpenDone(disk, sb, freemap, disk', d, new)
    <3>1. Typed(disk, sb) /\ Tree(disk, sb, freemap) /\ Typed(disk', sb)
      BY <1>4, <1>5
    <3> QED  BY <1>6, <2>1, <2>2, <2>3, <3>1, OpenTree
  <2>5. /\ Tree(disk', sb, freemap \cup {new}) /\ Listed(disk', sb) = Listed(disk, sb)
        /\ OwnedUnder(disk', sb) = OwnedUnder(disk, sb) \cup {new}
        /\ InodesIn(disk', d) = InodesIn(disk, d) \cup {new}
        /\ \A e \in Listed(disk, sb) \ {d} : InodesIn(disk', e) = InodesIn(disk, e)
        /\ \A b \in InodesUnder(disk, sb) : disk'[b] = disk[b]
    BY <2>4 DEF OpenDone
  <2>6. Intact' /\ ~broken' /\ Owned' = Owned \cup {new} /\ freemap' = freemap \cup {new}
    BY <1>1, <1>4, <1>5, <1>10, <2>1, <2>5
  <2>7. Leaked' \subseteq Leaked
    BY <2>6 DEF Leaked
  <2>8. KeepsFiles
    <3>1. ASSUME NEW e \in Dirs, NEW n \in InodesOf(e) PROVE KeepsFile(e, n)
      <4>1. e \in Dirs' /\ n \in InodesUnder(disk, sb) /\ n \in InodesIn(disk, e)
        BY <1>4, <1>5, <2>5, <3>1 DEF InodesUnder
      <4>2. n \in InodesIn(disk', e)
        BY <1>4, <2>5, <4>1
      <4> QED  BY <1>5, <2>5, <4>1, <4>2 DEF KeepsFile
    <3> QED  BY <3>1 DEF KeepsFiles
  <2>9. NewFd(fd, d, name)
    <3>1. fdtable'[fd] = OpenedFd(d, new, Inode(name))
      BY <1>2 DEF TypeInv
    <3>2. fdtable'[fd].dir_bid = d /\ fdtable'[fd].inode_bid = new /\ fdtable'[fd].inode = Inode(name)
      BY <3>1 DEF OpenedFd
    <3>3. d \in Dirs' /\ new \in InodesOf(d)' /\ disk'[new] = Inode(name)
      BY <1>4, <1>5, <2>3, <2>5 DEF OpenWrites
    <3> QED  BY <2>1, <3>2, <3>3 DEF NewFd, Current
  <2>10. OpenMade(d, new, name)
    BY <1>1, <1>6, <2>1, <2>3, <2>4 DEF OpenMade
  <2> QED  BY <2>6, <2>7, <2>8, <2>9, <2>10 DEF new
<1> QED  BY <1>12, <1>13

(* A call that hands out the descriptor fd. *)
HandsOut(fd, d, name) ==
    /\ fd \in Fds /\ ~fdtable[fd].valid /\ d \in Dirs
    /\ \A e \in Fds \ {fd} : fdtable'[e] = fdtable[e]
    /\ ~broken' => NewFd(fd, d, name)

LEMMA OpenStep ==
    ASSUME TypeInv, Intact, ~broken, NEW dirname \in DirNames, NEW name \in FileNames,
           sfs_open(dirname, name)
    PROVE  /\ result'.op = "open"
           /\ broken' => freemap' = Ids /\ freemap = Ids
           /\ ~broken' /\ disk' # disk => Leaked' \subseteq Leaked
           /\ ~broken' => KeepsFiles
           /\ fdtable' = fdtable \/ \E fd \in Fds : HandsOut(fd, DirOf(dirname), name)
           /\ \A fd \in Held : fdtable'[fd] = fdtable[fd]
<1>0. TypeInv'
  BY OpenTyped
<1>a. PICK fd : fd = LowestFd
  OBVIOUS
<1>b. PICK d : d = DirOf(dirname)
  OBVIOUS
<1>c. PICK n : n = InodeOf(d, name)
  OBVIOUS
<1> DEFINE Fails(value) == Return("open", -1, value) /\ UNCHANGED <<disk, sb, freemap, fdtable, broken>>
<1>1. \/ \E value : Fails(value)
      \/ fd # -1 /\ d # 0 /\ n # 0 /\ OpenExisting(fd, d, n)
      \/ fd # -1 /\ d # 0 /\ n = 0 /\ LowestSlot(d) # -1 /\ OpenNew(fd, d, name)
  <2>1. CASE fd = -1 \/ d = 0
    BY <2>1, <1>a, <1>b, <1>c DEF sfs_open
  <2>2. CASE fd # -1 /\ d # 0 /\ n # 0
    BY <2>2, <1>a, <1>b, <1>c DEF sfs_open
  <2>3. CASE fd # -1 /\ d # 0 /\ n = 0 /\ LowestSlot(d) # -1
    BY <2>3, <1>a, <1>b, <1>c DEF sfs_open
  <2>4. CASE fd # -1 /\ d # 0 /\ n = 0 /\ LowestSlot(d) = -1
    BY <2>4, <1>a, <1>b, <1>c DEF sfs_open
  <2> QED  BY <2>1, <2>2, <2>3, <2>4
<1>2. CASE \E value : Fails(value)
  <2>1. UNCHANGED <<disk, sb, freemap, fdtable, broken>> /\ result'.op = "open"
    BY <1>2 DEF Return
  <2> QED  BY <2>1, UnchangedKeeps
<1> HIDE DEF Fails
<1>3. ASSUME fd # -1, d # 0
      PROVE  /\ fd \in Fds /\ ~fdtable[fd].valid /\ d \in Dirs
             /\ \A e \in Held : e \in Fds \ {fd}
  BY <1>3, <1>a, <1>b, LowestFdIsFree, FoundDir DEF Held
<1>4. CASE fd # -1 /\ d # 0 /\ n # 0 /\ OpenExisting(fd, d, n)
  <2>1. UNCHANGED <<disk, sb, freemap, broken>> /\ result'.op = "open"
        /\ fdtable' = [fdtable EXCEPT ![fd] = OpenedFd(d, n, disk[n])]
    BY <1>4 DEF OpenExisting, Return
  <2>2. /\ fd \in Fds /\ ~fdtable[fd].valid /\ d \in Dirs
        /\ \A e \in Held : e \in Fds \ {fd}
    BY <1>3, <1>4
  <2>3. fdtable'[fd] = OpenedFd(d, n, disk[n]) /\ \A e \in Fds \ {fd} : fdtable'[e] = fdtable[e]
    BY <2>1, <2>2 DEF TypeInv
  <2>4. n \in InodesOf(d)
    BY <1>4, <1>c, FoundInode
  <2>5. NewFd(fd, d, name)
    <3>1. fdtable'[fd].dir_bid = d /\ fdtable'[fd].inode_bid = n /\ fdtable'[fd].inode = disk[n]
      BY <2>3 DEF OpenedFd
    <3>2. Dirs' = Dirs /\ InodesOf(d)' = InodesOf(d) /\ disk' = disk
      BY <2>1 DEF Dirs, InodesOf
    <3>3. /\ fdtable'[fd].dir_bid \in Dirs' /\ fdtable'[fd].inode_bid \in InodesOf(d)'
          /\ disk'[fdtable'[fd].inode_bid] = fdtable'[fd].inode
      BY <2>2, <2>4, <3>1, <3>2
    <3>4. Current(fd)'
      BY <3>1, <3>3 DEF Current
    <3> QED  BY <1>c, <3>1, <3>4 DEF NewFd
  <2>6. HandsOut(fd, d, name)
    BY <2>2, <2>3, <2>5 DEF HandsOut
  <2>7. KeepsFiles
    BY <2>1, UnchangedKeeps
  <2> QED  BY <1>b, <2>1, <2>2, <2>3, <2>6, <2>7
<1>5. CASE fd # -1 /\ d # 0 /\ n = 0 /\ LowestSlot(d) # -1 /\ OpenNew(fd, d, name)
  <2>1. result'.op = "open" /\ fdtable' = [fdtable EXCEPT ![fd] = OpenedFd(d, Allocated(1), Inode(name))]
    BY <1>5 DEF OpenNew, Return
  <2>2. /\ fd \in Fds /\ ~fdtable[fd].valid /\ d \in Dirs
        /\ \A e \in Held : e \in Fds \ {fd}
    BY <1>3, <1>5
  <2>3. \A e \in Fds \ {fd} : fdtable'[e] = fdtable[e]
    BY <2>1, <2>2 DEF TypeInv
  <2>4. /\ broken' => freemap' = Ids /\ freemap = Ids
        /\ ~broken' => Leaked' \subseteq Leaked /\ KeepsFiles /\ NewFd(fd, d, name)
    BY <1>0, <1>5, <2>2, OpenNewStep
  <2>5. HandsOut(fd, d, name)
    BY <2>2, <2>3, <2>4 DEF HandsOut
  <2> QED  BY <1>b, <2>1, <2>2, <2>3, <2>4, <2>5
<1> QED  BY <1>1, <1>2, <1>4, <1>5

-----------------------------------------------------------------------------
(* Where a call leaves directories and inodes of the next tree as they     *)
(* were, but for the one of the file m, the other files are kept.          *)
ButFor(m) ==
    /\ \A e \in Dirs' : disk[e].kind = "dir" /\ disk'[e].next_dir = disk[e].next_dir
    /\ \A e \in Dirs' : \A n \in InodesOf(e) \ {m} : n \in InodesOf(e)'
    /\ \A n \in Inodes' \ {m} : disk'[n] = disk[n]

LEMMA OthersKept ==
    ASSUME TypeInv, TypeInv', Intact', sb' = sb, NEW m, ButFor(m)
    PROVE  /\ Dirs' = Dirs
           /\ \A d \in Dirs : \A n \in InodesOf(d) \ {m} : KeepsFile(d, n)
<1>1. Typed(disk, sb) /\ Typed(disk', sb)
  BY DEF Typed, TypeInv
<1>2. /\ Dirs' = Listed(disk', sb) /\ Inodes' = InodesUnder(disk', sb)
      /\ \A d : InodesOf(d)' = InodesIn(disk', d)
      /\ Shape(disk', sb)
  BY TreeAfter DEF Tree
<1>3. LinksAreIds(disk) /\ LinksAreIds(disk') /\ sb \in BlockIds
  BY <1>1, ListedRefs, NoRef DEF Typed
<1>4. \A e \in Listed(disk', sb) : Next_of(disk[e]) = Next_of(disk'[e])
  <2>1. \A e \in Listed(disk', sb) : disk'[e].kind = "dir" /\ disk[e].kind = "dir" /\ disk'[e].next_dir = disk[e].next_dir
    BY <1>2 DEF ButFor, Shape
  <2> QED  BY <2>1 DEF Next_of
<1>5. Listed(disk, sb) = Listed(disk', sb)
  BY <1>3, <1>4, SameListing
<1>6. Dirs' = Dirs
  BY <1>2, <1>5 DEF Dirs
<1>7. ASSUME NEW d \in Dirs, NEW n \in InodesOf(d) \ {m} PROVE KeepsFile(d, n)
  <2>1. d \in Dirs' /\ n \in InodesOf(d)'
    BY <1>6, <1>7 DEF ButFor
  <2>2. n \in Inodes'
    BY <1>2, <2>1 DEF InodesUnder
  <2> QED  BY <1>7, <2>1, <2>2 DEF ButFor, KeepsFile
<1> QED  BY <1>6, <1>7

FdFile(fd) == fdtable[fd].inode_bid
OnlyFd(fd) == \A e \in Fds \ {fd} : fdtable'[e] = fdtable[e]

LEMMA NoFrames ==
    ASSUME NEW dk, NEW s, Typed(dk, s), Shape(dk, s), NEW n \in InodesUnder(dk, s), dk[n].size = 0
    PROVE  FramesIn(dk, n) = {}
<1>1. IsFile(dk, n) /\ dk[n] \in InodeRefs
  BY ShapeRefs
<1>2. dk[n].first_frame \in BlockIds /\ LinksAreIds(dk)
  BY Nexts
<1>3. IsFiniteSet(FramesIn(dk, n))
  BY <1>2, ListedIds DEF FramesIn
<1>4. Cardinality(FramesIn(dk, n)) \in Nat
  BY <1>3, FS_CardinalityType
<1>5. Cardinality(FramesIn(dk, n)) = 0
  <2> DEFINE c == Cardinality(FramesIn(dk, n))
  <2>1. FrameSize \in Nat \ {0} /\ FrameCountOf(FrameSize * c) = c /\ FrameCountOf(FrameSize * 0) = 0
    BY <1>4, FrameCounts
  <2>2. FrameSize * c = 0
    BY <1>1 DEF IsFile
  <2>3. FrameSize * 0 = 0
    BY <2>1
  <2> HIDE DEF c
  <2> QED  BY <2>1, <2>2, <2>3 DEF c
<1> QED  BY <1>3, <1>5, FS_EmptySet

(* A file goes from its directory. *)
RemoveMade(d, n) ==
    /\ sb' = sb /\ d \in Dirs /\ n \in InodesOf(d)
    /\ RemoveWrites(disk, freemap, disk', d, n)
    /\ RemoveDone(disk, sb, freemap, disk', d, n)

LEMMA RemoveStep ==
    ASSUME TypeInv, Intact, ~broken, NEW fd \in Held, sfs_remove(fd)
    PROVE  /\ result'.op = "remove" /\ result'.fd = fd
           /\ Current(fd) => ~broken'
           /\ Current(fd) /\ disk[FdFile(fd)].size = 0 => Leaked' \subseteq Leaked
           /\ OnlyFd(fd) /\ sb' = sb
           /\ Current(fd) => RemoveMade(fdtable[fd].dir_bid, FdFile(fd))
           /\ ~broken' => ~fdtable'[fd].valid
           /\ ~broken' => \A d \in Dirs : \A n \in InodesOf(d) \ {FdFile(fd)} : KeepsFile(d, n)
<1>0. TypeInv' /\ fd \in Fds
  BY RemoveTyped DEF Held
<1>a. PICK d : d = fdtable[fd].dir_bid
  OBVIOUS
<1>b. PICK n : n = FdFile(fd)
  OBVIOUS
<1>c. d \in Refs /\ n \in Refs
  BY <1>0, <1>a, <1>b DEF TypeInv, FdRefs, FdFile
<1> DEFINE usual == disk[d].kind = "dir" /\ disk[n].kind = "inode" /\ IsChain(disk[n].first_frame)
           freed == FramesOf(n) \cup {n}
           cleared == [i \in InodeSlots |-> IF disk[d].inodes[i] = n THEN 0 ELSE disk[d].inodes[i]]
           used == freemap \ freed
           block == [disk[d] EXCEPT !.inodes = cleared]
           w == <<At(d, block)>>
<1>1. CASE ~usual
  <2>1. Lose("remove", fd)
    BY <1>1, <1>a, <1>b DEF sfs_remove, FdFile
  <2>2. broken' /\ fdtable' = fdtable /\ sb' = sb /\ result'.op = "remove" /\ result'.fd = fd
    BY <2>1 DEF Lose, Return
  <2>3. ~Current(fd)
    <3>1. ASSUME Current(fd) PROVE usual
      <4>1. d \in Dirs /\ n \in InodesOf(d)
        BY <1>a, <1>b, <3>1 DEF Current, FdFile
      <4>2. /\ disk[d].kind = "dir" /\ disk[n].kind = "inode"
            /\ \A f \in FramesOf(n) : disk[f].kind = "frame"
        BY <4>1 DEF Intact
      <4> QED  BY <4>2 DEF IsChain, FramesOf
    <3> QED  BY <1>1, <3>1
  <2> QED  BY <1>b, <2>2, <2>3 DEF OnlyFd
<1>2. CASE usual
  <2>1. /\ Store(w, used) /\ sb' = sb /\ broken' = ~Intact'
        /\ fdtable' = [fdtable EXCEPT ![fd] = ClosedFd]
        /\ result'.op = "remove" /\ result'.fd = fd
    <3>1. /\ Store(w, used) /\ sb' = sb /\ Follow /\ Return("remove", fd, 0)
          /\ fdtable' = [fdtable EXCEPT ![fd] = ClosedFd]
      BY <1>2, <1>a, <1>b DEF sfs_remove, FdFile, FreedWith
    <3> HIDE DEF w, used, usual
    <3> QED  BY <3>1 DEF Follow, Return
  <2>2. /\ OnlyFd(fd) /\ ~fdtable'[fd].valid
    BY <1>0, <2>1 DEF OnlyFd, TypeInv, ClosedFd
  <2>3. /\ Typed(disk, sb) /\ Tree(disk, sb, freemap) /\ Dirs = Listed(disk, sb)
        /\ Inodes = InodesUnder(disk, sb) /\ Owned = OwnedUnder(disk, sb)
        /\ \A e : InodesOf(e) = InodesIn(disk, e)
        /\ \A e : FramesOf(e) = FramesIn(disk, e)
        /\ disk[0] = SuperBlock(sb) /\ disk[1] = MapBlock(freemap) /\ disk \in [BlockIds -> BlockRefs]
        /\ Dirs \subseteq Refs \ {0} /\ Shape(disk, sb)
        /\ OwnedUnder(disk, sb) \subseteq freemap \ {1, 2}
    BY TreeBefore DEF Tree, TypeInv
  <2>4. /\ Typed(disk', sb) /\ (Intact' <=> Tree(disk', sb, freemap'))
        /\ Dirs' = Listed(disk', sb) /\ Inodes' = InodesUnder(disk', sb)
        /\ \A e : InodesOf(e)' = InodesIn(disk', e)
        /\ Intact' => Owned' = OwnedUnder(disk', sb)
    BY <1>0, <2>1, TreeAfter
  <2>5. 0 \in BlockIds /\ 1 \in BlockIds /\ d \in BlockIds /\ d # 1
    BY <1>c, NoRef DEF Refs
  <2>6. w \in Seq({At(d, block)})
    <3> HIDE DEF block
    <3> QED  BY ShortSequences
  <2>7. \A b \in BlockIds : Put(disk, w)[b] = IF b = d THEN block ELSE disk[b]
    <3> HIDE DEF block
    <3> QED  BY PutOne
  <2> HIDE DEF w, block, used, cleared
  <2>8. freemap' = used /\ \A b \in BlockIds :
           disk'[b] = IF b \in freemap \ used THEN FreeBlock ELSE IF b = 1 THEN MapBlock(used) ELSE Put(disk, w)[b]
    BY <2>1, <2>6, StoredBlocks
  <2>9. d \notin freed
    <3>1. \A f \in FramesOf(n) : disk[f].kind = "frame"
      BY <1>2 DEF IsChain, FramesOf
    <3> QED  BY <1>2, <3>1
  <2>10. freemap' = freemap \ freed /\ \A b \in BlockIds :
            disk'[b] = IF b \in freemap \cap freed THEN FreeBlock ELSE IF b = 1 THEN MapBlock(freemap \ freed)
                       ELSE IF b = d THEN block ELSE disk[b]
    BY <2>7, <2>8 DEF used
  <2>11. disk'[d] = block /\ block.kind = "dir" /\ block.next_dir = disk[d].next_dir /\ block.inodes = cleared
    <3>1. disk'[d] = block
      BY <2>5, <2>9, <2>10
    <3>2. disk[d] \in DirRefs
      BY <1>2, <2>3, <2>5, KindOf
    <3> QED  BY <1>2, <3>1, <3>2 DEF block, DirRefs
  <2>12. ASSUME Intact' PROVE ButFor(n)
    <3>1. FreeBlock.kind = "free" /\ MapBlock(freemap \ freed).kind = "map"
      BY DEF FreeBlock, MapBlock
    <3>2. \A b \in BlockIds : disk'[b].kind \in {"dir", "inode"} => b = d \/ disk'[b] = disk[b]
      BY <2>10, <3>1
    <3>3. \A e \in Dirs' : e \in BlockIds /\ disk'[e].kind = "dir"
      BY <2>4, <2>12, ShapeRefs, NoRef DEF Tree
    <3>4. \A m \in Inodes' : m \in BlockIds /\ disk'[m].kind = "inode"
      BY <2>4, <2>12, ShapeRefs, NoRef DEF Tree
    <3>5. \A e \in Dirs' : disk[e].kind = "dir" /\ disk'[e].next_dir = disk[e].next_dir
      BY <1>2, <2>11, <3>2, <3>3
    <3>6. \A m \in Inodes' : disk'[m] = disk[m]
      BY <2>11, <3>2, <3>4
    <3>7. ASSUME NEW e \in Dirs', NEW m \in InodesOf(e) \ {n} PROVE m \in InodesOf(e)'
      <4>1. m \in InodesIn(disk, e) /\ m # n
        BY <2>3, <3>7
      <4>2. PICK i \in InodeSlots : m = disk[e].inodes[i] /\ m # 0
        BY <4>1 DEF InodesIn
      <4>3. m = disk'[e].inodes[i]
        <5>1. CASE e = d
          BY <2>11, <4>1, <4>2, <5>1 DEF cleared
        <5>2. CASE e # d
          BY <3>2, <3>3, <4>2, <5>2
        <5> QED  BY <5>1, <5>2
      <4>4. m \in InodesIn(disk', e)
        BY <4>2, <4>3 DEF InodesIn
      <4> QED  BY <2>4, <4>4
    <3> QED  BY <3>5, <3>6, <3>7 DEF ButFor
  <2>13. ~broken' => \A e \in Dirs : \A m \in InodesOf(e) \ {n} : KeepsFile(e, m)
    BY <1>0, <2>1, <2>12, OthersKept
  <2>14. ASSUME Current(fd)
         PROVE  /\ ~broken' /\ RemoveMade(d, n)
                /\ disk[n].size = 0 => Leaked' \subseteq Leaked
    <3>1. d \in Listed(disk, sb) /\ n \in InodesIn(disk, d) /\ n \in InodesUnder(disk, sb)
      BY <1>a, <1>b, <2>3, <2>14 DEF Current, FdFile, InodesUnder
    <3>2. freed = FramesIn(disk, n) \cup {n} /\ freed \subseteq freemap \ {1, 2}
      <4>1. freed = FramesIn(disk, n) \cup {n}
        BY <2>3
      <4>2. FramesIn(disk, n) \subseteq FramesUnder(disk, sb)
        BY <3>1 DEF FramesUnder
      <4>3. freed \subseteq OwnedUnder(disk, sb)
        BY <3>1, <4>1, <4>2 DEF OwnedUnder
      <4> QED  BY <2>3, <4>1, <4>3
    <3>3. 0 \notin freed
      <4>1. 0 \notin OwnedUnder(disk, sb)
        BY <2>3, PartsApart DEF Tree
      <4>2. FramesIn(disk, n) \subseteq FramesUnder(disk, sb)
        BY <3>1 DEF FramesUnder
      <4> QED  BY <3>1, <3>2, <4>1, <4>2 DEF OwnedUnder
    <3> HIDE DEF freed
    <3>4. d # 0
      BY <2>3, <3>1
    <3>5. disk'[0] = disk[0] /\ disk'[1] = MapBlock(freemap \ freed)
      BY <2>5, <2>10, <3>2, <3>3, <3>4
    <3>6. \A b \in BlockIds \ ({0, 1, d} \cup freed) : disk'[b] = disk[b]
      BY <2>10
    <3>7. disk'[d] = [disk[d] EXCEPT !.inodes =
                       [i \in InodeSlots |-> IF disk[d].inodes[i] = n THEN 0 ELSE disk[d].inodes[i]]]
      BY <2>11 DEF block, cleared
    <3>8. RemoveWrites(disk, freemap, disk', d, n)
      BY <3>2, <3>5, <3>6, <3>7 DEF RemoveWrites
    <3>9. RemoveDone(disk, sb, freemap, disk', d, n)
      <4>1. Typed(disk, sb) /\ Tree(disk, sb, freemap) /\ Typed(disk', sb)
        BY <2>3, <2>4
      <4> QED  BY <3>1, <3>8, <4>1, RemoveTree
    <3>10. /\ Tree(disk', sb, freemap \ freed)
           /\ FramesIn(disk, n) = {} => OwnedUnder(disk', sb) = OwnedUnder(disk, sb) \ {n}
      BY <3>2, <3>9 DEF RemoveDone
    <3>11. Intact' /\ ~broken'
      BY <2>1, <2>4, <2>10, <3>10
    <3>12. ASSUME disk[n].size = 0 PROVE Leaked' \subseteq Leaked
      <4>1. FramesIn(disk, n) = {}
        BY <2>3, <3>1, <3>12, NoFrames
      <4>2. Owned' = Owned \ {n} /\ freemap' = freemap \ {n}
        BY <2>3, <2>4, <2>10, <3>2, <3>10, <3>11, <4>1
      <4> QED  BY <4>2 DEF Leaked
    <3>13. RemoveMade(d, n)
      BY <2>1, <2>3, <3>1, <3>8, <3>9 DEF RemoveMade
    <3> QED  BY <3>11, <3>12, <3>13
  <2> QED  BY <1>a, <1>b, <2>1, <2>2, <2>13, <2>14
<1> QED  BY <1>1, <1>2

-----------------------------------------------------------------------------
(* The storage between the growth of a file and the bytes of a write.      *)
WriteDisk(old, m, n, used) ==
    Put(disk, (IF n = 0 THEN << >> ELSE ResizeWrites(old, m, n)) \o <<At(1, MapBlock(used))>>)
GrowLink(first) == At(LastOf(disk, first), [disk[LastOf(disk, first)] EXCEPT !.next = Allocated(1)])
LinkWrites(first) == IF first = 0 THEN << >> ELSE <<GrowLink(first)>>
GrowRange(old, m, n) ==
    {GrowLink(old.first_frame)} \cup [bid : Refs, block : FrameRefs] \cup {At(m, ResizedInode(old, n))}

LEMMA ResizeParts ==
    ASSUME {1, 2} \subseteq freemap, NEW old, NEW m, NEW n \in Nat
    PROVE  /\ ResizeWrites(old, m, n) =
                 LinkWrites(old.first_frame) \o FrameWrites(n) \o <<At(m, ResizedInode(old, n))>>
           /\ LinkWrites(old.first_frame) \in Seq(GrowRange(old, m, n))
           /\ FrameWrites(n) \in Seq(GrowRange(old, m, n))
           /\ ResizeWrites(old, m, n) \in Seq(GrowRange(old, m, n))
           /\ LinkWrites(old.first_frame) \o FrameWrites(n) \in Seq(GrowRange(old, m, n))
<1> DEFINE R == GrowRange(old, m, n)
           x == GrowLink(old.first_frame)
           y == At(m, ResizedInode(old, n))
           v == LinkWrites(old.first_frame)
<1>1. ResizeWrites(old, m, n) = v \o FrameWrites(n) \o <<y>>
  BY DEF ResizeWrites, LinkWrites, GrowLink
<1>2. x \in R /\ y \in R /\ [bid : Refs, block : FrameRefs] \subseteq R
  BY DEF GrowRange
<1>3. FrameWrites(n) \in Seq([bid : Refs, block : FrameRefs])
  BY NewFramesTyped
<1>4. v \in Seq(R)
  <2> HIDE DEF R, x
  <2>1. << >> \in Seq(R) /\ <<x>> \in Seq(R)
    BY <1>2, ShortSequences
  <2> QED  BY <2>1 DEF LinkWrites, x
<1> HIDE DEF R, v, x, y
<1>5. FrameWrites(n) \in Seq(R)
  BY <1>2, <1>3, SeqMonotonic
<1>6. v \o FrameWrites(n) \in Seq(R)
  BY <1>4, <1>5, Concatenation
<1>7. <<y>> \in Seq(R)
  BY <1>2, ShortSequences
<1>8. ResizeWrites(old, m, n) \in Seq(R)
  BY <1>1, <1>6, <1>7, Concatenation
<1> QED  BY <1>1, <1>4, <1>5, <1>6, <1>8 DEF R, v, y

LEMMA PlainDisk ==
    ASSUME NEW old, NEW m, NEW used
    PROVE  \A b \in BlockIds : WriteDisk(old, m, 0, used)[b] = IF b = 1 THEN MapBlock(used) ELSE disk[b]
<1>1. << >> \o <<At(1, MapBlock(used))>> = <<At(1, MapBlock(used))>>
  <2> DEFINE x == At(1, MapBlock(used))
  <2> HIDE DEF x
  <2>1. x \in {x}
    OBVIOUS
  <2>2. << >> \o <<x>> = <<x>>
    BY <2>1, ShortSequences
  <2> QED  BY <2>2 DEF x
<1>2. WriteDisk(old, m, 0, used) = Put(disk, <<At(1, MapBlock(used))>>)
  BY <1>1 DEF WriteDisk
<1> QED  BY <1>2, PutOne

(* What a growing file leaves on each block when there are frames for it.  *)
FrameAt(n, k) == Frame(IF k < n THEN Allocated(k + 1) ELSE 0, ContentOfNew(n, k))
GrownBlocks(em, old, m, n, used) ==
    /\ em[1] = MapBlock(used) /\ em[m] = ResizedInode(old, n)
    /\ \A k \in 1 .. n : em[Allocated(k)] = FrameAt(n, k)
    /\ \A b \in BlockIds : b \notin {1, m} /\ (\A k \in 1 .. n : b # Allocated(k)) =>
          em[b] = IF old.first_frame # 0 /\ b = LastOf(disk, old.first_frame)
                  THEN [disk[b] EXCEPT !.next = Allocated(1)] ELSE disk[b]

LEMMA GrownDisk ==
    ASSUME TypeInv, NEW old, NEW m \in freemap \ {1}, NEW used,
           NEW n \in Nat \ {0}, n <= Cardinality(FreeBlocks)
    PROVE  GrownBlocks(WriteDisk(old, m, n, used), old, m, n, used)
<1> DEFINE R == GrowRange(old, m, n)
           first == old.first_frame
           v == LinkWrites(first)
           f == FrameWrites(n)
           y == ResizedInode(old, n)
           z == MapBlock(used)
           w == v \o f
           em == WriteDisk(old, m, n, used)
<1>1. {1, 2} \subseteq freemap /\ 1 \in BlockIds /\ m \in BlockIds /\ n \in Nat
  BY NoRef DEF TypeInv, Ids
<1>2. /\ v \in Seq(R) /\ f \in Seq(R) /\ w \in Seq(R)
      /\ ResizeWrites(old, m, n) = w \o <<At(m, y)>> /\ ResizeWrites(old, m, n) \in Seq(R)
  BY <1>1, ResizeParts
<1>3. Len(f) = n /\ \A k \in 1 .. n : f[k] = At(Allocated(k), FrameAt(n, k))
  BY <1>1, NewFramesTyped DEF FrameAt
<1>4. /\ \A k \in 1 .. n : f[k].bid = Allocated(k) /\ f[k].block = FrameAt(n, k)
      /\ \A k \in 1 .. n : Allocated(k) \in FreeBlocks
      /\ \A i, j \in 1 .. n : Allocated(i) = Allocated(j) => i = j
  <2>1. \A k \in 1 .. n : f[k].bid = Allocated(k) /\ f[k].block = FrameAt(n, k)
    BY <1>3 DEF At
  <2>2. Cardinality(FreeBlocks) \in Nat
    BY AllocatedBlocks
  <2>3. \A k \in 1 .. n : k \in 1 .. Cardinality(FreeBlocks)
    BY <2>2
  <2> QED  BY <2>1, <2>3, AllocatedBlocks
<1>5. \A k \in 1 .. n : Allocated(k) \in BlockIds /\ Allocated(k) \notin {1, m}
  BY <1>1, <1>4 DEF FreeBlocks
<1>6. OfTheirOwn(f)
  BY <1>3, <1>4 DEF OfTheirOwn
<1>7. \A b \in BlockIds : Put(disk, v)[b] =
         IF first # 0 /\ b = LastOf(disk, first) THEN [disk[b] EXCEPT !.next = Allocated(1)] ELSE disk[b]
  <2>1. CASE first = 0
    <3>1. v = << >>
      BY <2>1 DEF LinkWrites
    <3>2. Put(disk, << >>) = [b \in BlockIds |-> disk[b]]
      BY PutNothing
    <3> QED  BY <2>1, <3>1, <3>2
  <2>2. CASE first # 0
    <3> DEFINE last == LastOf(disk, first)
               x == [disk[last] EXCEPT !.next = Allocated(1)]
    <3>1. v = <<At(last, x)>>
      BY <2>2 DEF LinkWrites, GrowLink
    <3> HIDE DEF x
    <3>2. \A b \in BlockIds : Put(disk, <<At(last, x)>>)[b] = IF b = last THEN x ELSE disk[b]
      BY PutOne
    <3> HIDE DEF v
    <3> QED  BY <2>2, <3>1, <3>2 DEF x
  <2> QED  BY <2>1, <2>2
<1> HIDE DEF R, v, f, y, z
<1>8. /\ \A k \in 1 .. Len(f) : f[k].bid \in BlockIds => Put(disk, w)[f[k].bid] = f[k].block
      /\ \A b \in BlockIds : (\A k \in 1 .. Len(f) : f[k].bid # b) => Put(disk, w)[b] = Put(disk, v)[b]
  BY <1>2, <1>6, PutMore
<1> HIDE DEF w
<1>9. /\ \A k \in 1 .. n : Put(disk, w)[Allocated(k)] = FrameAt(n, k)
      /\ \A b \in BlockIds : (\A k \in 1 .. n : b # Allocated(k)) => Put(disk, w)[b] = Put(disk, v)[b]
  BY <1>3, <1>4, <1>5, <1>8
<1>10. Put(disk, ResizeWrites(old, m, n)) = [b \in BlockIds |-> IF b = m THEN y ELSE Put(disk, w)[b]]
  <2>1. w \in Seq(R)
    BY <1>2
  <2>2. Put(disk, w \o <<At(m, y)>>) = [b \in BlockIds |-> IF b = m THEN y ELSE Put(disk, w)[b]]
    BY <2>1, PutLast
  <2> QED  BY <1>2, <2>2
<1>11. em = [b \in BlockIds |-> IF b = 1 THEN z ELSE Put(disk, ResizeWrites(old, m, n))[b]]
  <2> DEFINE g == ResizeWrites(old, m, n)
  <2>1. em = Put(disk, g \o <<At(1, z)>>)
    BY DEF WriteDisk, z
  <2>2. g \in Seq(R)
    BY <1>2
  <2> HIDE DEF em, g
  <2>3. Put(disk, g \o <<At(1, z)>>) = [b \in BlockIds |-> IF b = 1 THEN z ELSE Put(disk, g)[b]]
    BY <2>2, PutLast
  <2> QED  BY <2>1, <2>3 DEF g
<1> HIDE DEF em
<1>12. \A b \in BlockIds : em[b] = IF b = 1 THEN z ELSE IF b = m THEN y ELSE Put(disk, w)[b]
  BY <1>10, <1>11
<1>13. em[1] = z /\ em[m] = y
  BY <1>1, <1>12
<1>14. \A k \in 1 .. n : em[Allocated(k)] = FrameAt(n, k)
  BY <1>5, <1>9, <1>12
<1>15. ASSUME NEW b \in BlockIds, b \notin {1, m}, \A k \in 1 .. n : b # Allocated(k)
       PROVE  em[b] = IF first # 0 /\ b = LastOf(disk, first)
                      THEN [disk[b] EXCEPT !.next = Allocated(1)] ELSE disk[b]
  BY <1>7, <1>9, <1>12, <1>15
<1> QED  BY <1>13, <1>14, <1>15 DEF GrownBlocks, em, y, z

(* Whatever a growing file finds, it leaves directories alone, and inodes  *)
(* but its own.                                                            *)
LEMMA WriteKinds ==
    ASSUME TypeInv, NEW old \in InodeRefs, NEW m, NEW n \in Nat, NEW used,
           n # 0 => old.size + FrameSize * n \in {FrameSize * k : k \in 0 .. MaxCursor}
    PROVE  \A b \in BlockIds :
              \/ WriteDisk(old, m, n, used)[b] = disk[b]
              \/ WriteDisk(old, m, n, used)[b].kind \in {"frame", "map"}
              \/ b = m /\ WriteDisk(old, m, n, used)[b].kind = "inode"
<1>0. MapBlock(used).kind = "map"
  BY DEF MapBlock
<1>1. CASE n = 0
  <2>1. \A b \in BlockIds : WriteDisk(old, m, n, used)[b] = IF b = 1 THEN MapBlock(used) ELSE disk[b]
    BY <1>1, PlainDisk
  <2> QED  BY <1>0, <2>1
<1>2. CASE n # 0
  <2> DEFINE R == GrowRange(old, m, n)
             w == ResizeWrites(old, m, n)
             z == MapBlock(used)
             em == WriteDisk(old, m, n, used)
             first == old.first_frame
             last == LastOf(disk, first)
  <2>1. w \in Seq(R)
    BY ResizeParts DEF TypeInv
  <2>2. em = Put(disk, w \o <<At(1, z)>>)
    BY <1>2 DEF WriteDisk
  <2>3. ResizedInode(old, n).kind = "inode"
    BY <1>2, ResizedTyped DEF InodeRefs
  <2>4. ASSUME NEW r \in R, r.bid \in BlockIds
        PROVE  r.block = disk[r.bid] \/ r.block.kind = "frame" \/ (r.bid = m /\ r.block.kind = "inode")
    <3>1. CASE r = GrowLink(first)
      <4>1. r.bid = last /\ r.block = [disk[last] EXCEPT !.next = Allocated(1)]
        BY <3>1 DEF GrowLink, At
      <4>2. disk[last] \in BlockRefs
        BY <2>4, <4>1 DEF TypeInv
      <4>3. disk[last].kind = "frame" => [disk[last] EXCEPT !.next = Allocated(1)].kind = "frame"
        <5>1. ASSUME disk[last].kind = "frame" PROVE disk[last] \in FrameRefs
          BY <4>2, <5>1, KindOf
        <5> QED  BY <5>1 DEF FrameRefs
      <4>4. disk[last].kind # "frame" => [disk[last] EXCEPT !.next = Allocated(1)] = disk[last]
        <5> DEFINE u == disk[last]
        <5>1. u.kind # "frame" => u \in SuperRefs \cup MapRefs \cup DirRefs \cup InodeRefs \cup {FreeBlock} \cup DataRefs
          BY <4>2 DEF BlockRefs, FrameRefs
        <5> HIDE DEF u
        <5>2. \A a : u \in SuperRefs \cup MapRefs \cup DirRefs \cup InodeRefs \cup {FreeBlock} \cup DataRefs =>
                 [u EXCEPT !.next = a] = u
          BY DEF SuperRefs, MapRefs, DirRefs, InodeRefs, FreeBlock, DataRefs
        <5> QED  BY <5>1, <5>2 DEF u
      <4> QED  BY <4>1, <4>3, <4>4
    <3>2. CASE r \in [bid : Refs, block : FrameRefs]
      BY <3>2 DEF FrameRefs
    <3>3. CASE r = At(m, ResizedInode(old, n))
      BY <2>3, <3>3 DEF At
    <3> QED  BY <2>4, <3>1, <3>2, <3>3 DEF GrowRange
  <2> HIDE DEF R, w, z, em
  <2>5. em = [b \in BlockIds |-> IF b = 1 THEN z ELSE Put(disk, w)[b]]
    BY <2>1, <2>2, PutLast
  <2>6. ASSUME NEW b \in BlockIds
        PROVE  \/ Put(disk, w)[b] = disk[b] \/ Put(disk, w)[b].kind = "frame"
               \/ b = m /\ Put(disk, w)[b].kind = "inode"
    <3>1. CASE \A k \in 1 .. Len(w) : w[k].bid # b
      BY <2>1, <3>1, PutMissed
    <3>2. CASE \E k \in 1 .. Len(w) : w[k].bid = b
      <4>1. PICK k \in 1 .. Len(w) : IsLastHit(w, b, k) /\ Put(disk, w)[b] = w[k].block
        BY <2>1, <3>2, PutLastHit
      <4>2. w[k] \in R /\ w[k].bid = b
        BY <2>1, <4>1 DEF IsLastHit
      <4> QED  BY <2>4, <4>1, <4>2
    <3> QED  BY <3>1, <3>2
  <2> QED  BY <1>0, <2>5, <2>6 DEF em, z
<1> QED  BY <1>1, <1>2

-----------------------------------------------------------------------------
(* The places of the blocks that the new frames list, among the allocated  *)
(* ones.                                                                   *)
PlaceOf(n, k, i) == n + (k - 1) * FrameCount + i + 1

LEMMA PlacesOfBlocks ==
    ASSUME NEW n \in Nat
    PROVE  /\ BlocksFor(n) \in Nat /\ n <= BlocksFor(n)
           /\ \A k \in 1 .. n : \A i \in FramePlaces : PlaceOf(n, k, i) \in n + 1 .. BlocksFor(n)
           /\ \A k, l \in 1 .. n : \A i, j \in FramePlaces : PlaceOf(n, k, i) = PlaceOf(n, l, j) => k = l /\ i = j
           /\ \A p \in n + 1 .. BlocksFor(n) : \E k \in 1 .. n : \E i \in FramePlaces : p = PlaceOf(n, k, i)
           /\ n >= 1 => PlaceOf(n, n, FrameCount - 1) = BlocksFor(n) /\ FrameCount - 1 \in FramePlaces
<1> DEFINE c == FrameCount
<1>1. c \in Nat \ {0} /\ FramePlaces = 0 .. c - 1
  BY SizesAssumption DEF FramePlaces
<1> HIDE DEF c
<1>2. \A x, y \in Nat : c * x + c * y = c * (x + y) /\ x * c = c * x /\ c * x \in Nat
  BY <1>1
<1>3. BlocksFor(n) = n + c * n /\ \A k, i : PlaceOf(n, k, i) = n + (k - 1) * c + i + 1
  BY <1>1, <1>2 DEF BlocksFor, PlaceOf, c
<1>4. BlocksFor(n) \in Nat /\ n <= BlocksFor(n)
  <2>1. c * n \in Nat
    BY <1>2
  <2>2. \A x \in Nat : n + x \in Nat /\ n <= n + x
    OBVIOUS
  <2> QED  BY <1>3, <2>1, <2>2
<1>5. \A k \in 1 .. n : k - 1 \in Nat /\ (k - 1) * c = c * (k - 1) /\ c * (k - 1) \in Nat
  BY <1>2
<1>6. \A k \in 1 .. n : c * (k - 1) + c <= c * n
  <2>1. ASSUME NEW k \in 1 .. n PROVE c * (k - 1) + c <= c * n
    <3>1. k - 1 \in Nat /\ n - k \in Nat /\ 1 \in Nat /\ (k - 1) + 1 = k /\ k + (n - k) = n /\ k \in Nat
      OBVIOUS
    <3>2. c * (k - 1) + c * 1 = c * k /\ c * k + c * (n - k) = c * n /\ c * (n - k) \in Nat
      BY <1>2, <3>1
    <3>3. c * 1 = c
      BY <1>1
    <3>4. c * (k - 1) \in Nat /\ c * k \in Nat /\ c * n \in Nat
      BY <1>2, <3>1
    <3> QED  BY <1>1, <3>2, <3>3, <3>4
  <2> QED  BY <2>1
<1>7. \A k \in 1 .. n : \A i \in FramePlaces : PlaceOf(n, k, i) \in n + 1 .. BlocksFor(n)
  <2>1. ASSUME NEW k \in 1 .. n, NEW i \in FramePlaces PROVE PlaceOf(n, k, i) \in n + 1 .. BlocksFor(n)
    <3>1. PlaceOf(n, k, i) = n + c * (k - 1) + i + 1 /\ c * (k - 1) \in Nat
      BY <1>3, <1>5
    <3>2. i \in 0 .. c - 1 /\ c * (k - 1) + c <= c * n /\ BlocksFor(n) = n + c * n /\ c * n \in Nat
      BY <1>1, <1>2, <1>3, <1>6
    <3> QED  BY <1>1, <3>1, <3>2
  <2> QED  BY <2>1
<1>8. \A k, l \in 1 .. n : \A i, j \in FramePlaces : PlaceOf(n, k, i) = PlaceOf(n, l, j) => k = l /\ i = j
  <2>1. ASSUME NEW k \in 1 .. n, NEW l \in 1 .. n, NEW i \in FramePlaces, NEW j \in FramePlaces,
               PlaceOf(n, k, i) = PlaceOf(n, l, j)
        PROVE  k = l /\ i = j
    <3>1. /\ PlaceOf(n, k, i) = n + c * (k - 1) + i + 1 /\ c * (k - 1) \in Nat
          /\ PlaceOf(n, l, j) = n + c * (l - 1) + j + 1 /\ c * (l - 1) \in Nat
          /\ k - 1 \in Nat /\ l - 1 \in Nat /\ i \in 0 .. c - 1 /\ j \in 0 .. c - 1
      BY <1>1, <1>3, <1>5
    <3>2. c * (k - 1) + i = c * (l - 1) + j
      <4>1. \A x, y, a, b \in Nat : n + x + a + 1 = n + y + b + 1 => x + a = y + b
        OBVIOUS
      <4>2. i \in Nat /\ j \in Nat
        BY <3>1
      <4>3. n + c * (k - 1) + i + 1 = n + c * (l - 1) + j + 1
        BY <2>1, <3>1
      <4> QED  BY <3>1, <4>1, <4>2, <4>3
    <3>3. /\ (c * (k - 1) + i) \div c = k - 1 /\ (c * (k - 1) + i) % c = i
          /\ (c * (l - 1) + j) \div c = l - 1 /\ (c * (l - 1) + j) % c = j
      BY <1>1, <3>1, QuotientAndRemainder
    <3>4. k - 1 = l - 1 /\ i = j
      BY <3>2, <3>3
    <3> QED  BY <3>4
  <2> QED  BY <2>1
<1>9. ASSUME NEW p \in n + 1 .. BlocksFor(n)
      PROVE  \E k \in 1 .. n : \E i \in FramePlaces : p = PlaceOf(n, k, i)
  <2> DEFINE a == p - n - 1
             q == a \div c
             r == a % c
  <2>1. a \in Nat /\ a < c * n /\ p = n + a + 1 /\ c * n \in Nat
    BY <1>2, <1>3, <1>4
  <2> HIDE DEF a
  <2>2. r \in 0 .. c - 1 /\ q \in Nat /\ a = c * q + r
    BY <1>1, <2>1, Division
  <2> HIDE DEF q, r
  <2>3. q < n
    <3>1. ASSUME q >= n PROVE FALSE
      <4>1. q - n \in Nat /\ n + (q - n) = q
        BY <2>2, <3>1
      <4>2. c * n + c * (q - n) = c * q /\ c * (q - n) \in Nat /\ c * q \in Nat
        BY <1>2, <2>2, <4>1
      <4> QED  BY <2>1, <2>2, <4>2
    <3> QED  BY <2>2, <3>1
  <2>4. q + 1 \in 1 .. n /\ (q + 1) - 1 = q /\ r \in FramePlaces
    BY <1>1, <2>2, <2>3
  <2>5. PlaceOf(n, q + 1, r) = n + c * q + r + 1
    BY <1>2, <1>3, <2>2, <2>4
  <2>6. p = PlaceOf(n, q + 1, r)
    BY <1>2, <2>1, <2>2, <2>5
  <2> QED  BY <2>4, <2>6
<1>10. n >= 1 => PlaceOf(n, n, FrameCount - 1) = BlocksFor(n) /\ FrameCount - 1 \in FramePlaces
  <2>1. ASSUME n >= 1 PROVE PlaceOf(n, n, c - 1) = BlocksFor(n) /\ c - 1 \in FramePlaces
    <3>1. n - 1 \in Nat /\ 1 \in Nat /\ (n - 1) + 1 = n
      BY <2>1
    <3>2. c * (n - 1) + c * 1 = c * n /\ (n - 1) * c = c * (n - 1) /\ c * (n - 1) \in Nat
      BY <1>2, <3>1
    <3>3. c * 1 = c
      BY <1>1
    <3> QED  BY <1>1, <1>3, <3>2, <3>3
  <2> QED  BY <2>1 DEF c
<1> QED  BY <1>4, <1>7, <1>8, <1>9, <1>10

NewFrameList(n) == [k \in 1 .. n |-> Allocated(k)]

LEMMA NewFrameListIs ==
    ASSUME TypeInv, NEW n \in Nat \ {0}, n <= Cardinality(FreeBlocks)
    PROVE  /\ NewFrameIds(NewFrameList(n), freemap) /\ Len(NewFrameList(n)) = n
           /\ \A k \in 1 .. n : NewFrameList(n)[k] = Allocated(k) /\ Allocated(k) \in FreeBlocks
           /\ \A k \in 1 .. n : Allocated(k) \in Refs \ {0} /\ Allocated(k) \in BlockIds \ freemap
           /\ \A k \in 1 .. n : FrameAt(n, k) \in FrameRefs
           /\ \A k \in 1 .. n : FrameAt(n, k).next = IF k < n THEN Allocated(k + 1) ELSE 0
           /\ \A k \in 1 .. n : \A i \in FramePlaces :
                 FrameAt(n, k).content[i] = Allocated(PlaceOf(n, k, i))
<1> DEFINE t == NewFrameList(n)
<1>1. \A k \in 1 .. n : t[k] = Allocated(k)
  BY DEF NewFrameList
<1>2. \A k \in 1 .. n : Allocated(k) \in FreeBlocks
  <2>1. \A k \in 1 .. n : k \in 1 .. Cardinality(FreeBlocks)
    BY AllocatedBlocks
  <2> QED  BY <2>1, AllocatedBlocks
<1>3. \A k, l \in 1 .. n : Allocated(k) = Allocated(l) => k = l
  <2>1. \A k \in 1 .. n : k \in 1 .. Cardinality(FreeBlocks)
    BY AllocatedBlocks
  <2> QED  BY <2>1, AllocatedBlocks
<1>4. \A k \in 1 .. n : Allocated(k) \in Refs \ {0} /\ Allocated(k) \in BlockIds \ freemap
  BY <1>2 DEF FreeBlocks, Refs, TypeInv
<1>5. t \in Seq(Refs \ {0}) /\ Len(t) = n
  BY <1>4 DEF NewFrameList
<1>6. NewFrameIds(t, freemap)
  <2> HIDE DEF t
  <2>1. \A k \in 1 .. Len(t) : k \in 1 .. n /\ t[k] = Allocated(k)
    BY <1>1, <1>5
  <2> QED  BY <1>3, <1>4, <1>5, <2>1 DEF NewFrameIds
<1>7. \A k \in 1 .. n : FrameAt(n, k) \in FrameRefs
  <2>1. n \in Nat /\ {1, 2} \subseteq freemap
    BY DEF TypeInv
  <2>2. /\ FrameWrites(n) \in Seq([bid : Refs, block : FrameRefs]) /\ Len(FrameWrites(n)) = n
        /\ \A k \in 1 .. n : FrameWrites(n)[k] = At(Allocated(k), FrameAt(n, k))
    BY <2>1, NewFramesTyped DEF FrameAt
  <2>3. ASSUME NEW k \in 1 .. n PROVE FrameAt(n, k) \in FrameRefs
    <3>1. FrameWrites(n)[k] \in [bid : Refs, block : FrameRefs]
      <4> DEFINE S == [bid : Refs, block : FrameRefs]
                 w == FrameWrites(n)
      <4>1. w \in Seq(S) /\ Len(w) = n
        BY <2>2
      <4> HIDE DEF S, w
      <4>2. w[k] \in S
        BY <4>1
      <4> QED  BY <4>2 DEF S, w
    <3>2. At(Allocated(k), FrameAt(n, k)).block = FrameAt(n, k)
      BY DEF At
    <3> QED  BY <2>2, <3>1, <3>2
  <2> QED  BY <2>3
<1>8. \A k \in 1 .. n : FrameAt(n, k).next = IF k < n THEN Allocated(k + 1) ELSE 0
  BY DEF FrameAt, Frame
<1>9. \A k \in 1 .. n : \A i \in FramePlaces : FrameAt(n, k).content[i] = Allocated(PlaceOf(n, k, i))
  BY DEF FrameAt, Frame, ContentOfNew, PlaceOf
<1> QED  BY <1>1, <1>2, <1>4, <1>5, <1>6, <1>7, <1>8, <1>9

LEMMA GrowthIsWritten ==
    ASSUME TypeInv, Intact, NEW m \in Inodes, NEW n \in Nat \ {0}, n <= Cardinality(FreeBlocks),
           disk[m].size + FrameSize * n \in {FrameSize * k : k \in 0 .. MaxCursor},
           NEW used, NEW em, GrownBlocks(em, disk[m], m, n, used)
    PROVE  GrowWrites(disk, sb, used, em, m, NewFrameList(n))
<1> DEFINE t == NewFrameList(n)
           first == disk[m].first_frame
           last == LastOf(disk, first)
<1>1. /\ Typed(disk, sb) /\ Tree(disk, sb, freemap) /\ Dirs = Listed(disk, sb)
      /\ Inodes = InodesUnder(disk, sb) /\ Shape(disk, sb) /\ HeldOnce(disk, sb)
      /\ OwnedUnder(disk, sb) \subseteq freemap \ {1, 2} /\ m # 0 /\ m # 1
  BY TreeBefore DEF Tree, Refs
<1>2. disk[m] \in InodeRefs
  BY <1>1, ShapeRefs
<1>3. /\ Len(t) = n
      /\ \A k \in 1 .. n : t[k] = Allocated(k) /\ Allocated(k) \in BlockIds \ freemap
      /\ \A k \in 1 .. n : Allocated(k) \in Refs \ {0}
      /\ \A k \in 1 .. n : FrameAt(n, k) \in FrameRefs
      /\ \A k \in 1 .. n : FrameAt(n, k).next = IF k < n THEN Allocated(k + 1) ELSE 0
  BY NewFrameListIs
<1> HIDE DEF t
<1>4. first # 0 => last \in FramesIn(disk, m) /\ last # 0
  <2>1. ASSUME first # 0 PROVE last \in FramesIn(disk, m) /\ last # 0
    <3>1. first \in Ids /\ LinksAreIds(disk) /\ OneWay(disk, first)
      BY <1>1, <2>1, Nexts, ListsEnd DEF Ids
    <3>2. last \in FramesIn(disk, m)
      BY <3>1, ListEnds DEF FramesIn
    <3>3. FramesIn(disk, m) \subseteq FramesUnder(disk, sb) /\ 0 \notin FramesUnder(disk, sb)
      BY <1>1, Nexts, PartsApart
    <3> QED  BY <3>2, <3>3
  <2> QED  BY <2>1
<1> HIDE DEF last
<1>5. em[0] = disk[0] /\ em[1] = MapBlock(used)
  <2>1. 0 \in BlockIds /\ 0 \notin {1, m} /\ \A k \in 1 .. n : 0 # Allocated(k)
    BY <1>1, <1>3, NoRef
  <2>2. ~(first # 0 /\ 0 = last)
    BY <1>4
  <2> QED  BY <2>1, <2>2 DEF GrownBlocks, last
<1>6. em[m] = [kind |-> "inode", size |-> disk[m].size + FrameSize * Len(t),
               first_frame |-> IF first = 0 THEN t[1] ELSE first, file_name |-> disk[m].file_name]
  <2>1. ResizedInode(disk[m], n) = [kind |-> "inode", size |-> disk[m].size + FrameSize * n,
            first_frame |-> IF first = 0 THEN Allocated(1) ELSE first, file_name |-> disk[m].file_name]
    BY <1>2, ResizedTyped
  <2>2. t[1] = Allocated(1)
    BY <1>3
  <2> QED  BY <1>3, <2>1, <2>2 DEF GrownBlocks
<1>7. \A k \in 1 .. Len(t) : em[t[k]] \in FrameRefs /\ em[t[k]].next = IF k < Len(t) THEN t[k + 1] ELSE 0
  <2>1. ASSUME NEW k \in 1 .. n PROVE em[t[k]] \in FrameRefs /\ em[t[k]].next = IF k < n THEN t[k + 1] ELSE 0
    <3>1. em[t[k]] = FrameAt(n, k)
      BY <1>3 DEF GrownBlocks
    <3>2. k < n => t[k + 1] = Allocated(k + 1)
      BY <1>3
    <3> QED  BY <1>3, <3>1, <3>2
  <2> QED  BY <1>3, <2>1
<1>8. ASSUME NEW b \in (Listed(disk, sb) \cup InodesUnder(disk, sb) \cup FramesUnder(disk, sb)) \ {m}
      PROVE  em[b] = IF first # 0 /\ b = last THEN [disk[b] EXCEPT !.next = t[1]] ELSE disk[b]
  <2>1. b \in freemap \ {1, 2} /\ b \in BlockIds
    BY <1>1, NoRef, ShapeRefs DEF OwnedUnder
  <2>2. b \notin {1, m} /\ (\A k \in 1 .. n : b # Allocated(k)) /\ t[1] = Allocated(1)
    BY <1>3, <2>1
  <2> QED  BY <2>1, <2>2 DEF GrownBlocks, last
<1> QED  BY <1>5, <1>6, <1>7, <1>8 DEF GrowWrites, t, last

LEMMA GrowthIsNew ==
    ASSUME TypeInv, NEW n \in Nat \ {0}, BlocksFor(n) <= Cardinality(FreeBlocks), NEW em,
           \A k \in 1 .. n : em[Allocated(k)] = FrameAt(n, k)
    PROVE  /\ NewOnes(em, NewFrameList(n), freemap) /\ n <= Cardinality(FreeBlocks)
           /\ UsedAfter(BlocksFor(n)) = freemap \cup NewBlocksIn(em, NewFrameList(n))
<1> DEFINE t == NewFrameList(n)
           c == Cardinality(FreeBlocks)
           N == BlocksFor(n)
<1>1. /\ N \in Nat /\ n <= N
      /\ \A k \in 1 .. n : \A i \in FramePlaces : PlaceOf(n, k, i) \in n + 1 .. N
      /\ \A k, l \in 1 .. n : \A i, j \in FramePlaces : PlaceOf(n, k, i) = PlaceOf(n, l, j) => k = l /\ i = j
      /\ \A p \in n + 1 .. N : \E k \in 1 .. n : \E i \in FramePlaces : p = PlaceOf(n, k, i)
  BY PlacesOfBlocks
<1>2. /\ c \in Nat /\ n <= c
      /\ \A k \in 1 .. c : Allocated(k) \in FreeBlocks
      /\ \A i, j \in 1 .. c : Allocated(i) = Allocated(j) => i = j
  <2>1. /\ c \in Nat
        /\ \A k \in 1 .. c : Allocated(k) \in FreeBlocks
        /\ \A i, j \in 1 .. c : Allocated(i) = Allocated(j) => i = j
    BY AllocatedBlocks
  <2>2. n <= c
    BY <1>1, <2>1
  <2> QED  BY <2>1, <2>2
<1>3. /\ NewFrameIds(t, freemap) /\ Len(t) = n
      /\ \A k \in 1 .. n : t[k] = Allocated(k)
      /\ \A k \in 1 .. n : \A i \in FramePlaces : FrameAt(n, k).content[i] = Allocated(PlaceOf(n, k, i))
  BY <1>2, NewFrameListIs
<1> HIDE DEF t, N, c
<1>4. \A k \in 1 .. n : \A i \in FramePlaces : em[t[k]].content[i] = Allocated(PlaceOf(n, k, i))
  BY <1>3
<1>5. N <= c
  BY DEF N, c
<1>6. \A k \in 1 .. n : k \in 1 .. c /\ \A i \in FramePlaces : PlaceOf(n, k, i) \in 1 .. c /\ PlaceOf(n, k, i) # k
  <2>1. ASSUME NEW k \in 1 .. n PROVE k \in 1 .. c
    BY <1>2
  <2>2. ASSUME NEW k \in 1 .. n, NEW i \in FramePlaces PROVE PlaceOf(n, k, i) \in 1 .. c /\ PlaceOf(n, k, i) # k
    <3>1. PlaceOf(n, k, i) \in n + 1 .. N
      BY <1>1
    <3> QED  BY <1>1, <1>2, <1>5, <3>1
  <2> QED  BY <2>1, <2>2
<1>7. \A k \in 1 .. n : \A i \in FramePlaces : em[t[k]].content[i] \in FreeBlocks
  BY <1>2, <1>4, <1>6
<1>8. FreeBlocks = BlockIds \ (freemap \cup {0})
  BY DEF FreeBlocks
<1>9. \A k, l \in 1 .. n : \A i, j \in FramePlaces :
         em[t[k]].content[i] = em[t[l]].content[j] => k = l /\ i = j
  <2>1. ASSUME NEW k \in 1 .. n, NEW l \in 1 .. n, NEW i \in FramePlaces, NEW j \in FramePlaces,
               em[t[k]].content[i] = em[t[l]].content[j]
        PROVE  k = l /\ i = j
    <3>1. Allocated(PlaceOf(n, k, i)) = Allocated(PlaceOf(n, l, j))
      BY <1>4, <2>1
    <3>2. PlaceOf(n, k, i) = PlaceOf(n, l, j)
      BY <1>2, <1>6, <3>1
    <3> QED  BY <1>1, <3>2
  <2> QED  BY <2>1
<1>10. \A k, l \in 1 .. n : \A i \in FramePlaces : t[k] # em[t[l]].content[i]
  <2>1. ASSUME NEW k \in 1 .. n, NEW l \in 1 .. n, NEW i \in FramePlaces, t[k] = em[t[l]].content[i]
        PROVE  FALSE
    <3>1. Allocated(k) = Allocated(PlaceOf(n, l, i))
      BY <1>3, <1>4, <2>1
    <3>2. k = PlaceOf(n, l, i)
      BY <1>2, <1>6, <3>1
    <3>3. PlaceOf(n, l, i) \in n + 1 .. N
      BY <1>1
    <3> QED  BY <1>1, <3>2, <3>3
  <2> QED  BY <2>1
<1>11. NewOnes(em, t, freemap)
  <2>1. \A k \in 1 .. n : \A i \in FramePlaces : em[t[k]].content[i] \notin freemap \cup {0}
    BY <1>7, <1>8
  <2> QED  BY <1>3, <1>9, <1>10, <2>1 DEF NewOnes
<1>12. UsedAfter(N) = freemap \cup NewBlocksIn(em, t)
  <2> DEFINE A == {Allocated(k) : k \in 1 .. N}
  <2>1. \A k \in 1 .. N : k \in 1 .. c
    BY <1>1, <1>2, <1>5
  <2>2. UsedAfter(N) = freemap \cup A
    <3>1. 0 \notin A
      BY <1>2, <1>8, <2>1
    <3> QED  BY <3>1 DEF UsedAfter
  <2>3. ASSUME NEW p \in 1 .. N PROVE Allocated(p) \in NewBlocksIn(em, t)
    <3>1. CASE p <= n
      <4>1. p \in 1 .. n
        BY <1>1, <3>1
      <4> QED  BY <1>3, <4>1 DEF NewBlocksIn, FramesOfList
    <3>2. CASE ~(p <= n)
      <4>1. p \in n + 1 .. N
        BY <1>1, <3>2
      <4>2. PICK k \in 1 .. n, i \in FramePlaces : p = PlaceOf(n, k, i)
        BY <1>1, <4>1
      <4>3. Allocated(p) = em[t[k]].content[i]
        BY <1>4, <4>2
      <4>4. t[k] \in FramesOfList(t)
        BY <1>3 DEF FramesOfList
      <4> QED  BY <4>3, <4>4 DEF NewBlocksIn, ContentsIn
    <3> QED  BY <3>1, <3>2
  <2>4. ASSUME NEW b \in NewBlocksIn(em, t) PROVE b \in A
    <3>1. CASE b \in FramesOfList(t)
      <4>1. PICK k \in 1 .. n : b = Allocated(k)
        BY <1>3, <3>1 DEF FramesOfList
      <4>2. k \in 1 .. N
        BY <1>1
      <4> QED  BY <4>1, <4>2
    <3>2. CASE b \notin FramesOfList(t)
      <4>1. PICK f \in FramesOfList(t) : b \in ContentsIn(em, f)
        BY <3>2 DEF NewBlocksIn
      <4>2. PICK k \in 1 .. n : f = t[k]
        BY <1>3, <4>1 DEF FramesOfList
      <4>3. PICK i \in FramePlaces : b = em[t[k]].content[i]
        BY <4>1, <4>2 DEF ContentsIn
      <4>4. PlaceOf(n, k, i) \in 1 .. N
        <5>1. PlaceOf(n, k, i) \in n + 1 .. N
          BY <1>1
        <5> QED  BY <1>1, <5>1
      <4> QED  BY <1>4, <4>3, <4>4
    <3> QED  BY <3>1, <3>2
  <2> QED  BY <2>2, <2>3, <2>4
<1> QED  BY <1>2, <1>11, <1>12 DEF t, N, c

-----------------------------------------------------------------------------
(* Where the bytes of a transfer go. *)
LEMMA QuotientBelow ==
    ASSUME NEW n \in Nat \ {0}, NEW q \in Nat, NEW a \in Nat, a < n * q
    PROVE  a \div n < q /\ a \div n \in Nat
<1> DEFINE d == a \div n
           r == a % n
<1>1. r \in 0 .. n - 1 /\ d \in Nat /\ a = n * d + r
  BY Division
<1> HIDE DEF d, r
<1>2. ASSUME d >= q PROVE FALSE
  <2>1. d - q \in Nat /\ q + (d - q) = d
    BY <1>1, <1>2
  <2>2. \A x, y \in Nat : n * x + n * y = n * (x + y) /\ n * x \in Nat
    OBVIOUS
  <2>3. n * q + n * (d - q) = n * d /\ n * (d - q) \in Nat /\ n * d \in Nat /\ n * q \in Nat
    BY <1>1, <2>1, <2>2
  <2> QED  BY <1>1, <2>3
<1>3. d < q
  BY <1>1, <1>2
<1> QED  BY <1>1, <1>3 DEF d

LEMMA QuotientOfProduct ==
    ASSUME NEW n \in Nat \ {0}, NEW q \in Nat
    PROVE  (n * q) \div n = q
<1>1. 0 \in 0 .. n - 1 /\ n * q + 0 = n * q
  OBVIOUS
<1> QED  BY <1>1, QuotientAndRemainder

LEMMA SizeInBlocks ==
    ASSUME NEW k \in Nat
    PROVE  /\ FrameSize * k = BlockSize * (FrameCount * k) /\ FrameCount * k \in Nat
           /\ (FrameSize * k) \div BlockSize = FrameCount * k
<1>1. BlockSize \in Nat \ {0} /\ FrameCount \in Nat \ {0}
  BY SizesAssumption
<1>2. \A x, y, z \in Nat : (x * y) * z = x * (y * z) /\ y * z \in Nat
  OBVIOUS
<1>3. FrameSize * k = BlockSize * (FrameCount * k) /\ FrameCount * k \in Nat
  BY <1>1, <1>2 DEF FrameSize
<1> QED  BY <1>1, <1>3, QuotientOfProduct

LEMMA PlaceIsLoaded ==
    ASSUME NEW cur \in Nat, cur < BlockSize, NEW length \in Nat, NEW p \in Nat, p <= cur + length
    PROVE  /\ FirstPlace(cur) = 0 /\ p \div BlockSize \in Nat
           /\ Places(cur, length) = ((cur + length) \div BlockSize) + 1
           /\ p \div BlockSize < Places(cur, length)
<1> DEFINE e == cur + length
           q == e \div BlockSize
           r == e % BlockSize
<1>1. BlockSize \in Nat \ {0} /\ e \in Nat
  BY SizesAssumption
<1>2. FirstPlace(cur) = 0
  <2>1. cur < BlockSize * 1 /\ 1 \in Nat
    BY <1>1
  <2>2. cur \div BlockSize < 1 /\ cur \div BlockSize \in Nat
    BY <1>1, <2>1, QuotientBelow
  <2> QED  BY <2>2 DEF FirstPlace
<1>3. q \in Nat /\ r \in 0 .. BlockSize - 1 /\ e = BlockSize * q + r
  BY <1>1, Division
<1> HIDE DEF q, r
<1>4. Places(cur, length) = q + 1
  BY <1>2, <1>3 DEF Places, q
<1>5. p < BlockSize * (q + 1) /\ q + 1 \in Nat
  <2>1. \A x, y \in Nat : BlockSize * x + BlockSize * y = BlockSize * (x + y) /\ BlockSize * x \in Nat
    BY <1>1
  <2>2. BlockSize * q + BlockSize * 1 = BlockSize * (q + 1) /\ BlockSize * 1 = BlockSize /\ BlockSize * q \in Nat
    BY <1>1, <1>3, <2>1
  <2> QED  BY <1>1, <1>3, <2>2
<1>6. p \div BlockSize < q + 1 /\ p \div BlockSize \in Nat
  BY <1>1, <1>5, QuotientBelow
<1> QED  BY <1>2, <1>4, <1>6 DEF q

LEMMA NoOverrun ==
    ASSUME NEW inode \in InodeRefs, NEW cur \in Nat, cur < BlockSize,
           NEW length \in Nat, cur + length < inode.size
    PROVE  ~Overruns(inode, cur, length)
<1>1. PICK k \in 0 .. MaxCursor : inode.size = FrameSize * k
  BY DEF InodeRefs
<1>2. k \in Nat /\ BlockSize \in Nat \ {0} /\ cur + length \in Nat
  BY SizesAssumption
<1>3. /\ inode.size = BlockSize * (FrameCount * k) /\ FrameCount * k \in Nat
      /\ inode.size \div BlockSize = FrameCount * k
  BY <1>1, <1>2, SizeInBlocks
<1>4. (cur + length) \div BlockSize < FrameCount * k /\ (cur + length) \div BlockSize \in Nat
  BY <1>2, <1>3, QuotientBelow
<1>5. Places(cur, length) = ((cur + length) \div BlockSize) + 1
  BY <1>2, PlaceIsLoaded
<1>6. ~(Places(cur, length) > inode.size \div BlockSize)
  BY <1>3, <1>4, <1>5
<1> QED  BY <1>6 DEF Overruns

LEMMA ContentIsStored ==
    ASSUME NEW dk, NEW s, NEW used, Typed(dk, s), Tree(dk, s, used), NEW m \in InodesUnder(dk, s), NEW k \in Nat
    PROVE  /\ \/ ContentBid(dk, dk[m], k) = -1
              \/ \E f \in FramesIn(dk, m) : ContentBid(dk, dk[m], k) \in ContentsIn(dk, f)
           /\ BlockSize * k < dk[m].size => ContentBid(dk, dk[m], k) \in Refs \ {0}
<1> DEFINE frames == Listing(dk, dk[m].first_frame)
           place == k \div FrameCount + 1
           bid == ContentBid(dk, dk[m], k)
<1>1. /\ Shape(dk, s) /\ HeldOnce(dk, s) /\ dk[0].kind = "super"
      /\ LinksAreIds(dk) /\ dk[m].first_frame \in BlockIds /\ IsFile(dk, m)
      /\ FramesIn(dk, m) \subseteq FramesUnder(dk, s)
      /\ \A f \in FramesUnder(dk, s) : dk[f].kind = "frame" /\ \A i \in FramePlaces : dk[f].content[i] \in Refs \ {0}
      /\ OneWay(dk, dk[m].first_frame) /\ dk[m] \in InodeRefs
  <2>1. Shape(dk, s) /\ HeldOnce(dk, s) /\ dk[0] = SuperBlock(s)
    BY DEF Tree
  <2>2. dk[0].kind = "super"
    BY <2>1 DEF SuperBlock
  <2> QED  BY <2>1, <2>2, Nexts, ShapeRefs, ListsEnd
<1>2. /\ frames \in Seq(Ids)
      /\ FramesIn(dk, m) = {frames[j] : j \in 1 .. Len(frames)}
  BY <1>1, ListingShape, ListedIds DEF IsWalk, FramesIn
<1>3. k % FrameCount \in FramePlaces /\ k \div FrameCount \in Nat /\ FrameCount \in Nat \ {0}
  BY Division, SizesAssumption DEF FramePlaces
<1> HIDE DEF frames
<1>4. DOMAIN frames = 1 .. Len(frames) /\ Len(frames) \in Nat
  BY <1>2
<1>5. bid = (LET frame == dk[IF place \in DOMAIN frames THEN frames[place] ELSE 0]
             IN  IF frame.kind = "frame" THEN frame.content[k % FrameCount] ELSE -1)
  BY DEF ContentBid, frames
<1>6. CASE place \in DOMAIN frames
  <2>1. frames[place] \in FramesIn(dk, m)
    BY <1>2, <1>4, <1>6
  <2>2. bid = dk[frames[place]].content[k % FrameCount]
    BY <1>1, <1>5, <1>6, <2>1
  <2>3. bid \in ContentsIn(dk, frames[place]) /\ bid \in Refs \ {0}
    BY <1>1, <1>3, <2>1, <2>2 DEF ContentsIn
  <2> QED  BY <2>1, <2>3
<1>7. CASE place \notin DOMAIN frames
  <2>1. bid = -1
    BY <1>1, <1>5, <1>7
  <2>2. Cardinality(FramesIn(dk, m)) = Len(frames)
    <3>1. CASE dk[m].first_frame = 0
      <4>1. FramesIn(dk, m) = {} /\ frames = << >>
        BY <1>1, <3>1, ListedIds, ListingShape DEF IsWalk, FramesIn, frames
      <4> QED  BY <4>1, FS_EmptySet
    <3>2. CASE dk[m].first_frame # 0
      <4>1. dk[m].first_frame \in Ids
        BY <1>1, <3>2 DEF Ids
      <4>2. \A i, j \in 1 .. Len(frames) : frames[i] = frames[j] => i = j
        BY <1>1, <4>1, OneWayIsInjective DEF frames
      <4> QED  BY <1>2, <4>2, CountDistinct
    <3> QED  BY <3>1, <3>2
  <2>3. /\ dk[m].size = BlockSize * (FrameCount * Len(frames))
        /\ FrameCount * Len(frames) \in Nat
    BY <1>1, <1>4, <2>2, SizeInBlocks DEF IsFile
  <2>4. ASSUME BlockSize * k < dk[m].size PROVE FALSE
    <3>1. BlockSize \in Nat \ {0} /\ BlockSize * k \in Nat
      <4>1. BlockSize \in Nat \ {0}
        BY SizesAssumption
      <4> QED  BY <4>1
    <3>2. k < FrameCount * Len(frames)
      <4>1. (BlockSize * k) \div BlockSize = k
        BY <3>1, QuotientOfProduct
      <4>2. (BlockSize * k) \div BlockSize < FrameCount * Len(frames)
        BY <2>3, <2>4, <3>1, QuotientBelow
      <4> QED  BY <4>1, <4>2
    <3>3. k \div FrameCount < Len(frames)
      BY <1>3, <1>4, <3>2, QuotientBelow
    <3>4. place \in 1 .. Len(frames)
      BY <1>3, <1>4, <3>3
    <3> QED  BY <1>4, <1>7, <3>4
  <2> QED  BY <2>1, <2>4
<1> QED  BY <1>6, <1>7

LEMMA TargetIsStored ==
    ASSUME NEW dk, NEW s, NEW used, Typed(dk, s), Tree(dk, s, used), NEW m \in InodesUnder(dk, s),
           NEW cur \in Nat, NEW length \in Nat, NEW p \in Nat
    PROVE  /\ \/ Target(dk, dk[m], cur, length, p) = -1
              \/ \E f \in FramesIn(dk, m) : Target(dk, dk[m], cur, length, p) \in ContentsIn(dk, f)
           /\ cur < BlockSize /\ p <= cur + length /\ p < dk[m].size =>
                 Target(dk, dk[m], cur, length, p) \in Refs \ {0}
<1> DEFINE k == FirstPlace(cur) + p \div BlockSize
<1>1. BlockSize \in Nat \ {0}
  BY SizesAssumption
<1>2. p \div BlockSize \in Nat /\ cur \div BlockSize \in Nat /\ p = BlockSize * (p \div BlockSize) + (p % BlockSize)
      /\ p % BlockSize \in 0 .. BlockSize - 1
  BY <1>1, Division
<1>3. k \in Nat
  BY <1>2 DEF FirstPlace
<1>4. Target(dk, dk[m], cur, length, p) =
         IF p \div BlockSize >= Places(cur, length) THEN -1 ELSE ContentBid(dk, dk[m], k)
  BY DEF Target, Bid
<1> HIDE DEF k
<1>5. /\ \/ ContentBid(dk, dk[m], k) = -1
         \/ \E f \in FramesIn(dk, m) : ContentBid(dk, dk[m], k) \in ContentsIn(dk, f)
      /\ BlockSize * k < dk[m].size => ContentBid(dk, dk[m], k) \in Refs \ {0}
  BY <1>3, ContentIsStored
<1>6. ASSUME cur < BlockSize, p <= cur + length, p < dk[m].size
      PROVE  Target(dk, dk[m], cur, length, p) \in Refs \ {0}
  <2>1. FirstPlace(cur) = 0 /\ p \div BlockSize < Places(cur, length) /\ Places(cur, length) = ((cur + length) \div BlockSize) + 1
    BY <1>6, PlaceIsLoaded
  <2>2. k = p \div BlockSize
    BY <1>2, <2>1 DEF k
  <2>3. (cur + length) \div BlockSize \in Nat
    BY <1>1, Division
  <2>4. ~(p \div BlockSize >= Places(cur, length))
    BY <1>2, <2>1, <2>3
  <2>5. BlockSize * k < dk[m].size
    <3>1. dk[m].size \in Nat
      <4>1. Shape(dk, s)
        BY DEF Tree
      <4>2. dk[m] \in InodeRefs
        BY <4>1, ShapeRefs
      <4>3. PICK j \in 0 .. MaxCursor : dk[m].size = FrameSize * j
        BY <4>2 DEF InodeRefs
      <4> QED  BY <4>3, FrameCounts
    <3>2. BlockSize * k \in Nat /\ BlockSize * k <= p
      <4> DEFINE x == BlockSize * k
      <4>1. x \in Nat /\ p = x + (p % BlockSize)
        BY <1>1, <1>2, <2>2
      <4> HIDE DEF x
      <4>2. x <= p
        BY <1>1, <1>2, <4>1
      <4> QED  BY <4>1, <4>2 DEF x
    <3> QED  BY <1>6, <3>1, <3>2
  <2> QED  BY <1>4, <1>5, <2>4, <2>5
<1> QED  BY <1>4, <1>5, <1>6

LEMMA BytesKinds ==
    ASSUME NEW dk, NEW inode, NEW cur, NEW buf, NEW b \in BlockIds
    PROVE  \/ WithBytes(dk, inode, cur, buf)[b] = dk[b]
           \/ /\ WithBytes(dk, inode, cur, buf)[b].kind = "data"
              /\ \E p \in cur .. cur + Len(buf) - 1 : Target(dk, inode, cur, Len(buf), p) = b
<1> DEFINE here == {p \in cur .. cur + Len(buf) - 1 : Target(dk, inode, cur, Len(buf), p) = b}
           bytes == [o \in 0 .. BlockSize - 1 |->
                     LET at == {p \in here : p % BlockSize = o}
                     IN  IF at = {} THEN ByteOf(dk[b], o)
                         ELSE buf[(CHOOSE p \in at : \A q \in at : q <= p) - cur + 1]]
<1>1. WithBytes(dk, inode, cur, buf)[b] = IF here = {} THEN dk[b] ELSE DataBlock(bytes)
  BY DEF WithBytes
<1>2. DataBlock(bytes).kind = "data"
  BY DEF DataBlock
<1> HIDE DEF bytes
<1>3. here # {} => \E p \in cur .. cur + Len(buf) - 1 : Target(dk, inode, cur, Len(buf), p) = b
  OBVIOUS
<1> QED  BY <1>1, <1>2, <1>3

(* The bytes of a write leave the tree as it is. *)
LEMMA BytesTree ==
    ASSUME NEW dk, NEW s, NEW used, Typed(dk, s), Tree(dk, s, used), NEW m \in InodesUnder(dk, s),
           NEW cur \in Nat, NEW buf \in Seq(Bytes), NEW em, Typed(em, s),
           em = WithBytes(dk, dk[m], cur, buf)
    PROVE  /\ Tree(em, s, used) /\ Listed(em, s) = Listed(dk, s)
           /\ InodesUnder(em, s) = InodesUnder(dk, s) /\ OwnedUnder(em, s) = OwnedUnder(dk, s)
           /\ \A b \in Listed(dk, s) \cup InodesUnder(dk, s) : em[b] = dk[b]
<1>1. Shape(dk, s) /\ HeldOnce(dk, s) /\ OwnedUnder(dk, s) \subseteq used \ {1, 2}
  BY DEF Tree
<1> DEFINE N == Listed(dk, s) \cup InodesUnder(dk, s) \cup FramesUnder(dk, s)
<1>2. /\ N \subseteq Refs \ {0} /\ N \subseteq BlockIds /\ 0 \in BlockIds /\ 1 \in BlockIds
      /\ \A f \in FramesUnder(dk, s) : ContentsIn(dk, f) \cap N = {} /\ 0 \notin ContentsIn(dk, f) /\ 1 \notin ContentsIn(dk, f)
      /\ FramesIn(dk, m) \subseteq FramesUnder(dk, s)
  <2>1. \A f \in FramesUnder(dk, s) : ContentsIn(dk, f) \cap N = {}
    BY <1>1, PartsApart
  <2>2. \A f \in FramesUnder(dk, s) : 0 \notin ContentsIn(dk, f) /\ 1 \notin ContentsIn(dk, f)
    BY <1>1, ShapeRefs DEF ContentsIn, Refs
  <2>3. N \subseteq Refs \ {0}
    BY <1>1, ShapeRefs
  <2>4. FramesIn(dk, m) \subseteq FramesUnder(dk, s)
    BY DEF FramesUnder
  <2> QED  BY <2>1, <2>2, <2>3, <2>4, NoRef
<1>3. ASSUME NEW b \in BlockIds, b \in N \cup {0, 1} PROVE em[b] = dk[b]
  <2>1. CASE em[b] # dk[b]
    <3>1. PICK p \in cur .. cur + Len(buf) - 1 : Target(dk, dk[m], cur, Len(buf), p) = b
      BY <2>1, BytesKinds
    <3>2. Len(buf) \in Nat /\ p \in Nat
      BY <3>1
    <3>3. b # -1
      BY SizesAssumption DEF BlockIds
    <3>4. \E f \in FramesIn(dk, m) : b \in ContentsIn(dk, f)
      BY <3>1, <3>2, <3>3, TargetIsStored
    <3> QED  BY <1>2, <1>3, <3>4
  <2> QED  BY <2>1
<1>4. em[0] = dk[0] /\ em[1] = dk[1] /\ \A b \in N : em[b] = dk[b]
  BY <1>2, <1>3
<1>5. /\ Tree(em, s, used) /\ Listed(em, s) = Listed(dk, s)
      /\ InodesUnder(em, s) = InodesUnder(dk, s) /\ OwnedUnder(em, s) = OwnedUnder(dk, s)
  BY <1>4, SameNodes
<1> QED  BY <1>4, <1>5

-----------------------------------------------------------------------------
FitsCursor(old, n) == n # 0 => old.size + FrameSize * n \in {FrameSize * k : k \in 0 .. MaxCursor}
GrownInode(old, n) == IF n = 0 THEN old ELSE ResizedInode(old, n)
UsedBy(n) == UsedAfter(BlocksFor(n))

LEMMA WriteDiskTyped ==
    ASSUME TypeInv, NEW old \in InodeRefs, NEW m \in Refs, NEW n \in Nat, FitsCursor(old, n)
    PROVE  /\ WriteDisk(old, m, n, UsedBy(n)) \in [BlockIds -> BlockRefs]
           /\ UsedBy(n) \in SUBSET Ids /\ GrownInode(old, n) \in InodeRefs
<1> DEFINE w == IF n = 0 THEN << >> ELSE ResizeWrites(old, m, n)
           used == UsedBy(n)
<1>1. used \in SUBSET Ids
  <2>1. BlocksFor(n) \in Nat
    BY PlacesOfBlocks
  <2> QED  BY <2>1, UsedRefs DEF UsedBy
<1>2. \E R : TypedWrites(R) /\ w \in Seq(R)
  <2>1. CASE n = 0
    <3>1. w \in Seq({}) /\ TypedWrites({})
      BY <2>1 DEF TypedWrites
    <3> QED  BY <3>1
  <2>2. CASE n # 0
    <3>1. n \in Nat \ {0} /\ w = ResizeWrites(old, m, n)
      BY <2>2
    <3> QED  BY <2>2, <3>1, ResizeWritesTyped DEF FitsCursor
  <2> QED  BY <2>1, <2>2
<1>3. WriteDisk(old, m, n, used) = Put(disk, w \o <<At(1, MapBlock(used))>>)
  BY DEF WriteDisk
<1>4. GrownInode(old, n) \in InodeRefs
  BY ResizedTyped DEF GrownInode, FitsCursor
<1> HIDE DEF w, used
<1>5. Put(disk, w \o <<At(1, MapBlock(used))>>) \in [BlockIds -> BlockRefs]
  BY <1>1, <1>2, PutTypedWrites
<1> QED  BY <1>1, <1>3, <1>4, <1>5 DEF used

(* A file grows into free blocks. *)
GrownTree(dk, m, n) ==
    /\ Typed(dk, sb) /\ Tree(dk, sb, UsedBy(n))
    /\ Listed(dk, sb) = Listed(disk, sb) /\ InodesUnder(dk, sb) = InodesUnder(disk, sb)
    /\ \A d \in Listed(disk, sb) : dk[d] = disk[d]
    /\ OwnedUnder(disk, sb) \subseteq OwnedUnder(dk, sb)
    /\ UsedBy(n) \ OwnedUnder(dk, sb) \subseteq freemap
    /\ dk[m] = GrownInode(disk[m], n)

(* The file keeps its frames and what they list; other blocks are kept.    *)
GrownFrom(dk, m) ==
    /\ \A b \in OwnedUnder(disk, sb) \ (FramesIn(disk, m) \cup {m}) : dk[b] = disk[b]
    /\ \A f \in FramesIn(disk, m) : dk[f].content = disk[f].content
    /\ \E t \in Seq(Ids) : LongerBy(disk, dk, m, t)

LEMMA FileGrows ==
    ASSUME TypeInv, Intact, NEW m \in Inodes, NEW n \in Nat, FitsCursor(disk[m], n),
           BlocksFor(n) <= Cardinality(FreeBlocks)
    PROVE  /\ GrownTree(WriteDisk(disk[m], m, n, UsedBy(n)), m, n)
           /\ GrownFrom(WriteDisk(disk[m], m, n, UsedBy(n)), m)
<1> DEFINE old == disk[m]
           used == UsedBy(n)
           em == WriteDisk(old, m, n, used)
           t == NewFrameList(n)
<1>1. /\ Typed(disk, sb) /\ Tree(disk, sb, freemap) /\ Inodes = InodesUnder(disk, sb)
      /\ Shape(disk, sb) /\ m \in Refs \ {0} /\ m \in freemap \ {1} /\ m \in BlockIds
      /\ disk[0] = SuperBlock(sb) /\ disk[1] = MapBlock(freemap)
      /\ disk \in [BlockIds -> BlockRefs] /\ sb \in Refs
  BY TreeBefore, NoRef DEF Tree, TypeInv, Refs
<1>2. old \in InodeRefs
  BY <1>1, ShapeRefs
<1>3. em \in [BlockIds -> BlockRefs] /\ Typed(em, sb)
  BY <1>1, <1>2, WriteDiskTyped DEF Typed
<1>4. CASE n = 0
  <2>1. used = freemap
    <3>1. BlocksFor(0) = 0
      BY SizesAssumption DEF BlocksFor
    <3>2. 1 .. 0 = {}
      OBVIOUS
    <3> QED  BY <1>4, <3>1, <3>2 DEF UsedBy, UsedAfter
  <2>2. \A b \in BlockIds : em[b] = disk[b]
    BY <1>1, <1>4, <2>1, PlainDisk
  <2>3. em = disk
    BY <1>1, <1>3, <2>2
  <2>4. old = GrownInode(old, n)
    BY <1>4 DEF GrownInode
  <2> HIDE DEF em, old, used
  <2>5. GrownTree(disk, m, n)
    BY <1>1, <2>1, <2>4 DEF GrownTree, Tree, used, old
  <2>6. GrownFrom(disk, m)
    <3> DEFINE frames == Listing(disk, disk[m].first_frame)
    <3>1. LinksAreIds(disk) /\ disk[m].first_frame \in BlockIds
      BY <1>1, Nexts
    <3>2. frames \in Seq(Ids)
      BY <3>1, ListingShape DEF IsWalk
    <3> HIDE DEF frames
    <3>3. frames \o << >> = frames /\ << >> \in Seq(Ids)
      BY <3>2, ConcatEmptySeq
    <3> QED  BY <3>3 DEF GrownFrom, LongerBy, frames
  <2> QED  BY <2>3, <2>5, <2>6 DEF em, old, used
<1>5. CASE n # 0
  <2>1. /\ n \in Nat \ {0} /\ n <= BlocksFor(n) /\ BlocksFor(n) \in Nat /\ Cardinality(FreeBlocks) \in Nat
    BY <1>5, PlacesOfBlocks, AllocatedBlocks
  <2>2. n <= Cardinality(FreeBlocks)
    BY <2>1
  <2> HIDE DEF em, used
  <2>3. GrownBlocks(em, old, m, n, used)
    BY <1>1, <2>1, <2>2, GrownDisk DEF em
  <2>4. GrowWrites(disk, sb, used, em, m, t)
    BY <1>5, <2>1, <2>2, <2>3, GrowthIsWritten DEF FitsCursor
  <2>5. NewOnes(em, t, freemap) /\ used = freemap \cup NewBlocksIn(em, t)
    <3>1. \A k \in 1 .. n : em[Allocated(k)] = FrameAt(n, k)
      BY <2>3 DEF GrownBlocks
    <3> QED  BY <2>1, <3>1, GrowthIsNew DEF used, UsedBy
  <2>6. GrowDone(disk, sb, used, em, m, t)
    <3>1. freemap \cup NewBlocksIn(em, t) \subseteq used
      BY <2>5
    <3>2. NewOnes(em, t, freemap) /\ m \in InodesUnder(disk, sb)
      BY <1>1, <2>5
    <3> HIDE DEF t
    <3> QED  BY <1>1, <1>3, <2>4, <3>1, <3>2, GrowTree
  <2>7. em[m] = GrownInode(old, n)
    BY <1>5, <2>3 DEF GrownBlocks, GrownInode
  <2>8. /\ Tree(em, sb, used) /\ Listed(em, sb) = Listed(disk, sb)
        /\ InodesUnder(em, sb) = InodesUnder(disk, sb)
        /\ \A d \in Listed(disk, sb) : em[d] = disk[d]
        /\ OwnedUnder(em, sb) = OwnedUnder(disk, sb) \cup NewBlocksIn(em, t)
    BY <2>6 DEF GrowDone
  <2>9. OwnedUnder(disk, sb) \subseteq OwnedUnder(em, sb) /\ used \ OwnedUnder(em, sb) \subseteq freemap
    BY <2>5, <2>8
  <2>10. GrownFrom(em, m)
    <3>1. /\ Marked(disk, sb, freemap) /\ OwnedUnder(disk, sb) \subseteq freemap \ {1, 2}
          /\ Shape(disk, sb) /\ HeldOnce(disk, sb) /\ m \in InodesUnder(disk, sb)
          /\ FramesIn(disk, m) \subseteq FramesUnder(disk, sb)
      BY <1>1 DEF Tree, Marked, FramesUnder
    <3>2. NewFrameIds(t, freemap) /\ NewOnes(em, t, freemap)
      BY <2>5 DEF NewOnes
    <3>3. t \in Seq(Ids)
      <4>1. Refs \ {0} \subseteq Ids
        BY DEF Refs, Ids
      <4> HIDE DEF t
      <4> QED  BY <3>2, <4>1, SeqMonotonic DEF NewFrameIds
    <3>4. \A k \in 1 .. n : Allocated(k) \notin freemap
      BY <2>1, <2>2, NewFrameListIs
    <3> HIDE DEF t
    <3>5. LongerBy(disk, em, m, t) /\ (old.first_frame # 0 => LastOf(disk, old.first_frame) \in FramesIn(disk, m))
      BY <1>1, <1>3, <2>4, <3>1, <3>2, GrownList
    <3>6. \A f \in FramesUnder(disk, sb) : em[f].content = disk[f].content
      <4> HIDE DEF em, old, used
      <4>1. Typed(disk, sb) /\ Typed(em, sb)
        BY <1>1, <1>3
      <4>2. FileGrown(disk, sb, em, m, t)
        BY <2>4, <3>1, <3>2, <4>1, GrownFile
      <4> QED  BY <4>2 DEF FileGrown
    <3>7. ASSUME NEW b \in OwnedUnder(disk, sb) \ (FramesIn(disk, m) \cup {m}) PROVE em[b] = disk[b]
      <4>1. b \in freemap /\ b # 1 /\ b # m
        BY <3>1, <3>7
      <4>2. b \in BlockIds
        BY <4>1 DEF TypeInv, Ids
      <4>3. \A k \in 1 .. n : b # Allocated(k)
        BY <3>4, <4>1
      <4> HIDE DEF old
      <4>4. em[b] = IF old.first_frame # 0 /\ b = LastOf(disk, old.first_frame)
                    THEN [disk[b] EXCEPT !.next = Allocated(1)] ELSE disk[b]
        BY <2>3, <4>1, <4>2, <4>3 DEF GrownBlocks
      <4> QED  BY <3>5, <3>7, <4>4
    <3> QED  BY <3>1, <3>3, <3>5, <3>6, <3>7 DEF GrownFrom
  <2> QED  BY <1>3, <2>7, <2>8, <2>9, <2>10 DEF GrownTree, used, em, old
<1> QED  BY <1>4, <1>5

-----------------------------------------------------------------------------
(* The parts of sfs_write. *)
WriteEnd(fd, buf) == fdtable[fd].cur + Len(buf)
WriteNew(fd, buf) == NewFrames(fdtable[fd].inode, WriteEnd(fd, buf))
WriteInode(fd, buf) == GrownInode(fdtable[fd].inode, WriteNew(fd, buf))
WriteStorage(fd, buf) ==
    WriteDisk(fdtable[fd].inode, FdFile(fd), WriteNew(fd, buf), UsedBy(WriteNew(fd, buf)))
WildByte(fd, buf, p) ==
    Target(WriteStorage(fd, buf), WriteInode(fd, buf), fdtable[fd].cur, Len(buf), p) = -1
WildWrite(fd, buf) ==
    \E p \in fdtable[fd].cur .. fdtable[fd].cur + Len(buf) - 1 : WildByte(fd, buf, p)
Written(fd, buf) ==
    /\ sb' = sb /\ freemap' = UsedBy(WriteNew(fd, buf))
    /\ disk' = WithBytes(WriteStorage(fd, buf), WriteInode(fd, buf), fdtable[fd].cur, buf)
    /\ fdtable' = [fdtable EXCEPT ![fd].cur = WriteEnd(fd, buf), ![fd].inode = WriteInode(fd, buf)]
    /\ ~Intact' => broken'
    /\ broken' => WildWrite(fd, buf) \/ ~Intact' \/ Overruns(WriteInode(fd, buf), fdtable[fd].cur, Len(buf))

LEMMA WriteIs ==
    ASSUME TypeInv, NEW fd \in Fds, NEW buf \in Buffers, sfs_write(fd, buf)
    PROVE  /\ result'.op = "write" /\ result'.fd = fd
           /\ fdtable[fd].cur \in Nat /\ fdtable[fd].inode \in InodeRefs /\ FdFile(fd) \in Refs
           /\ buf \in Seq(Bytes) /\ WriteEnd(fd, buf) \in 0 .. MaxCursor /\ WriteNew(fd, buf) \in Nat
           /\ FitsCursor(fdtable[fd].inode, WriteNew(fd, buf))
           /\ \/ Written(fd, buf)
              \/ Lose("write", fd) /\ ~IsChain(fdtable[fd].inode.first_frame)
<1> DEFINE cur == fdtable[fd].cur
           old == fdtable[fd].inode
           n == NewFrames(old, cur + Len(buf))
           inode == IF n = 0 THEN old ELSE ResizedInode(old, n)
           used == UsedAfter(BlocksFor(n))
           writes == IF n = 0 THEN << >> ELSE ResizeWrites(old, fdtable[fd].inode_bid, n)
           dk == Put(disk, writes \o <<At(1, MapBlock(used))>>)
           wild == \E p \in cur .. cur + Len(buf) - 1 : Target(dk, inode, cur, Len(buf), p) = -1
<1>1. /\ cur + Len(buf) <= MaxCursor
      /\ IF n > 0 /\ ~IsChain(old.first_frame) THEN Lose("write", fd)
         ELSE /\ sb' = sb
              /\ disk' = WithBytes(dk, inode, cur, buf) /\ freemap' = used
              /\ fdtable' = [fdtable EXCEPT ![fd].cur = cur + Len(buf), ![fd].inode = inode]
              /\ broken' \in {wild \/ ~Intact', wild \/ ~Intact' \/ Overruns(inode, cur, Len(buf))}
              /\ Return("write", fd, Len(buf))
  BY DEF sfs_write
<1>2. fdtable[fd] \in FdRefs /\ cur \in 0 .. MaxCursor /\ old \in InodeRefs /\ FdFile(fd) \in Refs
  BY DEF TypeInv, FdRefs, FdFile
<1>3. buf \in Seq(Bytes) /\ Len(buf) \in Nat
  BY CallsAssumption
<1>4. cur \in Nat /\ WriteEnd(fd, buf) \in 0 .. MaxCursor /\ WriteEnd(fd, buf) = cur + Len(buf)
  <2> HIDE DEF n, inode, used, dk, wild, old
  <2> QED  BY <1>1, <1>2, <1>3, SizesAssumption DEF WriteEnd
<1>5. n = WriteNew(fd, buf)
  BY DEF WriteNew, WriteEnd
<1>6. n \in Nat /\ FitsCursor(old, n)
  <2> DEFINE e == WriteEnd(fd, buf)
  <2>1. n = NewFrames(old, e)
    BY <1>4
  <2>2. e \in Nat /\ e <= MaxCursor
    BY <1>4, SizesAssumption
  <2> HIDE DEF e, old, n
  <2>3. /\ NewFrames(old, e) \in Nat
        /\ old.size + FrameSize * NewFrames(old, e) \in {FrameSize * k : k \in 0 .. MaxCursor}
    BY <1>2, <2>2, WholeFrames
  <2> QED  BY <2>1, <2>3 DEF FitsCursor
<1>7. /\ inode = WriteInode(fd, buf) /\ dk = WriteStorage(fd, buf) /\ used = UsedBy(WriteNew(fd, buf))
      /\ wild = WildWrite(fd, buf)
  <2>1. inode = WriteInode(fd, buf)
    BY <1>5 DEF WriteInode, GrownInode
  <2>2. used = UsedBy(WriteNew(fd, buf))
    BY <1>5 DEF UsedBy
  <2>3. dk = WriteStorage(fd, buf)
    BY <1>5, <2>2 DEF WriteStorage, WriteDisk, FdFile
  <2>4. wild = WildWrite(fd, buf)
    BY <2>1, <2>3 DEF WildWrite, WildByte
  <2> QED  BY <2>1, <2>2, <2>3, <2>4
<1>8. result'.op = "write" /\ result'.fd = fd
  <2> HIDE DEF inode, used, dk, wild
  <2> QED  BY <1>1 DEF Lose, Return
<1>9. CASE n > 0 /\ ~IsChain(old.first_frame)
  <2> HIDE DEF inode, used, dk, wild
  <2> QED  BY <1>1, <1>2, <1>3, <1>4, <1>5, <1>6, <1>8, <1>9
<1>10. CASE ~(n > 0 /\ ~IsChain(old.first_frame))
  <2> HIDE DEF inode, used, dk, wild
  <2>1. /\ sb' = sb /\ disk' = WithBytes(dk, inode, cur, buf) /\ freemap' = used
        /\ fdtable' = [fdtable EXCEPT ![fd].cur = cur + Len(buf), ![fd].inode = inode]
        /\ broken' \in {wild \/ ~Intact', wild \/ ~Intact' \/ Overruns(inode, cur, Len(buf))}
    BY <1>1, <1>10
  <2>2. (~Intact' => broken') /\ (broken' => wild \/ ~Intact' \/ Overruns(inode, cur, Len(buf)))
    BY <2>1
  <2>3. Written(fd, buf)
    BY <1>4, <1>7, <2>1, <2>2 DEF Written
  <2> QED  BY <1>2, <1>3, <1>4, <1>5, <1>6, <1>8, <2>3
<1> QED  BY <1>9, <1>10

-----------------------------------------------------------------------------
LEMMA TwoFields ==
    ASSUME NEW A, NEW B, NEW C, NEW D, NEW E,
           NEW x \in [valid : A, dir_bid : B, inode_bid : C, cur : D, inode : E],
           NEW e \in D, NEW inode \in E
    PROVE  LET y == [[x EXCEPT !.cur = e] EXCEPT !.inode = inode]
           IN  /\ y.cur = e /\ y.inode = inode
               /\ y.valid = x.valid /\ y.dir_bid = x.dir_bid /\ y.inode_bid = x.inode_bid
  OBVIOUS

(* The descriptor after a write. *)
LEMMA FdWritten ==
    ASSUME TypeInv, NEW fd \in Fds, NEW buf, Written(fd, buf)
    PROVE  /\ OnlyFd(fd)
           /\ fdtable'[fd].cur = WriteEnd(fd, buf) /\ fdtable'[fd].inode = WriteInode(fd, buf)
           /\ fdtable'[fd].dir_bid = fdtable[fd].dir_bid /\ fdtable'[fd].inode_bid = fdtable[fd].inode_bid
           /\ fdtable'[fd].valid = fdtable[fd].valid
<1> DEFINE e == WriteEnd(fd, buf)
           inode == WriteInode(fd, buf)
<1>1. fdtable' = [fdtable EXCEPT ![fd].cur = e, ![fd].inode = inode]
  BY DEF Written
<1> HIDE DEF e, inode
<1>2. fdtable[fd] \in FdRefs /\ fdtable \in [Fds -> FdRefs]
  BY DEF TypeInv
<1>3. fdtable' = [fdtable EXCEPT ![fd] = [[fdtable[fd] EXCEPT !.cur = e] EXCEPT !.inode = inode]]
  BY <1>1, <1>2
<1>4. fdtable'[fd] = [[fdtable[fd] EXCEPT !.cur = e] EXCEPT !.inode = inode] /\ OnlyFd(fd)
  BY <1>2, <1>3 DEF OnlyFd
<1>5. PICK x : x = fdtable[fd]
  OBVIOUS
<1>6. x \in [valid : BOOLEAN, dir_bid : Refs, inode_bid : Refs,
              cur : (0 .. MaxCursor) \cup {e}, inode : InodeRefs \cup {inode}]
  BY <1>2, <1>5 DEF FdRefs
<1>7. PICK y : y = [[x EXCEPT !.cur = e] EXCEPT !.inode = inode]
  OBVIOUS
<1>8. /\ y.cur = e /\ y.inode = inode
      /\ y.valid = x.valid /\ y.dir_bid = x.dir_bid /\ y.inode_bid = x.inode_bid
  <2>1. e \in (0 .. MaxCursor) \cup {e} /\ inode \in InodeRefs \cup {inode}
    OBVIOUS
  <2> QED  BY <1>6, <1>7, <2>1, TwoFields
<1>9. fdtable'[fd] = y
  BY <1>4, <1>5, <1>7
<1> QED  BY <1>4, <1>5, <1>8, <1>9 DEF e, inode

LEMMA WriteOthers ==
    ASSUME TypeInv, TypeInv', NEW fd \in Fds, NEW buf \in Buffers, sfs_write(fd, buf),
           Written(fd, buf), Intact'
    PROVE  /\ Dirs' = Dirs
           /\ \A d \in Dirs : \A n \in InodesOf(d) \ {FdFile(fd)} : KeepsFile(d, n)
           /\ \A d \in Dirs : disk'[d] = disk[d]
<1>a. PICK m : m = FdFile(fd)
  OBVIOUS
<1> DEFINE old == fdtable[fd].inode
           n == WriteNew(fd, buf)
           dk == WriteStorage(fd, buf)
<1>1. old \in InodeRefs /\ n \in Nat /\ FitsCursor(old, n)
  BY WriteIs
<1>2. disk' = WithBytes(dk, WriteInode(fd, buf), fdtable[fd].cur, buf) /\ sb' = sb
  BY DEF Written
<1>3. dk = WriteDisk(old, m, n, UsedBy(n))
  BY <1>a DEF WriteStorage
<1> HIDE DEF dk, n, old
<1>4. \A b \in BlockIds : dk[b] = disk[b] \/ dk[b].kind \in {"frame", "map"} \/ (b = m /\ dk[b].kind = "inode")
  <2>1. n # 0 => old.size + FrameSize * n \in {FrameSize * k : k \in 0 .. MaxCursor}
    BY <1>1 DEF FitsCursor
  <2>2. \A b \in BlockIds :
           \/ WriteDisk(old, m, n, UsedBy(n))[b] = disk[b]
           \/ WriteDisk(old, m, n, UsedBy(n))[b].kind \in {"frame", "map"}
           \/ b = m /\ WriteDisk(old, m, n, UsedBy(n))[b].kind = "inode"
    BY <1>1, <2>1, WriteKinds
  <2> QED  BY <1>3, <2>2
<1>5. \A b \in BlockIds : disk'[b] = dk[b] \/ disk'[b].kind = "data"
  BY <1>2, BytesKinds
<1>6. \A b \in BlockIds : disk'[b].kind = "dir" \/ (disk'[b].kind = "inode" /\ b # m) => disk'[b] = disk[b]
  BY <1>4, <1>5
<1>7. /\ Dirs' = Listed(disk', sb) /\ Inodes' = InodesUnder(disk', sb)
      /\ \A d : InodesOf(d)' = InodesIn(disk', d)
      /\ Typed(disk', sb) /\ Shape(disk', sb)
  BY <1>2, TreeAfter DEF Tree
<1>8. /\ \A e \in Dirs' : e \in BlockIds /\ disk'[e].kind = "dir"
      /\ \A e \in Inodes' : e \in BlockIds /\ disk'[e].kind = "inode"
  BY <1>7, ShapeRefs, NoRef
<1>9. \A e \in Dirs' : disk'[e] = disk[e] /\ disk[e].kind = "dir"
  BY <1>6, <1>8
<1>10. ButFor(m)
  <2>1. \A e \in Dirs' : disk[e].kind = "dir" /\ disk'[e].next_dir = disk[e].next_dir
    BY <1>9
  <2>2. ASSUME NEW e \in Dirs' PROVE InodesOf(e)' = InodesOf(e)
    <3>1. InodesIn(disk', e) = InodesIn(disk, e)
      BY <1>9 DEF InodesIn
    <3> QED  BY <1>7, <3>1 DEF InodesOf, InodesIn
  <2>3. \A x \in Inodes' \ {m} : disk'[x] = disk[x]
    BY <1>6, <1>8
  <2> QED  BY <2>1, <2>2, <2>3 DEF ButFor
<1>11. Dirs' = Dirs /\ \A d \in Dirs : \A x \in InodesOf(d) \ {m} : KeepsFile(d, x)
  BY <1>2, <1>10, OthersKept
<1> QED  BY <1>a, <1>9, <1>11

LEMMA CurrentIs ==
    ASSUME TypeInv, Intact, NEW fd \in Fds, Current(fd), NEW m, m = FdFile(fd)
    PROVE  /\ m \in Inodes /\ disk[m] = fdtable[fd].inode /\ IsChain(fdtable[fd].inode.first_frame)
           /\ fdtable[fd].dir_bid \in Dirs /\ m \in InodesOf(fdtable[fd].dir_bid)
           /\ m \in Refs \ {0}
<1>1. /\ fdtable[fd].dir_bid \in Dirs /\ m \in InodesOf(fdtable[fd].dir_bid)
      /\ disk[m] = fdtable[fd].inode
  BY DEF Current, FdFile
<1>2. m \in Inodes
  BY <1>1 DEF Inodes
<1>3. \A f \in FramesOf(m) : disk[f].kind = "frame"
  BY <1>1 DEF Intact
<1>4. IsChain(fdtable[fd].inode.first_frame)
  BY <1>1, <1>3 DEF IsChain, FramesOf
<1> QED  BY <1>1, <1>2, <1>4, TreeBefore

(* A write through a descriptor that agrees with the tree, while there are *)
(* blocks for it.                                                          *)
LEMMA WriteGood ==
    ASSUME TypeInv, Intact, TypeInv', NEW fd \in Fds, NEW buf \in Buffers, sfs_write(fd, buf),
           Written(fd, buf), Current(fd), BlocksFor(WriteNew(fd, buf)) <= Cardinality(FreeBlocks)
    PROVE  /\ Intact' /\ Leaked' \subseteq Leaked /\ Current(fd)'
           /\ fdtable[fd].cur < BlockSize /\ WriteEnd(fd, buf) < WriteInode(fd, buf).size => ~broken'
<1>a. PICK m : m = FdFile(fd)
  OBVIOUS
<1> DEFINE old == fdtable[fd].inode
           cur == fdtable[fd].cur
           n == WriteNew(fd, buf)
           dk == WriteStorage(fd, buf)
           inode == WriteInode(fd, buf)
<1>1. /\ old \in InodeRefs /\ n \in Nat /\ FitsCursor(old, n) /\ cur \in Nat /\ buf \in Seq(Bytes)
      /\ WriteEnd(fd, buf) = cur + Len(buf)
  BY WriteIs DEF WriteEnd
<1>2. /\ m \in Inodes /\ disk[m] = old
      /\ fdtable[fd].dir_bid \in Dirs /\ m \in InodesOf(fdtable[fd].dir_bid)
  BY <1>a, CurrentIs
<1>3. disk' = WithBytes(dk, inode, cur, buf) /\ sb' = sb /\ freemap' = UsedBy(n)
  BY DEF Written
<1>4. dk = WriteDisk(disk[m], m, n, UsedBy(n)) /\ inode = GrownInode(disk[m], n)
  BY <1>a, <1>2 DEF WriteStorage, WriteInode
<1>5. BlocksFor(n) <= Cardinality(FreeBlocks)
  OBVIOUS
<1>b. (broken' => WildWrite(fd, buf) \/ ~Intact' \/ Overruns(inode, cur, Len(buf)))
  BY DEF Written
<1>c. WildWrite(fd, buf) => \E p \in cur .. cur + Len(buf) - 1 : Target(dk, inode, cur, Len(buf), p) = -1
  BY DEF WildWrite, WildByte
<1> HIDE DEF dk, n, old, cur, inode
<1>6. GrownTree(dk, m, n)
  BY <1>1, <1>2, <1>4, <1>5, FileGrows
<1>7. /\ Typed(dk, sb) /\ Tree(dk, sb, UsedBy(n))
      /\ Listed(dk, sb) = Listed(disk, sb) /\ InodesUnder(dk, sb) = InodesUnder(disk, sb)
      /\ \A d \in Listed(disk, sb) : dk[d] = disk[d]
      /\ OwnedUnder(disk, sb) \subseteq OwnedUnder(dk, sb)
      /\ UsedBy(n) \ OwnedUnder(dk, sb) \subseteq freemap
      /\ dk[m] = inode
  BY <1>4, <1>6 DEF GrownTree
<1>8. /\ Dirs = Listed(disk, sb) /\ Inodes = InodesUnder(disk, sb) /\ Owned = OwnedUnder(disk, sb)
      /\ \A d : InodesOf(d) = InodesIn(disk, d)
  BY TreeBefore
<1>9. /\ Typed(disk', sb) /\ (Intact' <=> Tree(disk', sb, freemap'))
      /\ Dirs' = Listed(disk', sb) /\ \A d : InodesOf(d)' = InodesIn(disk', d)
      /\ Intact' => Owned' = OwnedUnder(disk', sb)
  BY <1>3, TreeAfter
<1>10. m \in InodesUnder(dk, sb)
  BY <1>2, <1>7, <1>8
<1>11. /\ Tree(disk', sb, UsedBy(n)) /\ Listed(disk', sb) = Listed(dk, sb)
       /\ OwnedUnder(disk', sb) = OwnedUnder(dk, sb)
       /\ \A b \in Listed(dk, sb) \cup InodesUnder(dk, sb) : disk'[b] = dk[b]
  <2>1. disk' = WithBytes(dk, dk[m], cur, buf)
    BY <1>3, <1>7
  <2> QED  BY <1>1, <1>7, <1>9, <1>10, <2>1, BytesTree
<1>12. Intact' /\ Owned' = OwnedUnder(dk, sb)
  BY <1>3, <1>9, <1>11
<1>13. Leaked' \subseteq Leaked
  BY <1>3, <1>7, <1>8, <1>12 DEF Leaked
<1>14. Current(fd)'
  <2>a. PICK d : d = fdtable[fd].dir_bid
    OBVIOUS
  <2>1. fdtable'[fd].dir_bid = d /\ fdtable'[fd].inode_bid = m /\ fdtable'[fd].inode = inode
    BY <1>a, <2>a, FdWritten DEF FdFile, inode
  <2>2. d \in Dirs /\ m \in InodesOf(d)
    BY <1>2, <2>a
  <2>3. d \in Dirs' /\ disk'[d] = disk[d] /\ disk'[m] = inode
    BY <1>7, <1>8, <1>9, <1>10, <1>11, <2>2
  <2>4. m \in InodesOf(d)'
    <3>1. InodesIn(disk', d) = InodesIn(disk, d)
      BY <2>3 DEF InodesIn
    <3> QED  BY <1>8, <1>9, <2>2, <3>1
  <2> QED  BY <2>1, <2>3, <2>4 DEF Current
<1>15. ASSUME cur < BlockSize, cur + Len(buf) < inode.size PROVE ~broken'
  <2>1. Len(buf) \in Nat /\ inode \in InodeRefs
    <3>1. Shape(dk, sb)
      BY <1>7 DEF Tree
    <3>2. dk[m] \in InodeRefs
      BY <1>7, <1>10, <3>1, ShapeRefs
    <3> QED  BY <1>1, <1>7, <3>2
  <2>2. ~Overruns(inode, cur, Len(buf))
    BY <1>1, <1>15, <2>1, NoOverrun
  <2>3. ASSUME NEW p \in cur .. cur + Len(buf) - 1 PROVE Target(dk, inode, cur, Len(buf), p) # -1
    <3>0. inode.size \in Nat
      <4>1. PICK j \in 0 .. MaxCursor : inode.size = FrameSize * j
        BY <2>1 DEF InodeRefs
      <4> QED  BY <4>1, FrameCounts
    <3>1. p \in Nat /\ p <= cur + Len(buf) /\ p < dk[m].size
      <4>1. p \in Nat /\ p <= cur + Len(buf) /\ p < inode.size
        BY <1>1, <1>15, <2>1, <3>0
      <4> QED  BY <1>7, <4>1
    <3>2. Target(dk, dk[m], cur, Len(buf), p) \in Refs \ {0}
      BY <1>1, <1>7, <1>10, <1>15, <2>1, <3>1, TargetIsStored
    <3>3. -1 \notin Refs
      BY SizesAssumption DEF Refs, BlockIds
    <3> QED  BY <1>7, <3>2, <3>3
  <2> QED  BY <1>b, <1>c, <1>12, <2>2, <2>3
<1> QED  BY <1>1, <1>12, <1>13, <1>14, <1>15 DEF cur, inode

(* A write that finds too few blocks.                                      *)
LEMMA WriteFull ==
    ASSUME TypeInv, Intact, TypeInv', NEW fd \in Fds, NEW buf \in Buffers, sfs_write(fd, buf),
           Written(fd, buf), Current(fd), ~(BlocksFor(WriteNew(fd, buf)) <= Cardinality(FreeBlocks))
    PROVE  /\ freemap' = Ids /\ WriteInode(fd, buf) # fdtable[fd].inode
           /\ ~Intact'
<1>a. PICK m : m = FdFile(fd)
  OBVIOUS
<1> DEFINE old == fdtable[fd].inode
           cur == fdtable[fd].cur
           n == WriteNew(fd, buf)
           dk == WriteStorage(fd, buf)
           inode == WriteInode(fd, buf)
           c == Cardinality(FreeBlocks)
<1>1. /\ old \in InodeRefs /\ n \in Nat /\ FitsCursor(old, n) /\ cur \in Nat /\ buf \in Seq(Bytes)
  BY WriteIs
<1>2. /\ m \in Inodes /\ disk[m] = old /\ m \in Refs \ {0}
      /\ fdtable[fd].dir_bid \in Dirs /\ m \in InodesOf(fdtable[fd].dir_bid)
  BY <1>a, CurrentIs
<1>3. disk' = WithBytes(dk, inode, cur, buf) /\ sb' = sb /\ freemap' = UsedBy(n)
  BY DEF Written
<1>4. dk = WriteDisk(disk[m], m, n, UsedBy(n)) /\ inode = GrownInode(disk[m], n)
  BY <1>a, <1>2 DEF WriteStorage, WriteInode
<1>5. c < BlocksFor(n) /\ c \in Nat /\ BlocksFor(n) \in Nat
  <2>1. BlocksFor(n) \in Nat
    BY <1>1, PlacesOfBlocks
  <2> QED  BY <2>1, AllocatedBlocks
<1> HIDE DEF dk, n, old, cur, inode, c
<1>6. freemap' = Ids
  <2>1. UsedAfter(BlocksFor(n)) = Ids
    BY <1>5, NoBlockLeft DEF c
  <2> QED  BY <1>3, <2>1 DEF UsedBy
<1>7. n \in Nat \ {0}
  <2>1. BlocksFor(0) = 0
    BY SizesAssumption DEF BlocksFor
  <2> QED  BY <1>1, <1>5, <2>1
<1>8. inode # old
  <2>1. ResizedInode(old, n).size = old.size + FrameSize * n
    BY <1>1, <1>7, ResizedTyped DEF FitsCursor
  <2>2. FrameSize * n >= 1
    <3>1. FrameSize \in Nat \ {0} /\ FrameSize * n >= FrameSize
      BY <1>7, FrameCounts, AtLeast
    <3>2. FrameSize * n \in Nat
      BY <1>7, FrameCounts
    <3> QED  BY <3>1, <3>2
  <2>3. old.size \in Nat
    <3>1. PICK j \in 0 .. MaxCursor : old.size = FrameSize * j
      BY <1>1 DEF InodeRefs
    <3> QED  BY <3>1, FrameCounts
  <2>4. FrameSize * n \in Nat
    BY <1>7, FrameCounts
  <2>5. old.size + FrameSize * n # old.size
    BY <2>2, <2>3, <2>4
  <2> QED  BY <1>2, <1>4, <1>7, <2>1, <2>5 DEF GrownInode
<1>9. /\ Typed(disk, sb) /\ Tree(disk, sb, freemap) /\ Inodes = InodesUnder(disk, sb)
      /\ Shape(disk, sb) /\ HeldOnce(disk, sb) /\ m \in freemap \ {1}
      /\ OwnedUnder(disk, sb) \subseteq freemap
  BY <1>2, TreeBefore DEF Tree, Refs
<1>10. \A b \in BlockIds : disk'[b] = dk[b] \/ disk'[b].kind = "data"
  BY <1>3, BytesKinds
<1>11. dk \in [BlockIds -> BlockRefs]
  <2>1. m \in Refs
    BY <1>2
  <2> QED  BY <1>1, <1>2, <1>4, <2>1, WriteDiskTyped
<1>12. CASE n <= c
  <2>1. GrownBlocks(dk, old, m, n, UsedBy(n))
    BY <1>2, <1>4, <1>7, <1>9, <1>12, GrownDisk DEF c
  <2> DEFINE t == NewFrameList(n)
  <2>2. GrowWrites(disk, sb, UsedBy(n), dk, m, t)
    BY <1>1, <1>2, <1>7, <1>12, <2>1, GrowthIsWritten DEF c, FitsCursor
  <2>3. /\ NewFrameIds(t, freemap) /\ Len(t) = n
        /\ \A k \in 1 .. n : t[k] = Allocated(k) /\ Allocated(k) \in Refs \ {0}
        /\ \A i \in FramePlaces : FrameAt(n, n).content[i] = Allocated(PlaceOf(n, n, i))
    BY <1>7, <1>12, NewFrameListIs DEF c
  <2> HIDE DEF t
  <2>4. FramesIn(dk, m) = FramesIn(disk, m) \cup FramesOfList(t)
    <3>1. Marked(disk, sb, freemap) /\ m \in InodesUnder(disk, sb) /\ Typed(dk, sb)
      BY <1>2, <1>9, <1>11 DEF Marked, Typed
    <3> QED  BY <1>9, <2>2, <2>3, <3>1, GrownList
  <2>5. dk[Allocated(n)].content[FrameCount - 1] = 0 /\ FrameCount - 1 \in FramePlaces
    <3>1. PlaceOf(n, n, FrameCount - 1) = BlocksFor(n) /\ FrameCount - 1 \in FramePlaces
      BY <1>7, PlacesOfBlocks
    <3>2. Allocated(BlocksFor(n)) = 0
      BY <1>5, AllocatedBlocks DEF c
    <3>3. dk[Allocated(n)] = FrameAt(n, n)
      BY <1>7, <2>1 DEF GrownBlocks
    <3> QED  BY <2>3, <3>1, <3>2, <3>3
  <2>6. dk[m] = inode
    BY <1>2, <1>4, <1>7, <2>1 DEF GrownBlocks, GrownInode
  <2>7. ASSUME Intact' PROVE FALSE
    <3>a. PICK d : d = fdtable[fd].dir_bid
      OBVIOUS
    <3>1. Dirs' = Dirs /\ disk'[d] = disk[d] /\ d \in Dirs
      BY <1>2, <2>7, <3>a, WriteOthers
    <3>2. /\ Typed(disk', sb) /\ Shape(disk', sb) /\ Dirs' = Listed(disk', sb)
          /\ \A x : InodesOf(x) = InodesIn(disk, x)
      BY <1>3, <2>7, TreeAfter, TreeBefore DEF Tree
    <3>3. m \in InodesUnder(disk', sb)
      <4>1. InodesIn(disk', d) = InodesIn(disk, d)
        BY <3>1 DEF InodesIn
      <4>2. m \in InodesIn(disk', d) /\ d \in Listed(disk', sb)
        BY <1>2, <3>a, <3>1, <3>2, <4>1
      <4> QED  BY <4>2 DEF InodesUnder
    <3>4. /\ disk'[m].kind = "inode" /\ IsFile(disk', m) /\ FramesIn(disk', m) \subseteq FramesUnder(disk', sb)
          /\ FramesUnder(disk', sb) \subseteq Refs \ {0}
          /\ \A f \in FramesUnder(disk', sb) : disk'[f].kind = "frame"
      BY <3>2, <3>3, ShapeRefs, Nexts
    <3>5. disk'[m] = dk[m]
      BY <1>2, <1>10, <3>4, NoRef
    <3>6. \A f \in FramesIn(disk', m) : disk'[f] = dk[f]
      BY <1>10, <3>4, NoRef
    <3>7. FramesIn(disk', m) = FramesIn(dk, m)
      <4>1. LinksAreIds(dk) /\ LinksAreIds(disk') /\ disk'[m].first_frame \in BlockIds
        BY <1>11, <3>2, <3>3, ListedRefs, Nexts
      <4>2. \A f \in Listed(disk', disk'[m].first_frame) : Next_of(dk[f]) = Next_of(disk'[f])
        BY <3>6 DEF FramesIn
      <4>3. Listed(dk, disk'[m].first_frame) = Listed(disk', disk'[m].first_frame)
        BY <4>1, <4>2, SameListing
      <4> QED  BY <3>5, <4>3 DEF FramesIn
    <3>8. Allocated(n) \in FramesIn(disk', m)
      <4>1. n \in 1 .. n
        BY <1>7
      <4>2. Allocated(n) \in FramesOfList(t)
        BY <2>3, <4>1 DEF FramesOfList
      <4> QED  BY <2>4, <3>7, <4>2
    <3>9. disk'[Allocated(n)].content[FrameCount - 1] # 0
      BY <2>5, <3>4, <3>8 DEF IsFile
    <3> QED  BY <2>5, <3>6, <3>8, <3>9
  <2> QED  BY <1>6, <1>8, <2>7 DEF inode, old
<1>13. CASE ~(n <= c)
  <2>1. Allocated(n) = 0
    BY <1>5, <1>7, <1>13, AllocatedBlocks DEF c
  <2>2. dk[0].kind = "frame"
    <3> DEFINE R == GrowRange(old, m, n)
               v == LinkWrites(old.first_frame)
               f == FrameWrites(n)
               w == v \o f
               g == ResizeWrites(old, m, n)
               y == ResizedInode(old, n)
               z == MapBlock(UsedBy(n))
    <3>1. {1, 2} \subseteq freemap /\ n \in Nat /\ 0 \in BlockIds /\ m # 0
      BY <1>2, <1>7, NoRef DEF TypeInv
    <3>2. v \in Seq(R) /\ f \in Seq(R) /\ w \in Seq(R) /\ g = w \o <<At(m, y)>> /\ g \in Seq(R)
      BY <3>1, ResizeParts
    <3>3. Len(f) = n /\ f[n] = At(0, FrameAt(n, n)) /\ f \in Seq([bid : Refs, block : FrameRefs])
      <4>1. /\ f \in Seq([bid : Refs, block : FrameRefs]) /\ Len(f) = n
            /\ \A k \in 1 .. n : f[k] =
                  At(Allocated(k), Frame(IF k < n THEN Allocated(k + 1) ELSE 0, ContentOfNew(n, k)))
        BY <3>1, NewFramesTyped
      <4>2. n \in 1 .. n
        BY <1>7
      <4> HIDE DEF f
      <4>3. f[n] = At(Allocated(n), Frame(IF n < n THEN Allocated(n + 1) ELSE 0, ContentOfNew(n, n)))
        BY <4>1, <4>2
      <4> QED  BY <2>1, <4>1, <4>3 DEF FrameAt
    <3>4. dk = Put(disk, g \o <<At(1, z)>>)
      BY <1>2, <1>4, <1>7 DEF WriteDisk
    <3> HIDE DEF R, v, f, g, y, z
    <3>5. w \in Seq(R) /\ Len(w) = Len(v) + n /\ Len(v) \in Nat
          /\ (\A j \in 1 .. n : w[Len(v) + j] = f[j])
          /\ (\A j \in Len(v) + 1 .. Len(v) + n : w[j] = f[j - Len(v)] /\ j - Len(v) \in 1 .. n)
      <4>1. v \in Seq(R) /\ f \in Seq(R) /\ Len(v) \in Nat
        BY <3>2
      <4>2. /\ Len(w) = Len(v) + Len(f)
            /\ \A j \in 1 .. Len(f) : w[Len(v) + j] = f[j]
            /\ \A j \in Len(v) + 1 .. Len(v) + Len(f) : w[j] = f[j - Len(v)]
        BY <4>1, Concatenation
      <4>3. \A j \in Len(v) + 1 .. Len(v) + n : j - Len(v) \in 1 .. n
        BY <1>7, <4>1
      <4> QED  BY <3>2, <3>3, <4>1, <4>2, <4>3
    <3> HIDE DEF w
    <3>6. w[Len(v) + n].bid = 0 /\ Len(v) + n \in 1 .. Len(w)
      <4>1. n \in 1 .. n
        BY <1>7
      <4> QED  BY <1>7, <3>3, <3>5, <4>1 DEF At
    <3>7. Put(disk, w)[0].kind = "frame"
      <4>0. w \in Seq(R) /\ 0 \in BlockIds
        BY <3>1, <3>5
      <4>1. PICK k \in 1 .. Len(w) : IsLastHit(w, 0, k) /\ Put(disk, w)[0] = w[k].block
        BY <3>6, <4>0, PutLastHit
      <4>2. k >= Len(v) + n
        BY <3>6, <4>1 DEF IsLastHit
      <4>3. k \in Len(v) + 1 .. Len(v) + n
        BY <1>7, <3>5, <4>2
      <4>4. w[k] = f[k - Len(v)] /\ k - Len(v) \in 1 .. Len(f)
        BY <3>3, <3>5, <4>3
      <4>5. w[k].block \in FrameRefs
        <5> DEFINE S == [bid : Refs, block : FrameRefs]
        <5>1. f \in Seq(S)
          BY <3>3
        <5> HIDE DEF S
        <5>2. f[k - Len(v)] \in S
          BY <4>4, <5>1
        <5> QED  BY <4>4, <5>2 DEF S
      <4> QED  BY <4>1, <4>5 DEF FrameRefs
    <3>8. Put(disk, g)[0] = Put(disk, w)[0]
      <4>1. w \in Seq(R)
        BY <3>5
      <4>2. Put(disk, w \o <<At(m, y)>>) = [b \in BlockIds |-> IF b = m THEN y ELSE Put(disk, w)[b]]
        BY <4>1, PutLast
      <4> QED  BY <3>1, <3>2, <4>2
    <3>9. dk[0] = Put(disk, g)[0]
      <4>1. g \in Seq(R)
        BY <3>2
      <4>2. Put(disk, g \o <<At(1, z)>>) = [b \in BlockIds |-> IF b = 1 THEN z ELSE Put(disk, g)[b]]
        BY <4>1, PutLast
      <4> QED  BY <3>1, <3>4, <4>2
    <3> QED  BY <3>7, <3>8, <3>9
  <2>3. disk'[0].kind # "super"
    BY <1>10, <2>2, NoRef
  <2>4. ~Intact'
    BY <1>3, <2>3, TreeAfter DEF Tree, SuperBlock
  <2> QED  BY <1>6, <1>8, <2>4 DEF inode, old
<1> QED  BY <1>12, <1>13

-----------------------------------------------------------------------------
(* The calls that follow a descriptor. *)
SameFile(fd) ==
    /\ fdtable'[fd].dir_bid = fdtable[fd].dir_bid /\ fdtable'[fd].inode_bid = fdtable[fd].inode_bid
    /\ fdtable'[fd].inode = fdtable[fd].inode /\ fdtable'[fd].valid = fdtable[fd].valid

LEMMA OneField ==
    ASSUME NEW A, NEW B, NEW C, NEW D, NEW E,
           NEW x \in [valid : A, dir_bid : B, inode_bid : C, cur : D, inode : E], NEW e \in D
    PROVE  LET y == [x EXCEPT !.cur = e]
           IN  /\ y.cur = e /\ y.inode = x.inode
               /\ y.valid = x.valid /\ y.dir_bid = x.dir_bid /\ y.inode_bid = x.inode_bid
  OBVIOUS

LEMMA CursorMoved ==
    ASSUME TypeInv, NEW fd \in Fds, NEW e, fdtable' = [fdtable EXCEPT ![fd].cur = e]
    PROVE  OnlyFd(fd) /\ SameFile(fd) /\ fdtable'[fd].cur = e
<1>1. fdtable[fd] \in FdRefs /\ fdtable \in [Fds -> FdRefs]
  BY DEF TypeInv
<1>2. fdtable'[fd] = [fdtable[fd] EXCEPT !.cur = e] /\ OnlyFd(fd)
  BY <1>1 DEF OnlyFd
<1>3. PICK x : x = fdtable[fd]
  OBVIOUS
<1>4. x \in [valid : BOOLEAN, dir_bid : Refs, inode_bid : Refs,
             cur : (0 .. MaxCursor) \cup {e}, inode : InodeRefs]
  BY <1>1, <1>3 DEF FdRefs
<1>5. PICK y : y = [x EXCEPT !.cur = e]
  OBVIOUS
<1>6. /\ y.cur = e /\ y.inode = x.inode
      /\ y.valid = x.valid /\ y.dir_bid = x.dir_bid /\ y.inode_bid = x.inode_bid
  <2>1. e \in (0 .. MaxCursor) \cup {e}
    OBVIOUS
  <2> QED  BY <1>4, <1>5, <2>1, OneField
<1>7. fdtable'[fd] = y
  BY <1>2, <1>3, <1>5
<1> QED  BY <1>2, <1>3, <1>6, <1>7 DEF SameFile

LEMMA DescriptorStep ==
    ASSUME TypeInv, NEW fd \in Fds,
           \/ sfs_close(fd) \/ sfs_eof(fd)
           \/ \E m \in Moves, loc \in {"set", "cur", "end"} : sfs_seek(fd, m, loc)
    PROVE  /\ UNCHANGED <<disk, sb, freemap, broken>> /\ OnlyFd(fd)
           /\ fdtable'[fd].valid => SameFile(fd)
<1>1. CASE sfs_close(fd)
  <2>1. /\ UNCHANGED <<disk, sb, freemap, broken>> /\ fdtable' = [fdtable EXCEPT ![fd] = ClosedFd]
    BY <1>1 DEF sfs_close
  <2> QED  BY <2>1 DEF TypeInv, OnlyFd, ClosedFd
<1>2. CASE sfs_eof(fd)
  <2>1. UNCHANGED <<disk, sb, freemap, broken>> /\ fdtable' = fdtable
    BY <1>2 DEF sfs_eof
  <2> QED  BY <2>1 DEF OnlyFd, SameFile
<1>3. ASSUME NEW m \in Moves, NEW loc \in {"set", "cur", "end"}, sfs_seek(fd, m, loc)
      PROVE  /\ UNCHANGED <<disk, sb, freemap, broken>> /\ OnlyFd(fd) /\ SameFile(fd)
  <2>1. /\ UNCHANGED <<disk, sb, freemap, broken>>
        /\ fdtable' = [fdtable EXCEPT ![fd].cur = SeekTo(fd, m, loc)]
    BY <1>3 DEF sfs_seek
  <2> QED  BY <2>1, CursorMoved
<1> QED  BY <1>1, <1>2, <1>3

LEMMA Numbers ==
    ASSUME TypeInv, NEW fd \in Fds
    PROVE  fdtable[fd].cur \in Nat /\ fdtable[fd].inode \in InodeRefs /\ fdtable[fd].inode.size \in Nat
<1>1. fdtable[fd].cur \in 0 .. MaxCursor /\ fdtable[fd].inode \in InodeRefs
  BY DEF TypeInv, FdRefs
<1>2. PICK k \in 0 .. MaxCursor : fdtable[fd].inode.size = FrameSize * k
  BY <1>1 DEF InodeRefs
<1>3. k \in Nat
  OBVIOUS
<1>4. FrameSize * k \in Nat
  BY <1>3, FrameCounts
<1> QED  BY <1>1, <1>2, <1>4

ReadCount(fd, length) == ReadLength(fdtable[fd].inode.size, fdtable[fd].cur, length)

LEMMA ReadStep ==
    ASSUME TypeInv, NEW fd \in Fds, NEW length \in Lengths, sfs_read(fd, length)
    PROVE  /\ UNCHANGED <<disk, sb, freemap>> /\ OnlyFd(fd) /\ SameFile(fd)
           /\ result'.op = "read" /\ result'.fd = fd
           /\ fdtable'[fd].cur = fdtable[fd].cur + ReadCount(fd, length)
           /\ broken' => \/ fdtable[fd].cur >= BlockSize
                         \/ fdtable'[fd].cur >= fdtable'[fd].inode.size
<1> DEFINE cur == fdtable[fd].cur
           inode == fdtable[fd].inode
           n == ReadCount(fd, length)
<1>1. /\ cur \in Nat /\ inode \in InodeRefs /\ inode.size \in Nat /\ length \in Nat /\ BlockSize \in Nat
  BY Numbers, CallsAssumption, SizesAssumption
<1>2. n \in Nat
  <2>1. n = ReadLength(inode.size, cur, length)
    BY DEF ReadCount
  <2> HIDE DEF cur, inode, n
  <2> QED  BY <1>1, <2>1 DEF ReadLength
<1>3. /\ fdtable' = [fdtable EXCEPT ![fd].cur = cur + n]
      /\ broken' \in {FALSE, cur <= inode.size /\ Overruns(inode, cur, n)}
      /\ UNCHANGED <<disk, sb, freemap>> /\ result'.op = "read" /\ result'.fd = fd
  BY DEF sfs_read, ReadCount, Return
<1> HIDE DEF n
<1>4. OnlyFd(fd) /\ SameFile(fd) /\ fdtable'[fd].cur = cur + n
  <2> HIDE DEF cur
  <2>1. fdtable' = [fdtable EXCEPT ![fd].cur = cur + n]
    BY <1>3
  <2> QED  BY <2>1, CursorMoved
<1>5. ASSUME broken' PROVE cur >= BlockSize \/ cur + n >= inode.size
  <2>1. Overruns(inode, cur, n)
    BY <1>3, <1>5
  <2> HIDE DEF cur, inode
  <2> QED  BY <1>1, <1>2, <2>1, NoOverrun
<1>6. fdtable'[fd].inode = inode
  BY <1>4 DEF SameFile
<1> HIDE DEF cur, inode
<1>7. UNCHANGED <<disk, sb, freemap>> /\ result'.op = "read" /\ result'.fd = fd
  BY <1>3
<1> QED  BY <1>4, <1>5, <1>6, <1>7 DEF cur, n

(* A write, and what makes it go astray. *)
LEMMA WriteStep ==
    ASSUME TypeInv, Intact, ~broken, NEW fd \in Held, NEW buf \in Buffers, sfs_write(fd, buf)
    PROVE  /\ result'.op = "write" /\ result'.fd = fd /\ fd \in Fds
           /\ OnlyFd(fd) /\ sb' = sb
           /\ broken' => \/ freemap' = Ids /\ fdtable'[fd].inode # fdtable[fd].inode
                         \/ ~Current(fd)
                         \/ fdtable[fd].cur >= BlockSize
                         \/ fdtable'[fd].cur >= fdtable'[fd].inode.size
           /\ ~broken' /\ Current(fd) => Leaked' \subseteq Leaked /\ Current(fd)'
           /\ ~broken' => \A d \in Dirs : \A n \in InodesOf(d) \ {FdFile(fd)} : KeepsFile(d, n)
           /\ fdtable'[fd].valid = fdtable[fd].valid /\ fdtable'[fd].inode_bid = fdtable[fd].inode_bid
           /\ /\ Current(fd) /\ BlocksFor(WriteNew(fd, buf)) <= Cardinality(FreeBlocks)
              /\ fdtable[fd].cur < BlockSize /\ WriteEnd(fd, buf) < WriteInode(fd, buf).size
              => ~broken'
<1>1. fd \in Fds
  BY DEF Held
<1>2. TypeInv'
  BY <1>1, WriteTyped
<1>3. /\ result'.op = "write" /\ result'.fd = fd
      /\ \/ Written(fd, buf)
         \/ Lose("write", fd) /\ ~IsChain(fdtable[fd].inode.first_frame)
  BY <1>1, WriteIs
<1>4. CASE Lose("write", fd) /\ ~IsChain(fdtable[fd].inode.first_frame)
  <2>1. broken' /\ fdtable' = fdtable /\ sb' = sb
    BY <1>4 DEF Lose
  <2>2. ~Current(fd)
    <3>1. PICK m : m = FdFile(fd)
      OBVIOUS
    <3> QED  BY <1>1, <1>4, <3>1, CurrentIs
  <2> QED  BY <1>1, <1>3, <2>1, <2>2 DEF OnlyFd
<1>5. CASE Written(fd, buf)
  <2>1. /\ OnlyFd(fd)
        /\ fdtable'[fd].cur = WriteEnd(fd, buf) /\ fdtable'[fd].inode = WriteInode(fd, buf)
        /\ fdtable'[fd].inode_bid = fdtable[fd].inode_bid
        /\ fdtable'[fd].valid = fdtable[fd].valid
    BY <1>1, <1>5, FdWritten
  <2>2. sb' = sb /\ (~broken' => Intact')
    BY <1>5 DEF Written
  <2>3. ASSUME ~broken'
        PROVE  \A d \in Dirs : \A n \in InodesOf(d) \ {FdFile(fd)} : KeepsFile(d, n)
    BY <1>1, <1>2, <1>5, <2>2, <2>3, WriteOthers
  <2>4. CASE ~Current(fd)
    BY <1>1, <1>3, <2>1, <2>2, <2>3, <2>4
  <2>5. ASSUME Current(fd), BlocksFor(WriteNew(fd, buf)) <= Cardinality(FreeBlocks)
        PROVE  /\ Leaked' \subseteq Leaked /\ Current(fd)'
               /\ fdtable[fd].cur < BlockSize /\ WriteEnd(fd, buf) < WriteInode(fd, buf).size => ~broken'
    BY <1>1, <1>2, <1>5, <2>5, WriteGood
  <2>6. ASSUME Current(fd), ~(BlocksFor(WriteNew(fd, buf)) <= Cardinality(FreeBlocks))
        PROVE  /\ freemap' = Ids /\ WriteInode(fd, buf) # fdtable[fd].inode /\ broken'
    <3>1. freemap' = Ids /\ WriteInode(fd, buf) # fdtable[fd].inode /\ ~Intact'
      BY <1>1, <1>2, <1>5, <2>6, WriteFull
    <3> QED  BY <2>2, <3>1
  <2>7. fdtable[fd].cur >= BlockSize \/ fdtable[fd].cur < BlockSize
    BY <1>1, Numbers, SizesAssumption
  <2>8. \/ fdtable'[fd].cur >= fdtable'[fd].inode.size
        \/ WriteEnd(fd, buf) < WriteInode(fd, buf).size
    <3>1. fdtable'[fd].cur \in Nat /\ fdtable'[fd].inode.size \in Nat
      <4>1. fdtable'[fd].cur \in 0 .. MaxCursor /\ fdtable'[fd].inode \in InodeRefs
        BY <1>1, <1>2 DEF TypeInv, FdRefs
      <4>2. PICK k \in 0 .. MaxCursor : fdtable'[fd].inode.size = FrameSize * k
        BY <4>1 DEF InodeRefs
      <4>3. FrameSize * k \in Nat
        BY <4>2, FrameCounts
      <4> QED  BY <4>1, <4>2, <4>3
    <3>2. fdtable'[fd].cur >= fdtable'[fd].inode.size \/ fdtable'[fd].cur < fdtable'[fd].inode.size
      BY <3>1
    <3> QED  BY <2>1, <3>2
  <2>9. CASE Current(fd) /\ BlocksFor(WriteNew(fd, buf)) <= Cardinality(FreeBlocks)
    BY <1>1, <1>3, <2>1, <2>2, <2>3, <2>5, <2>7, <2>8, <2>9
  <2>10. CASE Current(fd) /\ ~(BlocksFor(WriteNew(fd, buf)) <= Cardinality(FreeBlocks))
    BY <1>1, <1>3, <2>1, <2>2, <2>3, <2>6, <2>10
  <2> QED  BY <2>4, <2>9, <2>10
<1> QED  BY <1>3, <1>4, <1>5

-----------------------------------------------------------------------------
(* The action properties of Sfs, step by step. *)
BreakIsExplained ==
    ~broken /\ broken' =>
       \/ /\ freemap' = Ids
          /\ result'.op = "write" => fdtable'[result'.fd].inode # fdtable[result'.fd].inode
       \/ /\ result'.fd \in Held
          /\ \/ ~Current(result'.fd)
             \/ fdtable[result'.fd].cur >= BlockSize
             \/ /\ result'.op \in {"read", "write"}
                /\ fdtable'[result'.fd].cur >= fdtable'[result'.fd].inode.size

LeakIsExplained ==
    disk' # disk /\ ~broken' /\ ~(Leaked' \subseteq Leaked) =>
       \/ result'.op = "remove" /\ disk[fdtable[result'.fd].inode_bid].size > 0
       \/ result'.op = "rmdir" /\ sb' = 0 /\ disk[sb].next_dir # 0
       \/ result'.op \in {"write", "remove"} /\ ~Current(result'.fd)

StaleByOthers ==
    \A fd \in Held :
       disk' # disk /\ ~broken' /\ fdtable'[fd].valid /\ Current(fd) /\ ~Current(fd)' =>
           \/ result'.op = "rmdir" /\ sb' = 0
           \/ /\ result'.op \in {"write", "remove"} /\ result'.fd # fd
              /\ fdtable[result'.fd].inode_bid = fdtable[fd].inode_bid

LEMMA BreakStep == ASSUME IInv, [Next]_vars PROVE BreakIsExplained
<1>1. CASE UNCHANGED vars
  BY <1>1 DEF vars, BreakIsExplained
<1>2. CASE Next
  <2>1. TypeInv /\ Intact /\ ~broken
    BY <1>2 DEF IInv, Next
  <2>2. CASE sfs_print_info \/ sfs_reloadfs \/ sfs_lsdir \/ sfs_ls
    BY <2>1, <2>2, InformTyped DEF BreakIsExplained
  <2>3. ASSUME NEW d \in DirNames, sfs_mkdir(d) PROVE BreakIsExplained
    <3>1. result'.op = "mkdir" /\ (broken' => freemap' = Ids)
      BY <2>1, <2>3, MkdirStep
    <3> QED  BY <3>1 DEF BreakIsExplained
  <2>4. ASSUME NEW d \in DirNames, sfs_rmdir(d) PROVE BreakIsExplained
    <3>1. ~broken'
      BY <2>1, <2>4, RmdirStep
    <3> QED  BY <3>1 DEF BreakIsExplained
  <2>5. ASSUME NEW d \in DirNames, NEW f \in FileNames, sfs_open(d, f) PROVE BreakIsExplained
    <3>1. result'.op = "open" /\ (broken' => freemap' = Ids)
      BY <2>1, <2>5, OpenStep
    <3> QED  BY <3>1 DEF BreakIsExplained
  <2>6. ASSUME NEW fd \in Held,
               \/ sfs_close(fd) \/ sfs_eof(fd)
               \/ \E m \in Moves, loc \in {"set", "cur", "end"} : sfs_seek(fd, m, loc)
        PROVE  BreakIsExplained
    <3>1. broken' = broken
      BY <2>1, <2>6, DescriptorStep DEF Held
    <3> QED  BY <3>1 DEF BreakIsExplained
  <2>7. ASSUME NEW fd \in Held, sfs_remove(fd) PROVE BreakIsExplained
    <3>1. result'.fd = fd /\ (Current(fd) => ~broken')
      BY <2>1, <2>7, RemoveStep
    <3> QED  BY <3>1 DEF BreakIsExplained
  <2>8. ASSUME NEW fd \in Held, NEW buf \in Buffers, sfs_write(fd, buf) PROVE BreakIsExplained
    <3>1. /\ result'.op = "write" /\ result'.fd = fd
          /\ broken' => \/ freemap' = Ids /\ fdtable'[fd].inode # fdtable[fd].inode
                        \/ ~Current(fd)
                        \/ fdtable[fd].cur >= BlockSize
                        \/ fdtable'[fd].cur >= fdtable'[fd].inode.size
      BY <2>1, <2>8, WriteStep
    <3> QED  BY <3>1 DEF BreakIsExplained
  <2>9. ASSUME NEW fd \in Held, NEW n \in Lengths, sfs_read(fd, n) PROVE BreakIsExplained
    <3>1. /\ result'.op = "read" /\ result'.fd = fd
          /\ broken' => \/ fdtable[fd].cur >= BlockSize
                        \/ fdtable'[fd].cur >= fdtable'[fd].inode.size
      BY <2>1, <2>9, ReadStep DEF Held
    <3> QED  BY <3>1 DEF BreakIsExplained
  <2> QED  BY <1>2, <2>2, <2>3, <2>4, <2>5, <2>6, <2>7, <2>8, <2>9 DEF Next
<1> QED  BY <1>1, <1>2

LEMMA LeakStep == ASSUME IInv, [Next]_vars PROVE LeakIsExplained
<1>1. CASE UNCHANGED vars
  BY <1>1 DEF vars, LeakIsExplained
<1>2. CASE Next
  <2>1. TypeInv /\ Intact /\ ~broken
    BY <1>2 DEF IInv, Next
  <2>2. CASE sfs_print_info \/ sfs_reloadfs \/ sfs_lsdir \/ sfs_ls
    BY <2>1, <2>2, InformTyped DEF LeakIsExplained
  <2>3. ASSUME NEW d \in DirNames, sfs_mkdir(d) PROVE LeakIsExplained
    <3>1. ~broken' /\ disk' # disk => Leaked' \subseteq Leaked
      BY <2>1, <2>3, MkdirStep
    <3> QED  BY <3>1 DEF LeakIsExplained
  <2>4. ASSUME NEW d \in DirNames, sfs_rmdir(d) PROVE LeakIsExplained
    <3>1. result'.op = "rmdir" /\ (Leaked' \subseteq Leaked \/ (sb' = 0 /\ disk[sb].next_dir # 0))
      BY <2>1, <2>4, RmdirStep
    <3> QED  BY <3>1 DEF LeakIsExplained
  <2>5. ASSUME NEW d \in DirNames, NEW f \in FileNames, sfs_open(d, f) PROVE LeakIsExplained
    <3>1. ~broken' /\ disk' # disk => Leaked' \subseteq Leaked
      BY <2>1, <2>5, OpenStep
    <3> QED  BY <3>1 DEF LeakIsExplained
  <2>6. ASSUME NEW fd \in Held,
               \/ sfs_close(fd) \/ sfs_eof(fd)
               \/ \E m \in Moves, loc \in {"set", "cur", "end"} : sfs_seek(fd, m, loc)
        PROVE  LeakIsExplained
    <3>1. disk' = disk
      BY <2>1, <2>6, DescriptorStep DEF Held
    <3> QED  BY <3>1 DEF LeakIsExplained
  <2>7. ASSUME NEW fd \in Held, sfs_remove(fd) PROVE LeakIsExplained
    <3>1. /\ result'.op = "remove" /\ result'.fd = fd
          /\ Current(fd) /\ disk[FdFile(fd)].size = 0 => Leaked' \subseteq Leaked
      BY <2>1, <2>7, RemoveStep
    <3>2. ASSUME Current(fd) PROVE disk[FdFile(fd)].size \in Nat
      <4>1. disk[FdFile(fd)] = fdtable[fd].inode
        BY <3>2 DEF Current, FdFile
      <4> QED  BY <2>1, <4>1, Numbers DEF Held
    <3>3. CASE Current(fd)
      <4>1. disk[FdFile(fd)].size = 0 \/ disk[FdFile(fd)].size > 0
        BY <3>2, <3>3
      <4> QED  BY <3>1, <3>3, <4>1 DEF LeakIsExplained, FdFile
    <3>4. CASE ~Current(fd)
      BY <3>1, <3>4 DEF LeakIsExplained
    <3> QED  BY <3>3, <3>4
  <2>8. ASSUME NEW fd \in Held, NEW buf \in Buffers, sfs_write(fd, buf) PROVE LeakIsExplained
    <3>1. /\ result'.op = "write" /\ result'.fd = fd
          /\ ~broken' /\ Current(fd) => Leaked' \subseteq Leaked
      BY <2>1, <2>8, WriteStep
    <3> QED  BY <3>1 DEF LeakIsExplained
  <2>9. ASSUME NEW fd \in Held, NEW n \in Lengths, sfs_read(fd, n) PROVE LeakIsExplained
    <3>1. disk' = disk
      BY <2>1, <2>9, ReadStep DEF Held
    <3> QED  BY <3>1 DEF LeakIsExplained
  <2> QED  BY <1>2, <2>2, <2>3, <2>4, <2>5, <2>6, <2>7, <2>8, <2>9 DEF Next
<1> QED  BY <1>1, <1>2

(* A descriptor that agrees with the tree goes on agreeing, where it and   *)
(* its file are kept.                                                      *)
LEMMA KeptCurrent ==
    ASSUME NEW fd, Current(fd), SameFile(fd), KeepsFile(fdtable[fd].dir_bid, FdFile(fd))
    PROVE  Current(fd)'
  BY DEF Current, SameFile, KeepsFile, FdFile

LEMMA KeptByAll ==
    ASSUME NEW fd, Current(fd), SameFile(fd), KeepsFiles
    PROVE  Current(fd)'
<1>1. KeepsFile(fdtable[fd].dir_bid, FdFile(fd))
  BY DEF Current, KeepsFiles, FdFile
<1> QED  BY <1>1, KeptCurrent

LEMMA StaleStep == ASSUME IInv, [Next]_vars PROVE StaleByOthers
<1>1. CASE UNCHANGED vars
  BY <1>1 DEF vars, StaleByOthers
<1>2. CASE Next
  <2>1. TypeInv /\ Intact /\ ~broken
    BY <1>2 DEF IInv, Next
  <2>2. CASE sfs_print_info \/ sfs_reloadfs \/ sfs_lsdir \/ sfs_ls
    BY <2>1, <2>2, InformTyped DEF StaleByOthers
  <2>3. ASSUME fdtable' = fdtable, KeepsFiles PROVE StaleByOthers
    <3>1. \A fd : SameFile(fd)
      BY <2>3 DEF SameFile
    <3> QED  BY <2>3, <3>1, KeptByAll DEF StaleByOthers
  <2>4. ASSUME NEW d \in DirNames, sfs_mkdir(d) PROVE StaleByOthers
    <3>1. fdtable' = fdtable /\ (~broken' => KeepsFiles)
      BY <2>1, <2>4, MkdirStep
    <3> QED  BY <2>3, <3>1 DEF StaleByOthers
  <2>5. ASSUME NEW d \in DirNames, sfs_rmdir(d) PROVE StaleByOthers
    <3>1. fdtable' = fdtable /\ result'.op = "rmdir" /\ (sb' = 0 \/ KeepsFiles)
      BY <2>1, <2>5, RmdirStep
    <3> QED  BY <2>3, <3>1 DEF StaleByOthers
  <2>6. ASSUME NEW d \in DirNames, NEW f \in FileNames, sfs_open(d, f) PROVE StaleByOthers
    <3>1. (~broken' => KeepsFiles) /\ \A fd \in Held : fdtable'[fd] = fdtable[fd]
      BY <2>1, <2>6, OpenStep
    <3>2. \A fd \in Held : SameFile(fd)
      BY <3>1 DEF SameFile
    <3> QED  BY <3>1, <3>2, KeptByAll DEF StaleByOthers
  <2>7. ASSUME NEW fd \in Held,
               \/ sfs_close(fd) \/ sfs_eof(fd)
               \/ \E m \in Moves, loc \in {"set", "cur", "end"} : sfs_seek(fd, m, loc)
        PROVE  StaleByOthers
    <3>1. disk' = disk
      BY <2>1, <2>7, DescriptorStep DEF Held
    <3> QED  BY <3>1 DEF StaleByOthers
  <2>8. ASSUME NEW fd \in Held,
               \A d \in Dirs : \A n \in InodesOf(d) \ {FdFile(fd)} : KeepsFile(d, n),
               NEW e \in Held \ {fd}, Current(e), OnlyFd(fd), FdFile(e) # FdFile(fd)
        PROVE  Current(e)'
    <3>1. KeepsFile(fdtable[e].dir_bid, FdFile(e))
      BY <2>8 DEF Current, FdFile
    <3>2. SameFile(e)
      BY <2>8 DEF OnlyFd, Held, SameFile
    <3> QED  BY <2>8, <3>1, <3>2, KeptCurrent
  <2>9. ASSUME NEW fd \in Held, sfs_remove(fd) PROVE StaleByOthers
    <3>1. /\ result'.op = "remove" /\ result'.fd = fd /\ OnlyFd(fd)
          /\ ~broken' => ~fdtable'[fd].valid
          /\ ~broken' => \A d \in Dirs : \A n \in InodesOf(d) \ {FdFile(fd)} : KeepsFile(d, n)
      BY <2>1, <2>9, RemoveStep
    <3> QED  BY <2>8, <3>1 DEF StaleByOthers, FdFile
  <2>10. ASSUME NEW fd \in Held, NEW buf \in Buffers, sfs_write(fd, buf) PROVE StaleByOthers
    <3>1. /\ result'.op = "write" /\ result'.fd = fd /\ OnlyFd(fd)
          /\ ~broken' /\ Current(fd) => Current(fd)'
          /\ ~broken' => \A d \in Dirs : \A n \in InodesOf(d) \ {FdFile(fd)} : KeepsFile(d, n)
      BY <2>1, <2>10, WriteStep
    <3> QED  BY <2>8, <3>1 DEF StaleByOthers, FdFile
  <2>11. ASSUME NEW fd \in Held, NEW n \in Lengths, sfs_read(fd, n) PROVE StaleByOthers
    <3>1. disk' = disk
      BY <2>1, <2>11, ReadStep DEF Held
    <3> QED  BY <3>1 DEF StaleByOthers
  <2> QED  BY <1>2, <2>2, <2>4, <2>5, <2>6, <2>7, <2>9, <2>10, <2>11 DEF Next
<1> QED  BY <1>1, <1>2

(* BreaksAreExplained (fs.c): a call damages the tree, or goes through an  *)
(* id it was never given, only when it needs blocks and the map is full,   *)
(* through a descriptor that no longer agrees with the tree, in a transfer *)
(* that does not start in the first block of the file, or in one that      *)
(* reaches the file's end.                                                 *)
THEOREM BreaksHaveAReason == Spec => BreaksAreExplained
<1>1. IInv /\ [Next]_vars => BreakIsExplained
  BY BreakStep
<1> QED  BY <1>1, SfsInvariant, PTL DEF Spec, BreaksAreExplained, BreakIsExplained

(* LeaksAreExplained (fs.c): a block stays marked with nothing that leads  *)
(* to it only after the removal of a file with content, of the first       *)
(* directory while there are others, or a growth through a descriptor that *)
(* no longer agrees with the tree.                                         *)
THEOREM LeaksHaveAReason == Spec => LeaksAreExplained
<1>1. IInv /\ [Next]_vars => LeakIsExplained
  BY LeakStep
<1> QED  BY <1>1, SfsInvariant, PTL DEF Spec, LeaksAreExplained, LeakIsExplained

(* StaleOnlyByOthers (fs.c:473): an open descriptor stops to agree with    *)
(* the tree only when the file is grown or removed through another         *)
(* descriptor of it, or the first directory is removed.                    *)
THEOREM StaleByOthersOnly == Spec => StaleOnlyByOthers
<1>1. IInv /\ [Next]_vars => StaleByOthers
  BY StaleStep
<1> QED  BY <1>1, SfsInvariant, PTL DEF Spec, StaleOnlyByOthers, StaleByOthers
=============================================================================
