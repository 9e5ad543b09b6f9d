----------------------------- MODULE Arithmetic -----------------------------
(***************************************************************************)
(* Facts about \div and % that the proofs share: positions in a ring of   *)
(* slots or of bytes, and addresses in a disk of blocks.                   *)
(***************************************************************************)
EXTENDS Integers, TLAPS

(* The quotient and the remainder of an address. *)
LEMMA Division ==
    ASSUME NEW n \in Nat \ {0}, NEW a \in Nat
    PROVE  a % n \in 0 .. n - 1 /\ a \div n \in Nat /\ a = n * (a \div n) + (a % n)
<1>1. a % n \in 0 .. n - 1
  OBVIOUS
<1>2. a \div n \in Int /\ a = n * (a \div n) + (a % n)
  <2>1. a \div n \in Int
    OBVIOUS
  <2>2. a = n * (a \div n) + (a % n)
    OBVIOUS
  <2> QED BY <2>1, <2>2
<1>3. a \div n >= 0
  <2>1. ASSUME a \div n <= -1 PROVE FALSE
    <3>1. n * (a \div n) <= -n
      BY <1>2, <2>1
    <3> QED BY <1>1, <1>2, <3>1
  <2> QED BY <1>2, <2>1
<1> QED BY <1>1, <1>2, <1>3

LEMMA AtLeast ==
    ASSUME NEW n \in Nat \ {0}, NEW d \in Nat \ {0} PROVE n * d >= n
  OBVIOUS

(* A number is split into a quotient and a remainder in one way only. *)
LEMMA QuotientAndRemainder ==
    ASSUME NEW n \in Nat \ {0}, NEW q \in Nat, NEW r \in 0 .. n - 1
    PROVE  (n * q + r) \div n = q /\ (n * q + r) % n = r
<1> DEFINE a == n * q + r
           p == a \div n
           s == a % n
<1>1. a \in Nat
  OBVIOUS
<1>2. s \in 0 .. n - 1 /\ p \in Nat /\ a = n * p + s
  BY <1>1, Division
<1>3. n * q + r = n * p + s
  BY <1>2
<1> HIDE DEF a, p, s
<1>4. ASSUME q > p PROVE FALSE
  <2>1. n * (q - p) >= n
    BY <1>2, <1>4, AtLeast
  <2>2. n * (q - p) = n * q - n * p
    BY <1>2
  <2> QED BY <1>2, <1>3, <2>1, <2>2
<1>5. ASSUME p > q PROVE FALSE
  <2>1. n * (p - q) >= n
    BY <1>2, <1>5, AtLeast
  <2>2. n * (p - q) = n * p - n * q
    BY <1>2
  <2> QED BY <1>2, <1>3, <2>1, <2>2
<1>6. p = q
  BY <1>2, <1>4, <1>5
<1>7. s = r
  BY <1>2, <1>3, <1>6
<1> QED BY <1>6, <1>7 DEF s, p, a

LEMMA RemainderUnique ==
    ASSUME NEW n \in Nat \ {0}, NEW q \in Nat, NEW r \in 0 .. n - 1
    PROVE  (n * q + r) % n = r
  BY QuotientAndRemainder

(* A position in a ring of n, k places after a: at most one turn. *)
LEMMA RingPosition ==
    ASSUME NEW n \in Nat \ {0}, NEW a \in 0 .. n - 1, NEW k \in 0 .. n
    PROVE  (a + k) % n = IF a + k < n THEN a + k ELSE a + k - n
<1>1. CASE a + k < n
  <2>1. (n * 0 + (a + k)) % n = a + k
    BY <1>1, RemainderUnique
  <2> QED BY <1>1, <2>1
<1>2. CASE ~(a + k < n)
  <2> DEFINE r == a + k - n
  <2>1. r \in 0 .. n - 1 /\ n * 1 + r = a + k
    BY <1>2
  <2> HIDE DEF r
  <2>2. (n * 1 + r) % n = r
    BY <2>1, RemainderUnique
  <2> QED BY <1>2, <2>1, <2>2 DEF r
<1> QED BY <1>1, <1>2

(* A remainder may be taken before an addition. *)
LEMMA RemainderOfSum ==
    ASSUME NEW n \in Nat \ {0}, NEW a \in Nat, NEW b \in Nat
    PROVE  ((a % n) + b) % n = (a + b) % n
<1> DEFINE p == a \div n
           s == a % n
           u == (s + b) \div n
           v == (s + b) % n
<1>1. s \in 0 .. n - 1 /\ p \in Nat /\ a = n * p + s
  BY Division
<1>2. s + b \in Nat
  BY <1>1
<1>3. v \in 0 .. n - 1 /\ u \in Nat /\ s + b = n * u + v
  BY <1>2, Division
<1> HIDE DEF p, s, u, v
<1>4. n * (p + u) = n * p + n * u /\ p + u \in Nat
  BY <1>1, <1>3
<1>5. a + b = n * (p + u) + v
  BY <1>1, <1>3, <1>4
<1>6. (n * (p + u) + v) % n = v
  BY <1>3, <1>4, RemainderUnique
<1>7. (a + b) % n = v
  BY <1>5, <1>6
<1> QED BY <1>7 DEF v, s
=============================================================================
