------------------------------ MODULE Division ------------------------------
(***************************************************************************)
(* Facts about \div and % that the proofs about pages and ring buffers     *)
(* need: the prover knows these operators, but cannot reason about them    *)
(* and other arithmetic at the same time unless the divisor is a number.   *)
(***************************************************************************)
EXTENDS Integers, TLAPS

\* Quotient and remainder, and that there is only one pair of them.
LEMMA DivMod ==
  ASSUME NEW a \in Nat, NEW d \in Nat, d > 0
  PROVE  /\ a \div d \in Nat /\ a % d \in 0..d - 1
         /\ a = d * (a \div d) + (a % d)
  BY SMT

LEMMA MulLess ==
  ASSUME NEW d \in Nat, d > 0, NEW q \in Int, NEW t \in Int, q < t
  PROVE  d * q + d <= d * t
  BY SMT

LEMMA DivModUnique ==
  ASSUME NEW d \in Nat, d > 0, NEW a \in Nat, NEW q \in Nat, NEW m \in 0..d - 1, a = d * q + m
  PROVE  a \div d = q /\ a % d = m
  <1> DEFINE q1 == a \div d
             m1 == a % d
  <1>1. q1 \in Nat /\ m1 \in 0..d - 1 /\ a = d * q1 + m1
    BY DivMod
  <1> HIDE DEF q1, m1
  <1>2. CASE q < q1
    <2>1. d * q + d <= d * q1
      BY <1>1, <1>2, MulLess
    <2>2. d * q \in Int /\ d * q1 \in Int
      BY <1>1
    <2> QED BY <1>1, <2>1, <2>2
  <1>3. CASE q1 < q
    <2>1. d * q1 + d <= d * q
      BY <1>1, <1>3, MulLess
    <2>2. d * q \in Int /\ d * q1 \in Int
      BY <1>1
    <2> QED BY <1>1, <2>1, <2>2
  <1>4. CASE q = q1
    <2>1. d * q \in Int
      OBVIOUS
    <2>2. m = m1
      BY <1>1, <1>4, <2>1
    <2> QED BY <1>4, <2>2 DEF q1, m1
  <1> QED BY <1>1, <1>2, <1>3, <1>4
\* Pages come in the order of addresses.
LEMMA PagesInOrder ==
  ASSUME NEW d \in Nat, d > 0, NEW a \in Nat, NEW b \in Nat, a <= b
  PROVE  a \div d <= b \div d
  <1> DEFINE q == a \div d
             m == a % d
             t == b \div d
             n == b % d
  <1>1. q \in Nat /\ m \in 0..d - 1 /\ a = d * q + m
    BY DivMod
  <1>2. t \in Nat /\ n \in 0..d - 1 /\ b = d * t + n
    BY DivMod
  <1> HIDE DEF q, m, t, n
  <1>3. ASSUME t < q PROVE FALSE
    <2>1. d * t + d <= d * q
      BY <1>1, <1>2, <1>3, MulLess
    <2>2. d * q \in Int /\ d * t \in Int
      BY <1>1, <1>2
    <2> QED BY <1>1, <1>2, <2>1, <2>2
  <1>4. q <= t
    BY <1>1, <1>2, <1>3
  <1> QED BY <1>4 DEF q, t

\* An address k bytes after a, in the page of a.
LEMMA SamePage ==
  ASSUME NEW d \in Nat, d > 0, NEW a \in Nat, NEW k \in Nat, (a % d) + k < d
  PROVE  (a + k) \div d = a \div d /\ (a + k) % d = (a % d) + k
  <1> DEFINE q == a \div d
             m == a % d
  <1>1. q \in Nat /\ m \in 0..d - 1 /\ a = d * q + m /\ m + k < d
    BY DivMod
  <1> HIDE DEF q, m
  <1>2. d * q \in Int
    BY <1>1
  <1>3. m + k \in 0..d - 1 /\ a + k = d * q + (m + k) /\ a + k \in Nat
    BY <1>1, <1>2
  <1>4. (a + k) \div d = q /\ (a + k) % d = m + k
    BY <1>1, <1>3, DivModUnique
  <1> QED BY <1>4 DEF q, m

\* The beginning of a page is not in the page of an address before it.
LEMMA EarlierPage ==
  ASSUME NEW d \in Nat, d > 0, NEW a \in Nat, NEW b \in Nat, a % d = 0, b < a
  PROVE  b \div d # a \div d
  <1> DEFINE q == a \div d
             t == b \div d
             n == b % d
  <1>1. q \in Nat /\ a = d * q + 0
    <2>1. q \in Nat /\ a = d * q + (a % d)
      BY DivMod
    <2> QED BY <2>1
  <1>2. t \in Nat /\ n \in 0..d - 1 /\ b = d * t + n
    BY DivMod
  <1> HIDE DEF q, t, n
  <1>3. ASSUME t = q PROVE FALSE
    <2>1. d * q \in Int
      BY <1>1
    <2>2. b = d * q + n
      BY <1>2, <1>3
    <2> QED BY <1>1, <1>2, <2>1, <2>2
  <1> QED BY <1>3 DEF q, t

\* One page further, and to the end of the page.
LEMMA NextPage ==
  ASSUME NEW d \in Nat, d > 0, NEW a \in Nat
  PROVE  /\ a % d = 0 => (a + d) % d = 0
         /\ (a + (d - (a % d))) % d = 0
  <1> DEFINE q == a \div d
             m == a % d
  <1>1. q \in Nat /\ m \in 0..d - 1 /\ a = d * q + m
    BY DivMod
  <1> HIDE DEF q, m
  <1>2. d * q \in Int /\ d * (q + 1) = d * q + d
    BY <1>1
  <1>3. a + (d - m) = d * (q + 1) + 0 /\ a + (d - m) \in Nat /\ q + 1 \in Nat
    BY <1>1, <1>2
  <1>4. (a + (d - m)) % d = 0
    BY <1>3, DivModUnique
  <1>5. ASSUME m = 0 PROVE (a + d) % d = 0
    <2>1. a + (d - m) = a + d
      BY <1>5
    <2> QED BY <1>4, <2>1
  <1> QED BY <1>4, <1>5 DEF m

\* Slots of a ring: two positions less than d apart do not meet.
LEMMA RingDistinct ==
  ASSUME NEW d \in Nat, d > 0, NEW a \in Nat, NEW b \in Nat, a < b, b - a < d
  PROVE  a % d # b % d
  <1> DEFINE q == a \div d
             m == a % d
             t == b \div d
             n == b % d
  <1>1. q \in Nat /\ m \in 0..d - 1 /\ a = d * q + m
    BY DivMod
  <1>2. t \in Nat /\ n \in 0..d - 1 /\ b = d * t + n
    BY DivMod
  <1> HIDE DEF q, m, t, n
  <1>3. d * q \in Int /\ d * t \in Int
    BY <1>1, <1>2
  <1>4. ASSUME m = n PROVE FALSE
    <2>1. CASE q < t
      <3>1. d * q + d <= d * t
        BY <1>1, <1>2, <2>1, MulLess
      <3> QED BY <1>1, <1>2, <1>3, <1>4, <3>1
    <2>2. CASE t < q
      <3>1. d * t + d <= d * q
        BY <1>1, <1>2, <2>2, MulLess
      <3> QED BY <1>1, <1>2, <1>3, <1>4, <3>1
    <2>3. CASE q = t
      <3>1. a = b
        BY <1>1, <1>2, <1>4, <2>3
      <3> QED BY <3>1
    <2> QED BY <1>1, <1>2, <2>1, <2>2, <2>3
  <1> QED BY <1>4 DEF m, n

=============================================================================
