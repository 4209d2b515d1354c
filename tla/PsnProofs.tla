----------------------------- MODULE PsnProofs -----------------------------
(***************************************************************************)
(* Facts about PSN arithmetic, for every PsnMod and MaxOutgoing that       *)
(* PsnAssumption allows.  The provers know little of % with a variable     *)
(* modulus, so they rest on division with remainder being unique.          *)
(***************************************************************************)
EXTENDS Psn, TLAPS

\* Division with remainder.
LEMMA DivMod ==
  ASSUME NEW m \in Nat \ {0}, NEW a \in Int
  PROVE  /\ a \div m \in Int
         /\ a % m \in 0 .. m - 1
         /\ a = m * (a \div m) + (a % m)
  OBVIOUS

\* Multiples of m are m apart.
LEMMA MultiplesApart ==
  ASSUME NEW m \in Nat \ {0}, NEW a \in Int, NEW b \in Int, a < b
  PROVE  m * a + m <= m * b
<1>1. PICK k \in Nat : b = a + 1 + k
  OBVIOUS
<1>2. m * b = m * a + m + m * k
  BY <1>1
<1>3. m * k >= 0
  BY <1>1
<1> QED
  BY <1>2, <1>3

\* Quotient and remainder are unique.
LEMMA ModUnique ==
  ASSUME NEW m \in Nat \ {0}, NEW q \in Int, NEW r \in 0 .. m - 1
  PROVE  (m * q + r) % m = r
<1> DEFINE x == m * q + r
           q2 == x \div m
           r2 == x % m
<1>1. m * q \in Int /\ x \in Int
  OBVIOUS
<1>2. q2 \in Int /\ r2 \in 0 .. m - 1 /\ x = m * q2 + r2
  BY <1>1, DivMod
<1> HIDE DEF q2, r2
<1>3. m * q2 \in Int
  BY <1>2
<1>4. ~(q < q2)
  <2> SUFFICES ASSUME q < q2 PROVE FALSE
    OBVIOUS
  <2>1. m * q + m <= m * q2
    BY MultiplesApart, <1>2
  <2> QED
    BY <2>1, <1>1, <1>2, <1>3
<1>5. ~(q2 < q)
  <2> SUFFICES ASSUME q2 < q PROVE FALSE
    OBVIOUS
  <2>1. m * q2 + m <= m * q
    BY MultiplesApart, <1>2
  <2> QED
    BY <2>1, <1>1, <1>2, <1>3
<1>6. q2 = q
  BY <1>2, <1>4, <1>5
<1>7. r2 = r
  BY <1>6, <1>1, <1>2
<1> QED
  BY <1>7 DEF r2

\* A multiple of m added to a number does not change its remainder.
LEMMA ModPlusMultiple ==
  ASSUME NEW m \in Nat \ {0}, NEW q \in Int, NEW a \in Int
  PROVE  (m * q + a) % m = a % m
<1> DEFINE p == a \div m
           r == a % m
<1>1. p \in Int /\ r \in 0 .. m - 1 /\ a = m * p + r
  BY DivMod
<1> HIDE DEF p, r
<1>2. m * q \in Int /\ m * p \in Int
  BY <1>1
<1>3. m * (q + p) = m * q + m * p
  BY <1>1
<1>4. m * q + a = m * (q + p) + r
  BY <1>1, <1>2, <1>3
<1>5. (m * (q + p) + r) % m = r
  BY <1>1, ModUnique
<1> QED
  BY <1>4, <1>5 DEF r

\* A number that is already reduced is its own remainder.
LEMMA ModSmall ==
  ASSUME NEW m \in Nat \ {0}, NEW r \in 0 .. m - 1
  PROVE  r % m = r
  OBVIOUS

-----------------------------------------------------------------------------
\* PsnAdd stays within the width.
LEMMA PsnAddType ==
  ASSUME NEW p \in Int, NEW k \in Int
  PROVE  PsnAdd(p, k) \in PSN
  BY DivMod, PsnAssumption DEF PsnAdd, PSN

\* Adding in two steps is adding once: roce_qp_psn_inc may mask every time.
LEMMA PsnAddAdd ==
  ASSUME NEW p \in Int, NEW j \in Int, NEW k \in Int
  PROVE  PsnAdd(PsnAdd(p, j), k) = PsnAdd(p, j + k)
<1> DEFINE q == (p + j) \div PsnMod
           r == (p + j) % PsnMod
<1>1. q \in Int /\ r \in Int /\ p + j = PsnMod * q + r
  BY DivMod, PsnAssumption
<1> HIDE DEF q, r
<1>2. PsnMod * q \in Int
  BY <1>1, PsnAssumption
<1>3. p + (j + k) = PsnMod * q + (r + k)
  BY <1>1, <1>2
<1>4. r + k \in Int
  BY <1>1
<1>5. (PsnMod * q + (r + k)) % PsnMod = (r + k) % PsnMod
  BY <1>1, <1>4, ModPlusMultiple, PsnAssumption
<1> QED
  BY <1>3, <1>5 DEF PsnAdd, r

\* Adding nothing changes nothing.
LEMMA PsnAddZero ==
  ASSUME NEW p \in PSN
  PROVE  PsnAdd(p, 0) = p
  BY ModSmall, PsnAssumption DEF PsnAdd, PSN

\* Half of an even number of PSNs.
LEMMA PsnHalfTwice == PsnHalf \in Nat /\ PsnMod = 2 * PsnHalf
  BY DivMod, PsnAssumption DEF PsnHalf

(***************************************************************************)
(* roce_compare_psn tells the distance to the end of the window, also when *)
(* one of the two PSNs has wrapped and the other has not.                  *)
(***************************************************************************)
LEMMA CompareInWindow ==
  ASSUME NEW p \in PSN, NEW d \in 0 .. MaxOutgoing
  PROVE  ComparePsn(p + MaxOutgoing, PsnAdd(p, d)) = MaxOutgoing - d
<1> DEFINE e == MaxOutgoing - d + PsnHalf
           x == ((p + MaxOutgoing) - PsnAdd(p, d)) + PsnHalf
<1>1. e \in 0 .. PsnMod - 1
  BY PsnHalfTwice, PsnAssumption
<1>2. SUFFICES x % PsnMod = e
  <2>1. ComparePsn(p + MaxOutgoing, PsnAdd(p, d)) = (x % PsnMod) - PsnHalf
    BY DEF ComparePsn
  <2> HIDE DEF x
  <2> QED
    BY <1>2, <2>1, PsnHalfTwice, PsnAssumption
<1>3. CASE p + d < PsnMod
  <2>1. PsnAdd(p, d) = p + d
    BY <1>3, ModSmall, PsnAssumption DEF PsnAdd, PSN
  <2>2. x = e
    BY <2>1, PsnHalfTwice, PsnAssumption DEF PSN
  <2>3. e % PsnMod = e
    BY <1>1, ModSmall, PsnAssumption
  <2> QED
    BY <2>2, <2>3
<1>4. CASE p + d >= PsnMod
  <2>1. p + d = PsnMod * 1 + (p + d - PsnMod) /\ p + d - PsnMod \in 0 .. PsnMod - 1
    BY <1>4, PsnAssumption DEF PSN
  <2>2. PsnAdd(p, d) = p + d - PsnMod
    BY <2>1, ModUnique, PsnAssumption DEF PsnAdd
  <2>3. x = PsnMod * 1 + e
    BY <2>2, PsnHalfTwice, PsnAssumption DEF PSN
  <2>4. (PsnMod * 1 + e) % PsnMod = e
    BY <1>1, ModUnique, PsnAssumption
  <2> QED
    BY <2>3, <2>4
<1> QED
  BY <1>3, <1>4, PsnAssumption DEF PSN

(***************************************************************************)
(* Among MaxOutgoing consecutive PSNs one is a multiple of MaxOutgoing,    *)
(* across the wrap too, because MaxOutgoing divides PsnMod.                *)
(***************************************************************************)
LEMMA MultipleInWindow ==
  ASSUME NEW p \in PSN
  PROVE  \E j \in 0 .. MaxOutgoing - 1 : PsnAdd(p, j) % MaxOutgoing = 0
<1> DEFINE W == MaxOutgoing
           M == PsnMod \div W
           q == p \div W
           r == p % W
<1>1. W \in Nat \ {0} /\ PsnMod \in Nat \ {0} /\ p \in 0 .. PsnMod - 1
  BY PsnAssumption DEF PSN
<1>2. M \in Int /\ PsnMod = W * M
  BY <1>1, DivMod, PsnAssumption
<1>3. q \in Int /\ r \in 0 .. W - 1 /\ p = W * q + r
  BY <1>1, DivMod
<1>3a. q \in Nat
  BY <1>1
<1> HIDE DEF W, M, q, r
<1>4. CASE r = 0
  <2>1. PsnAdd(p, 0) = p
    BY PsnAddZero
  <2>2. p % W = 0
    BY <1>4 DEF r
  <2> QED
    BY <2>1, <2>2, <1>1 DEF W
<1>5. CASE r # 0
  <2> DEFINE j == W - r
  <2>1. W * q \in Int /\ W * (q + 1) = W * q + W
    BY <1>1, <1>3
  <2>2. j \in 0 .. W - 1 /\ p + j = W * (q + 1)
    BY <1>1, <1>3, <1>5, <2>1
  <2> HIDE DEF j
  <2>3. q < M
    <3> SUFFICES ASSUME ~(q < M) PROVE FALSE
      OBVIOUS
    <3>1. CASE M = q
      BY <3>1, <2>1, <1>1, <1>2, <1>3
    <3>2. CASE M < q
      <4>1. W * M + W <= W * q
        BY <3>2, <1>1, <1>2, <1>3, MultiplesApart
      <4> QED
        BY <4>1, <2>1, <1>1, <1>2, <1>3
    <3> QED
      BY <3>1, <3>2, <1>2, <1>3
  <2>4. W * (q + 1) <= PsnMod
    BY <2>1, <2>3, <1>1, <1>2, <1>3, MultiplesApart
  <2>5. CASE p + j < PsnMod
    <3>1. PsnAdd(p, j) = p + j
      BY <2>5, <2>2, <1>1, ModSmall DEF PsnAdd
    <3>2. W * (q + 1) = W * (q + 1) + 0
      BY <2>1, <1>1
    <3>3. (W * (q + 1) + 0) % W = 0
      BY <1>1, <1>3, ModUnique
    <3> QED
      BY <3>1, <3>2, <3>3, <2>2 DEF W
  <2>6. CASE p + j = PsnMod
    <3>1. PsnMod % PsnMod = 0 /\ 0 % W = 0
      BY <1>1
    <3> QED
      BY <3>1, <2>2, <2>6 DEF W, PsnAdd
  <2> QED
    BY <2>2, <2>4, <2>5, <2>6, <1>1
<1> QED
  BY <1>4, <1>5
=============================================================================
