----------------------------- MODULE PageArithmetic -----------------------------
(***************************************************************************)
(* Facts about addresses and the pages they are in, for the proofs about   *)
(* the driver and about the layout of the flash.                           *)
(***************************************************************************)
EXTENDS Integers, TLAPS

\* Division with remainder.
LEMMA DivMod ==
  ASSUME NEW a \in Nat, NEW p \in Nat, p > 0
  PROVE  /\ a \div p \in Nat
         /\ a % p \in 0 .. p - 1
         /\ a = p * (a \div p) + (a % p)
  BY SMTT(30)

\* Quotient and remainder are unique.
LEMMA DivModUnique ==
  ASSUME NEW p \in Nat, p > 0,
         NEW q1 \in Int, NEW r1 \in 0 .. p - 1,
         NEW q2 \in Int, NEW r2 \in 0 .. p - 1,
         p * q1 + r1 = p * q2 + r2
  PROVE  q1 = q2 /\ r1 = r2
<1>1. p * (q1 - q2) = r2 - r1 /\ p * (q2 - q1) = r1 - r2
  BY SMTT(30)
<1>2. CASE q1 - q2 >= 1
  <2>1. p * (q1 - q2) >= p
    BY <1>2, SMTT(30)
  <2> QED
    BY <2>1, <1>1
<1>3. CASE q2 - q1 >= 1
  <2>1. p * (q2 - q1) >= p
    BY <1>3, SMTT(30)
  <2> QED
    BY <2>1, <1>1
<1> QED
  BY <1>1, <1>2, <1>3

\* An address moved on within its page keeps its page.
LEMMA InSamePage ==
  ASSUME NEW a \in Nat, NEW p \in Nat, p > 0, NEW i \in Nat, (a % p) + i < p
  PROVE  (a + i) % p = (a % p) + i /\ (a + i) \div p = a \div p
<1> DEFINE q1 == a \div p
           r1 == (a % p) + i
           q2 == (a + i) \div p
           r2 == (a + i) % p
<1>1. q1 \in Nat /\ a % p \in 0 .. p - 1 /\ a = p * q1 + (a % p)
  BY DivMod
<1>2. q2 \in Nat /\ r2 \in 0 .. p - 1 /\ a + i = p * q2 + r2
  BY DivMod
<1>3. r1 \in 0 .. p - 1 /\ p * q1 + r1 = p * q2 + r2
  BY <1>1, <1>2
<1>4. q1 \in Int /\ q2 \in Int /\ r1 \in 0 .. p - 1 /\ r2 \in 0 .. p - 1
  BY <1>1, <1>2, <1>3
<1> HIDE DEF q1, r1, q2, r2
<1>5. q1 = q2 /\ r1 = r2
  BY <1>3, <1>4, DivModUnique
<1> QED
  BY <1>5 DEF q1, r1, q2, r2

\* Whole pages before an address do not move it within its page.
LEMMA PagesBefore ==
  ASSUME NEW p \in Nat, p > 0, NEW k \in Nat, NEW i \in Nat
  PROVE  (p * k + i) % p = i % p
<1> DEFINE a  == p * k + i
           q1 == a \div p
           r1 == a % p
           q  == i \div p
           r2 == i % p
           q2 == k + q
<1>1. a \in Nat
  BY SMTT(30)
<1>2. q1 \in Nat /\ r1 \in 0 .. p - 1 /\ a = p * q1 + r1
  <2> HIDE DEF a
  <2> QED
    BY <1>1, DivMod
<1>3. q \in Nat /\ r2 \in 0 .. p - 1 /\ i = p * q + r2
  BY DivMod
<1> HIDE DEF q1, r1, q, r2
<1>4. p * q1 + r1 = p * q2 + r2
  BY <1>2, <1>3, SMTT(30)
<1>5. q1 \in Int /\ q2 \in Int
  BY <1>2, <1>3
<1> HIDE DEF a, q2
<1>6. r1 = r2
  BY <1>2, <1>3, <1>4, <1>5, DivModUnique
<1> QED
  BY <1>6 DEF r1, r2, a

=============================================================================
