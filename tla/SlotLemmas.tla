----------------------------- MODULE SlotLemmas -----------------------------
(***************************************************************************)
(* Natural numbers: positions of ring buffers, which grow and are taken    *)
(* modulo the size, in the work queue (fw/work_queue.c) and the buffers of *)
(* the access log (fw/mmap_buffer.c); and least numbers.                   *)
(***************************************************************************)
EXTENDS Integers, WellFoundedInduction, TLAPS

\* Division with remainder, for the index head & (qsize - 1).
LEMMA DivMod ==
    ASSUME NEW Q \in Nat \ {0}, NEW a \in Nat
    PROVE  /\ a = Q * (a \div Q) + (a % Q)
           /\ a \div Q \in Int
           /\ a % Q \in 0..(Q - 1)
  BY Z3

\* A multiple of Q strictly between -Q and Q is zero.
LEMMA SmallMultiple ==
    ASSUME NEW Q \in Nat \ {0}, NEW k \in Int, Q * k < Q, 0 - Q < Q * k
    PROVE  k = 0
  <1>1. CASE k >= 1
    <2>1. Q * k >= Q  BY <1>1, Z3
    <2> QED  BY <2>1
  <1>2. CASE k <= -1
    <2>1. Q * k <= 0 - Q  BY <1>2, Z3
    <2> QED  BY <2>1
  <1> QED  BY <1>1, <1>2

\* Positions less than Q apart, that is within one lap of the ring, occupy
\* different slots.
LEMMA ModInjective ==
    ASSUME NEW Q \in Nat \ {0}, NEW a \in Nat, NEW b \in Nat,
           a % Q = b % Q, a < b + Q, b < a + Q
    PROVE  a = b
  <1> DEFINE x == a \div Q
             y == b \div Q
             k == x - y
  <1>1. /\ a = Q * x + (a % Q) /\ b = Q * y + (a % Q)
        /\ x \in Int /\ y \in Int /\ a % Q \in Int
    BY DivMod
  <1>2. x \in Int /\ y \in Int  BY <1>1
  <1> HIDE DEF x, y
  <1>3. a - b = Q * k  BY <1>1, Z3
  <1>4. k \in Int  BY <1>2
  <1> HIDE DEF k
  <1>5. k = 0  BY <1>3, <1>4, SmallMultiple
  <1> QED  BY <1>3, <1>5

\* A set of natural numbers has a least one, by which proofs by induction go.
LEMMA LeastNat ==
    ASSUME NEW S \in SUBSET Nat, S # {}
    PROVE  \E n \in S : \A m \in S : n <= m
<1>1. PICK n \in S : \A m \in S : ~(<<m, n>> \in OpToRel(<, Nat))
  BY WFMin, NatLessThanWellFounded
<1>2. \A m \in Nat : m < n /\ n \in Nat => <<m, n>> \in OpToRel(<, Nat)
  BY DEF OpToRel
<1>3. n \in Nat /\ \A m \in S : m \in Nat  OBVIOUS
<1>4. \A m \in S : ~(m < n)  BY <1>1, <1>2, <1>3
<1> QED  BY <1>3, <1>4
=============================================================================
