--------------------------- MODULE FwdQueueProofs ---------------------------
(***************************************************************************)
(* Theorems about FwdQueue: for any number of connections and requests and *)
(* any limits, the lists and pointers of a connection agree, a request is  *)
(* in one queue at most, a response is paired with the request that the    *)
(* backend answers, and a non-idempotent request is not sent twice.        *)
(*                                                                         *)
(* The order of the requests in a list is reasoned about as the relation   *)
(* Before, and the pointers into a queue as the sets UpTo.  Every section  *)
(* that runs under fwd_qlock has a lemma that says what it leaves of the   *)
(* queue (Good) and that the connection has ConnInv again; LeaveInv lifts  *)
(* these to the whole system.                                              *)
(***************************************************************************)
EXTENDS FwdQueue, SlotLemmas, FiniteSetTheorems, SequenceTheorems, TLAPS

-----------------------------------------------------------------------------
(* Numbers. *)

\* A bounded set of numbers has a greatest one.
LEMMA GreatestNat ==
    ASSUME NEW n \in Nat, NEW S \in SUBSET (1..n), S # {}
    PROVE  \E i \in S : \A j \in S : j <= i
<1> DEFINE T == {u \in Nat : \A j \in S : j <= u}
<1>1. n \in T  OBVIOUS
<1>2. PICK u \in T : \A m \in T : u <= m  BY <1>1, LeastNat
<1>3. u \in S
  <2> SUFFICES ASSUME u \notin S PROVE FALSE
    OBVIOUS
  <2>1. \A j \in S : j \in Nat /\ j >= 1 /\ j <= u /\ j # u  BY <1>2
  <2>2. PICK j \in S : TRUE  OBVIOUS
  <2>3. u \in Nat /\ u - 1 \in Nat  BY <2>1, <2>2
  <2>4. u - 1 \in T  BY <2>1, <2>3
  <2> QED  BY <2>3, <2>4, <1>2
<1> QED  BY <1>2, <1>3

-----------------------------------------------------------------------------
(* The order of the elements of a list. *)

\* A list without repetitions.
LEMMA NoDupBefore ==
    ASSUME NEW s \in Seq(Reqs)
    PROVE  NoDup(s) <=> \A a \in Reqs : ~Before(s, a, a)
<1>1. DOMAIN s = 1..Len(s) /\ Len(s) \in Nat /\ \A i \in 1..Len(s) : s[i] \in Reqs  OBVIOUS
<1>2. ASSUME NoDup(s), NEW a \in Reqs, Before(s, a, a) PROVE FALSE
  BY <1>1, <1>2 DEF NoDup, Before
<1>3. ASSUME \A a \in Reqs : ~Before(s, a, a), NEW i \in 1..Len(s), NEW j \in 1..Len(s), s[i] = s[j]
      PROVE  i = j
  <2>1. CASE i < j  BY <2>1, <1>1, <1>3 DEF Before
  <2>2. CASE j < i  BY <2>2, <1>1, <1>3 DEF Before
  <2> QED  BY <2>1, <2>2, <1>1
<1> QED  BY <1>1, <1>2, <1>3 DEF NoDup

\* Elements and their order are of the type of the list.
LEMMA BeforeElems ==
    ASSUME NEW s \in Seq(Reqs)
    PROVE  /\ Elems(s) \subseteq Reqs
           /\ \A a, b : Before(s, a, b) => a \in Elems(s) /\ b \in Elems(s)
           /\ s = <<>> <=> Elems(s) = {}
<1>1. DOMAIN s = 1..Len(s) /\ Len(s) \in Nat /\ \A i \in 1..Len(s) : s[i] \in Reqs  OBVIOUS
<1>2. ASSUME s # <<>> PROVE Elems(s) # {}
  <2>1. 1 \in 1..Len(s)  BY <1>1, <1>2, EmptySeq
  <2> QED  BY <2>1, <1>1 DEF Elems
<1>3. s = <<>> => Elems(s) = {}
  BY DEF Elems
<1> QED  BY <1>1, <1>2, <1>3 DEF Elems, Before

\* Without repetitions the order is a total one.
LEMMA BeforeOrder ==
    ASSUME NEW s \in Seq(Reqs), NoDup(s)
    PROVE  /\ \A a : ~Before(s, a, a)
           /\ \A a, b, c : Before(s, a, b) /\ Before(s, b, c) => Before(s, a, c)
           /\ \A a, b : ~(Before(s, a, b) /\ Before(s, b, a))
           /\ \A a, b \in Elems(s) : a = b \/ Before(s, a, b) \/ Before(s, b, a)
<1>1. DOMAIN s = 1..Len(s) /\ Len(s) \in Nat  OBVIOUS
<1>2. ASSUME NEW a, Before(s, a, a) PROVE FALSE
  BY <1>1, <1>2 DEF NoDup, Before
<1>3. ASSUME NEW a, NEW b, NEW c, Before(s, a, b), Before(s, b, c) PROVE Before(s, a, c)
  <2>1. PICK i, j \in 1..Len(s) : i < j /\ s[i] = a /\ s[j] = b  BY <1>1, <1>3 DEF Before
  <2>2. PICK m, n \in 1..Len(s) : m < n /\ s[m] = b /\ s[n] = c  BY <1>1, <1>3 DEF Before
  <2>3. j = m  BY <2>1, <2>2, <1>1 DEF NoDup
  <2>4. i < n  BY <2>1, <2>2, <2>3
  <2> QED  BY <2>1, <2>2, <2>4, <1>1 DEF Before
<1>4. ASSUME NEW a \in Elems(s), NEW b \in Elems(s)
      PROVE  a = b \/ Before(s, a, b) \/ Before(s, b, a)
  <2>1. PICK i, j \in 1..Len(s) : s[i] = a /\ s[j] = b  BY <1>1 DEF Elems
  <2>2. i = j \/ i < j \/ j < i  OBVIOUS
  <2> QED  BY <2>1, <2>2, <1>1 DEF Before
<1> QED  BY <1>2, <1>3, <1>4

\* The concatenation of two lists.
LEMMA ConcatBefore ==
    ASSUME NEW s \in Seq(Reqs), NEW t \in Seq(Reqs)
    PROVE  /\ s \o t \in Seq(Reqs) /\ Len(s \o t) = Len(s) + Len(t)
           /\ Elems(s \o t) = Elems(s) \cup Elems(t)
           /\ \A a, b : Before(s \o t, a, b) <=>
                 Before(s, a, b) \/ Before(t, a, b) \/ (a \in Elems(s) /\ b \in Elems(t))
<1> DEFINE u == s \o t
<1>1. /\ u \in Seq(Reqs) /\ Len(u) = Len(s) + Len(t)
      /\ \A i \in 1 .. Len(s) + Len(t) : u[i] = IF i <= Len(s) THEN s[i] ELSE t[i - Len(s)]
  BY ConcatProperties
<1>2. /\ DOMAIN s = 1..Len(s) /\ Len(s) \in Nat /\ DOMAIN t = 1..Len(t) /\ Len(t) \in Nat
      /\ DOMAIN u = 1..(Len(s) + Len(t))
  BY <1>1
<1> HIDE DEF u
<1>3. \A i \in DOMAIN s : i \in DOMAIN u /\ u[i] = s[i]
  BY <1>1, <1>2
<1>4. \A i \in DOMAIN t : Len(s) + i \in DOMAIN u /\ u[Len(s) + i] = t[i]
  <2> SUFFICES ASSUME NEW i \in 1..Len(t)
               PROVE  Len(s) + i \in 1..(Len(s) + Len(t)) /\ u[Len(s) + i] = t[i]
    BY <1>2
  <2>1. Len(s) + i \in 1..(Len(s) + Len(t)) /\ ~(Len(s) + i <= Len(s)) /\ Len(s) + i - Len(s) = i
    BY <1>2
  <2> QED  BY <2>1, <1>1
<1>5. \A i \in DOMAIN u : IF i <= Len(s) THEN i \in DOMAIN s /\ u[i] = s[i]
                          ELSE i - Len(s) \in DOMAIN t /\ u[i] = t[i - Len(s)]
  BY <1>1, <1>2
<1>6. Elems(u) = Elems(s) \cup Elems(t)
  <2>1. ASSUME NEW x \in Elems(u) PROVE x \in Elems(s) \cup Elems(t)
    BY <1>5 DEF Elems
  <2>2. ASSUME NEW x \in Elems(s) \cup Elems(t) PROVE x \in Elems(u)
    BY <1>3, <1>4 DEF Elems
  <2> QED  BY <2>1, <2>2
<1>7. ASSUME NEW a, NEW b, Before(u, a, b)
      PROVE  Before(s, a, b) \/ Before(t, a, b) \/ (a \in Elems(s) /\ b \in Elems(t))
  <2>1. PICK i, j \in DOMAIN u : i < j /\ u[i] = a /\ u[j] = b  BY <1>7 DEF Before
  <2>2. CASE j <= Len(s)
    <3>1. i <= Len(s)  BY <2>1, <2>2, <1>2
    <3> QED  BY <3>1, <2>1, <2>2, <1>5 DEF Before
  <2>3. CASE i <= Len(s) /\ ~(j <= Len(s))
    BY <2>1, <2>3, <1>5 DEF Elems
  <2>4. CASE ~(i <= Len(s)) /\ ~(j <= Len(s))
    <3>1. i - Len(s) < j - Len(s)  BY <2>1, <1>2
    <3> QED  BY <3>1, <2>1, <2>4, <1>5 DEF Before
  <2> QED  BY <2>1, <2>2, <2>3, <2>4, <1>2
<1>8. ASSUME NEW a, NEW b, Before(s, a, b) PROVE Before(u, a, b)
  BY <1>8, <1>3 DEF Before
<1>9. ASSUME NEW a, NEW b, Before(t, a, b) PROVE Before(u, a, b)
  <2>1. PICK i, j \in DOMAIN t : i < j /\ t[i] = a /\ t[j] = b  BY <1>9 DEF Before
  <2>2. Len(s) + i < Len(s) + j  BY <2>1, <1>2
  <2> QED  BY <2>1, <2>2, <1>4 DEF Before
<1>10. ASSUME NEW a \in Elems(s), NEW b \in Elems(t) PROVE Before(u, a, b)
  <2>1. PICK i \in DOMAIN s, j \in DOMAIN t : s[i] = a /\ t[j] = b  BY DEF Elems
  <2>2. i < Len(s) + j  BY <2>1, <1>2
  <2> QED  BY <2>1, <2>2, <1>3, <1>4 DEF Before
<1> QED  BY <1>1, <1>6, <1>7, <1>8, <1>9, <1>10 DEF u

\* A list of one element.
LEMMA OneElem ==
    ASSUME NEW e \in Reqs
    PROVE  /\ <<e>> \in Seq(Reqs) /\ Len(<<e>>) = 1 /\ Elems(<<e>>) = {e}
           /\ \A a, b : ~Before(<<e>>, a, b)
<1>1. <<e>> \in Seq(Reqs) /\ Len(<<e>>) = 1 /\ DOMAIN <<e>> = {1} /\ <<e>>[1] = e
  OBVIOUS
<1> QED  BY <1>1 DEF Elems, Before

\* The empty list.
LEMMA NoElem ==
    /\ <<>> \in Seq(Reqs) /\ Elems(<<>>) = {} /\ \A a, b : ~Before(<<>>, a, b)
    /\ NoDup(<<>>)
BY DEF Elems, Before, NoDup

\* list_add_tail()
LEMMA AppendBefore ==
    ASSUME NEW s \in Seq(Reqs), NEW e \in Reqs
    PROVE  /\ Append(s, e) \in Seq(Reqs) /\ Len(Append(s, e)) = Len(s) + 1
           /\ Append(s, e)[Len(s) + 1] = e
           /\ Elems(Append(s, e)) = Elems(s) \cup {e}
           /\ \A a, b : Before(Append(s, e), a, b) <=>
                 Before(s, a, b) \/ (a \in Elems(s) /\ b = e)
<1>1. Append(s, e) = s \o <<e>>  OBVIOUS
<1>2. Append(s, e)[Len(s) + 1] = e  OBVIOUS
<1>3. /\ s \o <<e>> \in Seq(Reqs) /\ Len(s \o <<e>>) = Len(s) + Len(<<e>>)
      /\ Elems(s \o <<e>>) = Elems(s) \cup Elems(<<e>>)
      /\ \A a, b : Before(s \o <<e>>, a, b) <=>
            Before(s, a, b) \/ Before(<<e>>, a, b) \/ (a \in Elems(s) /\ b \in Elems(<<e>>))
  BY OneElem, ConcatBefore
<1> QED  BY <1>1, <1>2, <1>3, OneElem

\* The first element and the others.
LEMMA TailBefore ==
    ASSUME NEW s \in Seq(Reqs), s # <<>>
    PROVE  /\ s[1] \in Reqs /\ Tail(s) \in Seq(Reqs)
           /\ Elems(s) = {s[1]} \cup Elems(Tail(s))
           /\ \A a, b : Before(s, a, b) <=>
                 Before(Tail(s), a, b) \/ (a = s[1] /\ b \in Elems(Tail(s)))
<1>1. s[1] \in Reqs /\ Tail(s) \in Seq(Reqs)  BY EmptySeq
<1>2. s = <<s[1]>> \o Tail(s)  BY EmptySeq
<1> DEFINE e == s[1]
           t == Tail(s)
<1>3. s = <<e>> \o t  BY <1>2
<1>4. e \in Reqs /\ t \in Seq(Reqs)  BY <1>1
<1> HIDE DEF e, t
<1>5. /\ Elems(<<e>> \o t) = Elems(<<e>>) \cup Elems(t)
      /\ \A a, b : Before(<<e>> \o t, a, b) <=>
            Before(<<e>>, a, b) \/ Before(t, a, b) \/ (a \in Elems(<<e>>) /\ b \in Elems(t))
  BY <1>4, OneElem, ConcatBefore
<1>6. Elems(s) = {e} \cup Elems(t)  BY <1>3, <1>4, <1>5, OneElem
<1>7. \A a, b : Before(s, a, b) <=> Before(t, a, b) \/ (a = e /\ b \in Elems(t))
  BY <1>3, <1>4, <1>5, OneElem
<1> QED  BY <1>1, <1>6, <1>7 DEF e, t

\* The positions of some elements of a list, counted.
LEMMA KeepPositions ==
    ASSUME NEW n \in Nat, NEW I \in SUBSET (1..n)
    PROVE  LET N(i) == Cardinality({j \in I : j <= i})
           IN  /\ IsFiniteSet(I) /\ Cardinality(I) \in Nat
               /\ \A i \in I : N(i) \in 1..Cardinality(I)
               /\ \A i, j \in I : i < j <=> N(i) < N(j)
               /\ \A m \in 1..Cardinality(I) : \E i \in I : N(i) = m
<1> DEFINE J(i) == {j \in I : j <= i}
           N(i) == Cardinality(J(i))
<1>0. \A j \in I : j \in Nat /\ 1 <= j /\ j <= n  OBVIOUS
<1>1. IsFiniteSet(I) /\ Cardinality(I) \in Nat
  <2>1. IsFiniteSet(1..n)  BY FS_Interval
  <2> QED  BY <2>1, FS_Subset, FS_CardinalityType
<1>2. \A i : IsFiniteSet(J(i)) /\ N(i) \in Nat /\ N(i) <= Cardinality(I)
  <2> TAKE i
  <2>1. J(i) \in SUBSET I  OBVIOUS
  <2> HIDE DEF J
  <2> QED  BY <2>1, <1>1, FS_Subset, FS_CardinalityType
<1>3. ASSUME NEW i \in 1..n, i \in I
      PROVE  N(i) = N(i - 1) + 1
  <2>0. \A j \in I : (j <= i <=> j <= i - 1 \/ j = i) /\ ~(i <= i - 1)  BY <1>0
  <2>1. J(i) = J(i - 1) \cup {i} /\ i \notin J(i - 1)  BY <2>0, <1>3
  <2>2. IsFiniteSet(J(i - 1))  BY <1>2
  <2> HIDE DEF J
  <2> QED  BY <2>1, <2>2, FS_AddElement
<1>4. ASSUME NEW i \in 1..n, i \notin I
      PROVE  N(i) = N(i - 1)
  <2>1. \A j \in I : j <= i <=> j <= i - 1  BY <1>0, <1>4
  <2>2. J(i) = J(i - 1)  BY <2>1
  <2> QED  BY <2>2
<1>5. ASSUME NEW i \in 0..n, NEW j \in 0..n, i <= j
      PROVE  N(i) <= N(j)
  <2>0. \A l \in I : l <= i => l <= j  BY <1>0, <1>5
  <2>1. J(i) \in SUBSET J(j)  BY <2>0
  <2>2. IsFiniteSet(J(j))  BY <1>2
  <2> HIDE DEF J
  <2> QED  BY <2>1, <2>2, FS_Subset
<1>6. N(0) = 0 /\ N(n) = Cardinality(I)
  <2>0. \A j \in I : ~(j <= 0) /\ j <= n  BY <1>0
  <2>1. J(0) = {} /\ J(n) = I  BY <2>0
  <2> QED  BY <2>1, FS_EmptySet
<1> HIDE DEF J, N
<1>7. ASSUME NEW i \in I, NEW j \in I, i < j PROVE N(i) < N(j)
  <2>1. i \in 0..n /\ j \in 1..n /\ j - 1 \in 0..n /\ i <= j - 1  BY <1>7
  <2>2. N(i) <= N(j - 1) /\ N(j) = N(j - 1) + 1  BY <2>1, <1>3, <1>5
  <2>3. N(i) \in Nat /\ N(j - 1) \in Nat  BY <1>2 DEF N
  <2> QED  BY <2>2, <2>3
<1>8. \A i \in I : N(i) \in 1..Cardinality(I)
  <2> TAKE i \in I
  <2>1. i \in 1..n  OBVIOUS
  <2>2. N(i) = N(i - 1) + 1  BY <2>1, <1>3
  <2>3. N(i) \in Nat /\ N(i - 1) \in Nat /\ N(i) <= Cardinality(I)  BY <1>2 DEF N
  <2> QED  BY <2>2, <2>3, <1>1
<1>9. \A i, j \in I : i < j <=> N(i) < N(j)
  <2> TAKE i, j \in I
  <2>1. i \in Nat /\ j \in Nat  OBVIOUS
  <2>2. N(i) \in Nat /\ N(j) \in Nat  BY <1>2 DEF N
  <2>3. CASE i < j  BY <2>3, <2>2, <1>7
  <2>4. CASE j < i
    <3>1. N(j) < N(i)  BY <2>4, <1>7
    <3> QED  BY <3>1, <2>4, <2>2, <2>1
  <2>5. CASE i = j  BY <2>5, <2>2, <2>1
  <2> QED  BY <2>1, <2>3, <2>4, <2>5
<1>10. ASSUME NEW m \in 1..Cardinality(I) PROVE \E i \in I : N(i) = m
  <2> DEFINE S == {i \in 0..n : N(i) >= m}
  <2>1. n \in S /\ S \in SUBSET Nat  BY <1>6, <1>1
  <2>2. PICK i \in S : \A l \in S : i <= l  BY <2>1, LeastNat
  <2>3. i # 0  BY <2>2, <1>6
  <2>4. i \in 1..n /\ i - 1 \in 0..n  BY <2>2, <2>3
  <2>5. ~(N(i - 1) >= m)  BY <2>2, <2>4
  <2>6. N(i - 1) \in Nat /\ N(i) \in Nat /\ N(i) >= m  BY <1>2, <2>2 DEF N
  <2>7. CASE i \in I
    <3>1. N(i) = N(i - 1) + 1  BY <2>4, <2>7, <1>3
    <3>2. N(i) = m  BY <3>1, <2>5, <2>6
    <3> QED  BY <3>2, <2>7
  <2>8. CASE i \notin I
    <3>1. N(i) = N(i - 1)  BY <2>4, <2>8, <1>4
    <3> QED  BY <3>1, <2>5, <2>6
  <2> QED  BY <2>7, <2>8
<1> QED  BY <1>1, <1>8, <1>9, <1>10 DEF N, J

\* What Keep() leaves.
LEMMA KeepBefore ==
    ASSUME NEW s \in Seq(Reqs), NEW R
    PROVE  /\ Keep(s, R) \in Seq(Reqs)
           /\ Elems(Keep(s, R)) = Elems(s) \cap R
           /\ \A a, b : Before(Keep(s, R), a, b) <=> a \in R /\ b \in R /\ Before(s, a, b)
<1> DEFINE I == {i \in DOMAIN s : s[i] \in R}
           N(i) == Cardinality({j \in I : j <= i})
           f(m) == CHOOSE i \in I : N(i) = m
           t == [m \in 1..Cardinality(I) |-> s[f(m)]]
<1>1. DOMAIN s = 1..Len(s) /\ Len(s) \in Nat /\ \A i \in 1..Len(s) : s[i] \in Reqs  OBVIOUS
<1>2. Keep(s, R) = t  BY DEF Keep
<1>3. I \in SUBSET (1..Len(s))  BY <1>1
<1>4. \A i : i \in I <=> i \in DOMAIN s /\ s[i] \in R  OBVIOUS
<1> HIDE DEF I
<1>5. /\ Cardinality(I) \in Nat
      /\ \A i \in I : N(i) \in 1..Cardinality(I)
      /\ \A i, j \in I : i < j <=> N(i) < N(j)
      /\ \A m \in 1..Cardinality(I) : \E i \in I : N(i) = m
  BY <1>1, <1>3, KeepPositions
<1> HIDE DEF N
<1>6. \A m \in 1..Cardinality(I) : f(m) \in I /\ N(f(m)) = m
  BY <1>5
<1>7. \A i \in I : f(N(i)) = i
  <2> TAKE i \in I
  <2>1. N(i) \in 1..Cardinality(I)  BY <1>5
  <2>2. f(N(i)) \in I /\ N(f(N(i))) = N(i)  BY <2>1, <1>6
  <2> HIDE DEF f
  <2>3. ~(i < f(N(i))) /\ ~(f(N(i)) < i)  BY <2>1, <2>2, <1>5
  <2>4. \A j \in I : j \in Nat  BY <1>3
  <2>5. i \in Nat /\ f(N(i)) \in Nat  BY <2>2, <2>4
  <2> QED  BY <2>3, <2>5
<1> HIDE DEF f
<1>8. t \in Seq(Reqs) /\ DOMAIN t = 1..Cardinality(I) /\ \A m \in 1..Cardinality(I) : t[m] = s[f(m)]
  <2>1. \A m \in 1..Cardinality(I) : s[f(m)] \in Reqs  BY <1>6, <1>4, <1>1
  <2> QED  BY <2>1, <1>5
<1> HIDE DEF t
<1>9. Elems(t) = Elems(s) \cap R
  <2>1. ASSUME NEW x \in Elems(t) PROVE x \in Elems(s) \cap R
    BY <1>8, <1>6, <1>4 DEF Elems
  <2>2. ASSUME NEW x \in Elems(s) \cap R PROVE x \in Elems(t)
    <3>1. PICK i \in DOMAIN s : s[i] = x  BY DEF Elems
    <3>2. i \in I  BY <3>1, <1>4
    <3>3. N(i) \in 1..Cardinality(I) /\ f(N(i)) = i  BY <3>2, <1>5, <1>7
    <3> QED  BY <3>1, <3>3, <1>8 DEF Elems
  <2> QED  BY <2>1, <2>2
<1>10. ASSUME NEW a, NEW b, Before(t, a, b) PROVE a \in R /\ b \in R /\ Before(s, a, b)
  <2>1. PICK i, j \in 1..Cardinality(I) : i < j /\ t[i] = a /\ t[j] = b  BY <1>8, <1>10 DEF Before
  <2>2. f(i) \in I /\ f(j) \in I /\ N(f(i)) < N(f(j)) /\ s[f(i)] = a /\ s[f(j)] = b
    BY <2>1, <1>6, <1>8
  <2>3. f(i) < f(j)  BY <2>2, <1>5
  <2> QED  BY <2>2, <2>3, <1>4 DEF Before
<1>11. ASSUME NEW a \in R, NEW b \in R, Before(s, a, b) PROVE Before(t, a, b)
  <2>1. PICK i, j \in DOMAIN s : i < j /\ s[i] = a /\ s[j] = b  BY <1>11 DEF Before
  <2>2. i \in I /\ j \in I  BY <2>1, <1>4
  <2>3. N(i) \in DOMAIN t /\ N(j) \in DOMAIN t /\ N(i) < N(j)  BY <2>1, <2>2, <1>5, <1>8
  <2>4. t[N(i)] = a /\ t[N(j)] = b  BY <2>1, <2>2, <2>3, <1>7, <1>8
  <2> QED  BY <2>3, <2>4 DEF Before
<1> QED  BY <1>2, <1>8, <1>9, <1>10, <1>11

\* The length of a list without repetitions.
LEMMA NoDupLen ==
    ASSUME NEW s \in Seq(Reqs), NoDup(s)
    PROVE  IsFiniteSet(Elems(s)) /\ Cardinality(Elems(s)) = Len(s)
<1>1. DOMAIN s = 1..Len(s) /\ Len(s) \in Nat /\ s \in [1..Len(s) -> Elems(s)]
  BY DEF Elems
<1>2. s \in Injection(1..Len(s), Elems(s))
  BY <1>1 DEF NoDup, Injection, IsInjective
<1>3. s \in Surjection(1..Len(s), Elems(s))
  BY <1>1 DEF Elems, Surjection
<1>4. ExistsBijection(1..Len(s), Elems(s))
  BY <1>2, <1>3 DEF ExistsBijection, Bijection
<1>5. IsFiniteSet(1..Len(s)) /\ Cardinality(1..Len(s)) = Len(s)
  BY <1>1, FS_Interval
<1> QED  BY <1>4, <1>5, FS_Bijection


-----------------------------------------------------------------------------
(* Parts of a list. *)

\* The front of a list and the rest.
LEMMA SplitBefore ==
    ASSUME NEW s \in Seq(Reqs), NEW m \in 0..Len(s)
    PROVE  LET h == SubSeq(s, 1, m)
               t == SubSeq(s, m + 1, Len(s))
           IN  /\ h \in Seq(Reqs) /\ t \in Seq(Reqs) /\ Len(h) = m /\ s = h \o t
               /\ Elems(h) = {s[i] : i \in 1..m}
<1> DEFINE h == SubSeq(s, 1, m)
           t == SubSeq(s, m + 1, Len(s))
<1>1. Len(s) \in Nat /\ DOMAIN s = 1..Len(s) /\ \A i \in 1..Len(s) : s[i] \in Reqs  OBVIOUS
<1>2. h \in Seq(Reqs) /\ Len(h) = m /\ \A i \in 1..m : h[i] = s[i]
  <2>1. \A i \in 1..m : s[i] \in Reqs  BY <1>1
  <2>2. /\ h \in Seq(Reqs) /\ Len(h) = IF 1 <= m THEN m - 1 + 1 ELSE 0
        /\ \A i \in 1..(m - 1 + 1) : h[i] = s[1 + i - 1]
    BY <2>1, <1>1, SubSeqProperties
  <2> QED  BY <2>2, <1>1
<1>3. t \in Seq(Reqs) /\ Len(t) = Len(s) - m /\ \A i \in 1..(Len(s) - m) : t[i] = s[m + i]
  OBVIOUS
<1> HIDE DEF h, t
<1>4. s = h \o t
  <2>1. /\ h \o t \in Seq(Reqs) /\ Len(h \o t) = Len(s)
        /\ \A i \in 1..Len(s) : (h \o t)[i] = IF i <= m THEN h[i] ELSE t[i - m]
    <3>1. /\ h \o t \in Seq(Reqs) /\ Len(h \o t) = Len(h) + Len(t)
          /\ \A i \in 1 .. Len(h) + Len(t) : (h \o t)[i] = IF i <= Len(h) THEN h[i] ELSE t[i - Len(h)]
      BY <1>2, <1>3, ConcatProperties
    <3>2. Len(h) + Len(t) = Len(s)  BY <1>1, <1>2, <1>3
    <3> QED  BY <3>1, <3>2, <1>2
  <2>2. \A i \in 1..Len(s) : (h \o t)[i] = s[i]
    <3> TAKE i \in 1..Len(s)
    <3>1. CASE i <= m  BY <3>1, <2>1, <1>2, <1>1
    <3>2. CASE ~(i <= m)
      <4>1. i - m \in 1..(Len(s) - m) /\ m + (i - m) = i  BY <3>2, <1>1
      <4> QED  BY <4>1, <3>2, <2>1, <1>3
    <3> QED  BY <3>1, <3>2
  <2> QED  BY <2>1, <2>2, SeqEqual
<1>5. Elems(h) = {s[i] : i \in 1..m}
  BY <1>2 DEF Elems
<1> QED  BY <1>2, <1>3, <1>4, <1>5 DEF h, t

\* s is a part of q: its elements have the order they have in q.
Part(s, q) ==
    \A a, b : Before(s, a, b) <=> a \in Elems(s) /\ b \in Elems(s) /\ Before(q, a, b)

\* The requests up to last_msg_sent and the others.
LEMMA SentUnsent ==
    ASSUME NEW k, k.fwd_queue \in Seq(Reqs), NoDup(k.fwd_queue),
           k.last # NoReq => k.last \in Elems(k.fwd_queue)
    PROVE  /\ SentPart(k) \in Seq(Reqs) /\ UnsentPart(k) \in Seq(Reqs)
           /\ Elems(SentPart(k)) = UpTo(k.fwd_queue, k.last)
           /\ Elems(UnsentPart(k)) = Elems(k.fwd_queue) \ UpTo(k.fwd_queue, k.last)
           /\ Part(SentPart(k), k.fwd_queue) /\ Part(UnsentPart(k), k.fwd_queue)
<1> DEFINE q == k.fwd_queue
           m == IF k.last = NoReq THEN 0 ELSE Pos(q, k.last)
           h == SubSeq(q, 1, m)
           t == SubSeq(q, m + 1, Len(q))
<1>1. q \in Seq(Reqs) /\ DOMAIN q = 1..Len(q) /\ Len(q) \in Nat /\ \A i \in 1..Len(q) : q[i] \in Reqs
  OBVIOUS
<1>2. /\ m \in 0..Len(q)
      /\ k.last = NoReq => m = 0
      /\ k.last # NoReq => m \in 1..Len(q) /\ q[m] = k.last
  BY <1>1 DEF Pos, Elems
<1> HIDE DEF m
<1>3. /\ h \in Seq(Reqs) /\ t \in Seq(Reqs) /\ Len(h) = m /\ q = h \o t
      /\ Elems(h) = {q[i] : i \in 1..m}
  BY <1>1, <1>2, SplitBefore
<1>4. SentPart(k) = h
  <2>1. CASE k.last = NoReq
    <3>1. h = <<>>  BY <2>1, <1>2, <1>3, EmptySeq
    <3> QED  BY <3>1, <2>1 DEF SentPart
  <2>2. CASE k.last # NoReq  BY <2>2 DEF SentPart, m
  <2> QED  BY <2>1, <2>2
<1>5. UnsentPart(k) = t  BY <1>3, <1>4 DEF UnsentPart
<1> HIDE DEF h, t
<1>6. /\ Elems(q) = Elems(h) \cup Elems(t)
      /\ \A a, b : Before(q, a, b) <=>
            Before(h, a, b) \/ Before(t, a, b) \/ (a \in Elems(h) /\ b \in Elems(t))
  BY <1>3, ConcatBefore
<1>7. \A a : ~Before(q, a, a)  BY <1>1, BeforeOrder
<1>8. Elems(h) \cap Elems(t) = {}  BY <1>6, <1>7
<1>9. \A a, b : Before(h, a, b) => a \in Elems(h) /\ b \in Elems(h)  BY <1>3, BeforeElems
<1>10. \A a, b : Before(t, a, b) => a \in Elems(t) /\ b \in Elems(t)  BY <1>3, BeforeElems
<1>11. Part(h, q)  BY <1>6, <1>8, <1>9, <1>10 DEF Part
<1>12. Part(t, q)  BY <1>6, <1>8, <1>9, <1>10 DEF Part
<1>13. Elems(h) = UpTo(q, k.last)
  <2>1. CASE k.last = NoReq
    <3>1. Elems(h) = {}  BY <2>1, <1>2, <1>3
    <3>2. \A a, b : Before(q, a, b) => b \in Reqs  BY <1>1, BeforeElems
    <3>3. Elems(q) \subseteq Reqs  BY <1>1, BeforeElems
    <3> QED  BY <3>1, <3>2, <3>3, <2>1, ReqsAssumption DEF UpTo
  <2>2. CASE k.last # NoReq
    <3>1. ASSUME NEW a \in Elems(h) PROVE a \in UpTo(q, k.last)
      <4>1. PICK i \in 1..m : a = q[i]  BY <1>3
      <4>2. i \in DOMAIN q /\ m \in DOMAIN q /\ q[m] = k.last  BY <4>1, <2>2, <1>2, <1>1
      <4>3. i = m \/ i < m  BY <1>2
      <4> QED  BY <4>1, <4>2, <4>3 DEF UpTo, Before, Elems
    <3>2. ASSUME NEW a \in UpTo(q, k.last) PROVE a \in Elems(h)
      <4>1. k.last \in Elems(h)  BY <2>2, <1>2, <1>3
      <4> QED  BY <4>1, <1>6, <1>8, <1>9, <1>10 DEF UpTo
    <3> QED  BY <3>1, <3>2
  <2> QED  BY <2>1, <2>2
<1> QED  BY <1>3, <1>4, <1>5, <1>6, <1>8, <1>11, <1>12, <1>13

\* The last element of some.
LEMMA LastOfElems ==
    ASSUME NEW s \in Seq(Reqs), NEW R
    PROVE  /\ Elems(s) \cap R = {} => LastOf(s, R) = NoReq
           /\ Elems(s) \cap R # {} =>
                /\ LastOf(s, R) \in Elems(s) \cap R
                /\ \A a \in Elems(s) \cap R : a = LastOf(s, R) \/ Before(s, a, LastOf(s, R))
<1> DEFINE I == {i \in DOMAIN s : s[i] \in R}
           n == CHOOSE i \in I : \A j \in I : j <= i
<1>1. DOMAIN s = 1..Len(s) /\ Len(s) \in Nat  OBVIOUS
<1>2. Elems(s) \cap R = {} <=> I = {}  BY DEF Elems
<1>3. I = {} => LastOf(s, R) = NoReq  BY DEF LastOf
<1>4. ASSUME I # {}
      PROVE  /\ LastOf(s, R) \in Elems(s) \cap R
             /\ \A a \in Elems(s) \cap R : a = LastOf(s, R) \/ Before(s, a, LastOf(s, R))
  <2>1. LastOf(s, R) = s[n]  BY <1>4 DEF LastOf
  <2>2. I \in SUBSET (1..Len(s))  BY <1>1
  <2>3. n \in I /\ \A j \in I : j <= n  BY <1>1, <1>4, <2>2, GreatestNat
  <2> HIDE DEF n
  <2>4. s[n] \in Elems(s) \cap R  BY <2>3 DEF Elems
  <2>5. ASSUME NEW a \in Elems(s) \cap R PROVE a = s[n] \/ Before(s, a, s[n])
    <3>1. PICK i \in I : a = s[i]  BY DEF Elems
    <3>2. i = n \/ i < n  BY <2>3, <2>2, <1>1
    <3> QED  BY <3>1, <3>2, <2>3 DEF Before
  <2> QED  BY <2>1, <2>4, <2>5
<1> QED  BY <1>2, <1>3, <1>4

\* __tfw_http_conn_msg_sent_prev()
LEMMA PrevUpTo ==
    ASSUME NEW k, k.fwd_queue \in Seq(Reqs), NoDup(k.fwd_queue), NEW r \in Elems(k.fwd_queue)
    PROVE  LET x == MsgSentPrev(k, r)
           IN  /\ x # NoReq => x \in Elems(k.fwd_queue) \ {r}
               /\ UpTo(k.fwd_queue, x) = UpTo(k.fwd_queue, r) \ {r}
<1> DEFINE q == k.fwd_queue
           i == Pos(q, r)
           x == MsgSentPrev(k, r)
<1>1. DOMAIN q = 1..Len(q) /\ Len(q) \in Nat /\ \A j \in 1..Len(q) : q[j] \in Reqs  OBVIOUS
<1>2. i \in 1..Len(q) /\ q[i] = r  BY <1>1 DEF Pos, Elems
<1>3. x = IF i = 1 THEN NoReq ELSE q[i - 1]  BY DEF MsgSentPrev
<1> HIDE DEF i, x
<1>4. ASSUME NEW j \in 1..Len(q)
      PROVE  (Before(q, q[j], r) <=> j < i) /\ (q[j] = r <=> j = i) /\ q[j] \in Elems(q)
  BY <1>1, <1>2 DEF Before, NoDup, Elems
<1>5. CASE i = 1
  <2>1. UpTo(q, r) \subseteq {r}
    <3> SUFFICES ASSUME NEW a \in Elems(q), a # r PROVE ~Before(q, a, r)
      BY DEF UpTo
    <3>1. PICK j \in 1..Len(q) : a = q[j]  BY <1>1 DEF Elems
    <3> QED  BY <3>1, <1>4, <1>5
  <2>2. UpTo(q, NoReq) = {}
    BY <1>1, BeforeElems, ReqsAssumption DEF UpTo
  <2> QED  BY <2>1, <2>2, <1>3, <1>5 DEF x
<1>6. CASE i # 1
  <2>1. i - 1 \in 1..Len(q) /\ x = q[i - 1]  BY <1>2, <1>3, <1>6
  <2>2. x \in Elems(q) /\ x # r  BY <2>1, <1>2, <1>4
  <2>3. ASSUME NEW a \in Elems(q)
        PROVE  a = x \/ Before(q, a, x) <=> a # r /\ (a = r \/ Before(q, a, r))
    <3>1. PICK j \in 1..Len(q) : a = q[j]  BY <1>1 DEF Elems
    <3>2. Before(q, q[j], x) <=> j < i - 1  BY <2>1, <1>1 DEF Before, NoDup
    <3>3. q[j] = x <=> j = i - 1  BY <2>1, <1>1 DEF NoDup
    <3>4. j = i - 1 \/ j < i - 1 <=> j # i /\ (j = i \/ j < i)  BY <1>2
    <3> QED  BY <3>1, <3>2, <3>3, <3>4, <1>4
  <2>4. UpTo(q, x) = UpTo(q, r) \ {r}  BY <2>3 DEF UpTo
  <2> QED  BY <2>2, <2>4 DEF x
<1> QED  BY <1>5, <1>6

\* The requests up to one of a list.
LEMMA UpToFacts ==
    ASSUME NEW s \in Seq(Reqs), NoDup(s)
    PROVE  /\ UpTo(s, NoReq) = {}
           /\ \A r : UpTo(s, r) \subseteq Elems(s)
           /\ \A r \in Elems(s) : r \in UpTo(s, r)
           /\ \A r, a, b : b \in UpTo(s, r) /\ Before(s, a, b) => a \in UpTo(s, r)
           /\ \A r, a, b : r \in Elems(s) /\ a \in Elems(s) /\ a \notin UpTo(s, r) /\ b \in UpTo(s, r)
                           => Before(s, b, a)
<1>1. \A a, b : Before(s, a, b) => a \in Elems(s) /\ b \in Elems(s)  BY BeforeElems
<1>2. NoReq \notin Elems(s)  BY BeforeElems, ReqsAssumption
<1>3. \A a, b, c : Before(s, a, b) /\ Before(s, b, c) => Before(s, a, c)  BY BeforeOrder
<1>4. \A a, b \in Elems(s) : a = b \/ Before(s, a, b) \/ Before(s, b, a)  BY BeforeOrder
<1> QED  BY <1>1, <1>2, <1>3, <1>4 DEF UpTo

\* What is up to a request that stays, when others leave the list.
LEMMA UpToKeep ==
    ASSUME NEW s \in Seq(Reqs), NEW R, NEW r \in (R \cap Reqs) \cup {NoReq}
    PROVE  UpTo(Keep(s, R), r) = UpTo(s, r) \cap R
<1>1. /\ Elems(Keep(s, R)) = Elems(s) \cap R
      /\ \A a, b : Before(Keep(s, R), a, b) <=> a \in R /\ b \in R /\ Before(s, a, b)
  BY KeepBefore
<1>2. Elems(s) \subseteq Reqs /\ \A a, b : Before(s, a, b) => a \in Elems(s) /\ b \in Elems(s)
  BY BeforeElems
<1> QED  BY <1>1, <1>2, ReqsAssumption DEF UpTo

\* A request put at the end of the list is past all the others.
LEMMA UpToAppend ==
    ASSUME NEW s \in Seq(Reqs), NEW e \in Reqs \ Elems(s), NEW r \in Elems(s) \cup {NoReq}
    PROVE  UpTo(Append(s, e), r) = UpTo(s, r)
<1>1. /\ Elems(Append(s, e)) = Elems(s) \cup {e}
      /\ \A a, b : Before(Append(s, e), a, b) <=> Before(s, a, b) \/ (a \in Elems(s) /\ b = e)
  BY AppendBefore
<1>2. Elems(s) \subseteq Reqs /\ \A a, b : Before(s, a, b) => a \in Elems(s) /\ b \in Elems(s)
  BY BeforeElems
<1> QED  BY <1>1, <1>2, ReqsAssumption DEF UpTo

-----------------------------------------------------------------------------
(* Connections. *)

SameList(d, k) ==
    /\ d.fwd_queue = k.fwd_queue /\ d.nip_queue = k.nip_queue
    /\ d.qsize = k.qsize /\ d.hasnip = k.hasnip
SamePtr(d, k) == d.last = k.last /\ d.curr = k.curr
SameFlags(d, k) ==
    /\ d.resend = k.resend /\ d.qforwd = k.qforwd /\ d.unsched = k.unsched
    /\ d.phase = k.phase
SameSock(d, k) == d.tx = k.tx /\ d.wire = k.wire /\ d.msg = k.msg /\ d.sib = k.sib

FlagRight(k) == k.hasnip <=> k.nip_queue # {}

\* tfw_http_req_delist() changes the lists and nothing else.
LEMMA DelistFields ==
    ASSUME NEW k \in ConnType, NEW R \in SUBSET Elems(k.fwd_queue), NEW N \in SUBSET Reqs
    PROVE  LET d == Delist(k, R, N)
           IN  /\ d \in ConnType /\ SamePtr(d, k) /\ SameFlags(d, k) /\ SameSock(d, k)
               /\ d.fwd_queue = Keep(k.fwd_queue, Reqs \ R)
               /\ d.qsize = k.qsize - Cardinality(R)
               /\ d.nip_queue = k.nip_queue \ (R \cup N)
               /\ FlagRight(k) => FlagRight(d)
<1> DEFINE q == Keep(k.fwd_queue, Reqs \ R)
           n == k.qsize - Cardinality(R)
           nip == k.nip_queue \ (R \cup N)
           h == k.hasnip /\ (nip # {} \/ k.nip_queue = {})
<1>1. Delist(k, R, N) = [k EXCEPT !.fwd_queue = q, !.qsize = n, !.nip_queue = nip, !.hasnip = h]
  BY DEF Delist
<1>2. q \in Seq(Reqs)
  <2>1. k.fwd_queue \in Seq(Reqs)  BY DEF ConnType
  <2> QED  BY <2>1, KeepBefore
<1>3. n \in Int
  <2>1. k.qsize \in Int /\ k.fwd_queue \in Seq(Reqs)  BY DEF ConnType
  <2>2. IsFiniteSet(R)
    <3>1. Elems(k.fwd_queue) \subseteq Reqs  BY <2>1, BeforeElems
    <3> QED  BY <3>1, ReqsAssumption, FS_Subset
  <2>3. Cardinality(R) \in Nat  BY <2>2, FS_CardinalityType
  <2> QED  BY <2>1, <2>3
<1>4. nip \in SUBSET Reqs /\ h \in BOOLEAN
  BY DEF ConnType
<1> HIDE DEF q, n, nip, h
<1>5. /\ Delist(k, R, N) \in ConnType /\ SamePtr(Delist(k, R, N), k)
      /\ SameFlags(Delist(k, R, N), k) /\ SameSock(Delist(k, R, N), k)
  BY <1>1, <1>2, <1>3, <1>4 DEF ConnType, SamePtr, SameFlags, SameSock
<1>6. /\ Delist(k, R, N).fwd_queue = q /\ Delist(k, R, N).qsize = n
      /\ Delist(k, R, N).nip_queue = nip /\ Delist(k, R, N).hasnip = h
  BY <1>1 DEF ConnType
<1>7. FlagRight(k) => FlagRight(Delist(k, R, N))  BY <1>6 DEF FlagRight, h, nip
<1> QED  BY <1>5, <1>6, <1>7 DEF q, n, nip

\* The queue p is q without the requests of R.
Without(p, q, R) ==
    /\ p \in Seq(Reqs) /\ Elems(p) = Elems(q) \ R
    /\ \A a, b : Before(p, a, b) <=> a \notin R /\ b \notin R /\ Before(q, a, b)
    /\ \A r \in (Reqs \ R) \cup {NoReq} : UpTo(p, r) = UpTo(q, r) \ R

\* Requests leave the list at any place.
LEMMA DelistList ==
    ASSUME NEW k \in ConnType, NEW M, ListInv(k, M),
           NEW R \in SUBSET Elems(k.fwd_queue), NEW N \in SUBSET Reqs, N \cap M = {}
    PROVE  LET d == Delist(k, R, N)
           IN  ListInv(d, M) /\ Without(d.fwd_queue, k.fwd_queue, R)
<1> DEFINE d == Delist(k, R, N)
           q == k.fwd_queue
<1> HIDE DEF d
<1>1. /\ d \in ConnType
      /\ d.fwd_queue = Keep(q, Reqs \ R)
      /\ d.qsize = k.qsize - Cardinality(R)
      /\ d.nip_queue = k.nip_queue \ (R \cup N)
      /\ FlagRight(d)
  <2>1. FlagRight(k)  BY DEF FlagRight, ListInv
  <2> QED  BY <2>1, DelistFields DEF d
<1>2. q \in Seq(Reqs) /\ NoDup(q)  BY DEF ConnType, ListInv
<1>3. /\ Elems(q) \subseteq Reqs
      /\ \A a, b : Before(q, a, b) => a \in Elems(q) /\ b \in Elems(q)
  BY <1>2, BeforeElems
<1>4. /\ Keep(q, Reqs \ R) \in Seq(Reqs)
      /\ Elems(Keep(q, Reqs \ R)) = Elems(q) \cap (Reqs \ R)
      /\ \A a, b : Before(Keep(q, Reqs \ R), a, b) <=>
                     a \in Reqs \ R /\ b \in Reqs \ R /\ Before(q, a, b)
  BY <1>2, KeepBefore
<1>5. \A r \in (Reqs \ R) \cup {NoReq} : UpTo(Keep(q, Reqs \ R), r) = UpTo(q, r) \ R
  <2> TAKE r \in (Reqs \ R) \cup {NoReq}
  <2>1. UpTo(Keep(q, Reqs \ R), r) = UpTo(q, r) \cap (Reqs \ R)
    BY <1>2, UpToKeep
  <2>2. UpTo(q, r) \subseteq Reqs  BY <1>3 DEF UpTo
  <2> QED  BY <2>1, <2>2
<1> DEFINE p == Keep(q, Reqs \ R)
<1> HIDE DEF p
<1>6. /\ p \in Seq(Reqs) /\ d.fwd_queue = p /\ Elems(p) = Elems(q) \ R
      /\ \A a, b : Before(p, a, b) <=> a \notin R /\ b \notin R /\ Before(q, a, b)
      /\ \A r \in (Reqs \ R) \cup {NoReq} : UpTo(p, r) = UpTo(q, r) \ R
  BY <1>1, <1>3, <1>4, <1>5 DEF p
<1>7. NoDup(p)
  <2>1. \A a : ~Before(q, a, a)  BY <1>2, BeforeOrder
  <2> QED  BY <2>1, <1>6, NoDupBefore
<1>8. d.qsize = Len(p)
  <2>1. IsFiniteSet(Elems(q)) /\ Cardinality(Elems(q)) = Len(q)  BY <1>2, NoDupLen
  <2>2. IsFiniteSet(Elems(p)) /\ Cardinality(Elems(p)) = Len(p)  BY <1>6, <1>7, NoDupLen
  <2>3. IsFiniteSet(R)  BY <2>1, FS_Subset
  <2>4. Elems(p) \cup R = Elems(q) /\ Elems(p) \cap R = {}  BY <1>6
  <2>5. Cardinality(Elems(p) \cup R) =
           Cardinality(Elems(p)) + Cardinality(R) - Cardinality(Elems(p) \cap R)
    BY <2>2, <2>3, FS_Union
  <2>6. Cardinality(Elems(p) \cap R) = 0  BY <2>4, FS_EmptySet
  <2>7. Cardinality(R) \in Nat  BY <2>3, FS_CardinalityType
  <2>8. Len(p) \in Nat /\ Len(q) \in Nat /\ k.qsize = Len(q)  BY <1>2, <1>6 DEF ListInv
  <2>9. Len(q) = Len(p) + Cardinality(R) - 0
    BY <2>1, <2>2, <2>4, <2>5, <2>6, Zenon
  <2>10. d.qsize = k.qsize - Cardinality(R)  BY <1>1
  <2> QED  BY <2>7, <2>8, <2>9, <2>10
<1>9. /\ d.nip_queue \subseteq Elems(p) /\ Elems(p) \cap M \subseteq d.nip_queue
      /\ d.hasnip <=> d.nip_queue # {}
  BY <1>1, <1>6 DEF ListInv, FlagRight
<1>10. ListInv(d, M)  BY <1>6, <1>7, <1>8, <1>9 DEF ListInv
<1>11. Without(d.fwd_queue, q, R)  BY <1>6 DEF Without
<1> QED  BY <1>10, <1>11 DEF d

\* tfw_http_req_enlist()
LEMMA EnlistInv ==
    ASSUME NEW k \in ConnType, ConnInv(k, nips), NEW r \in Reqs \ Elems(k.fwd_queue),
           r \in Upgrade => r \in nips
    PROVE  LET d == Enlist(k, r)
           IN  /\ d \in ConnType /\ ConnInv(d, nips)
               /\ SamePtr(d, k) /\ SameFlags(d, k) /\ SameSock(d, k)
               /\ d.fwd_queue = Append(k.fwd_queue, r)
               /\ Elems(d.fwd_queue) = Elems(k.fwd_queue) \cup {r}
               /\ UpTo(d.fwd_queue, d.last) = UpTo(k.fwd_queue, k.last)
               /\ \A a \in Elems(k.fwd_queue) : Before(d.fwd_queue, a, r)
               /\ ~Drained(d)
<1> DEFINE d == Enlist(k, r)
           q == k.fwd_queue
           p == Append(q, r)
<1>1. q \in Seq(Reqs) /\ NoDup(q) /\ k.qsize = Len(q)  BY DEF ConnType, ConnInv, BaseInv, ListInv
<1>2. /\ p \in Seq(Reqs) /\ Len(p) = Len(q) + 1 /\ p[Len(p)] = r
      /\ Elems(p) = Elems(q) \cup {r}
      /\ \A a, b : Before(p, a, b) <=> Before(q, a, b) \/ (a \in Elems(q) /\ b = r)
  BY <1>1, AppendBefore
<1>3. /\ Elems(q) \subseteq Reqs
      /\ \A a, b : Before(q, a, b) => a \in Elems(q) /\ b \in Elems(q)
      /\ \A a : ~Before(q, a, a)
  BY <1>1, BeforeElems, BeforeOrder
<1>4. NoDup(p)
  <2> HIDE DEF p, q
  <2>1. \A a \in Reqs : ~Before(p, a, a)  BY <1>2, <1>3 DEF q
  <2> QED  BY <2>1, <1>2, NoDupBefore
<1>5. /\ k.last \in Elems(q) \cup {NoReq}
      /\ k.curr \in Elems(q) \cup {NoReq}
  BY DEF ConnInv, BaseInv, PtrInv, UpTo
<1>6. UpTo(p, k.last) = UpTo(q, k.last) /\ UpTo(p, k.curr) = UpTo(q, k.curr)
  BY <1>1, <1>5, UpToAppend
<1> HIDE DEF p
<1>7. /\ d \in ConnType /\ SamePtr(d, k) /\ SameFlags(d, k) /\ SameSock(d, k)
      /\ d.fwd_queue = p /\ d.qsize = k.qsize + 1
      /\ d.nip_queue = IF r \in nips THEN k.nip_queue \cup {r} ELSE k.nip_queue
      /\ d.hasnip = (k.hasnip \/ r \in nips)
  <2>1. d = [k EXCEPT !.fwd_queue = p, !.qsize = k.qsize + 1,
                      !.nip_queue = IF r \in nips THEN k.nip_queue \cup {r} ELSE k.nip_queue,
                      !.hasnip = k.hasnip \/ r \in nips]
    BY DEF Enlist, p
  <2> DEFINE n == k.qsize + 1
             h == k.hasnip \/ r \in nips
             N == IF r \in nips THEN k.nip_queue \cup {r} ELSE k.nip_queue
  <2>2. n \in Int /\ h \in BOOLEAN /\ N \in SUBSET Reqs
    BY DEF ConnType
  <2>3. d = [k EXCEPT !.fwd_queue = p, !.qsize = n, !.nip_queue = N, !.hasnip = h]
    BY <2>1
  <2> HIDE DEF n, h, N, d
  <2>4. d \in ConnType  BY <2>2, <2>3, <1>2 DEF ConnType
  <2>5. /\ SamePtr(d, k) /\ SameFlags(d, k) /\ SameSock(d, k)
        /\ d.fwd_queue = p /\ d.qsize = n /\ d.nip_queue = N /\ d.hasnip = h
    BY <2>3 DEF ConnType, SamePtr, SameFlags, SameSock
  <2> QED  BY <2>4, <2>5 DEF n, h, N
<1> HIDE DEF d
<1>8. ListInv(d, nips)
  <2>1. d.qsize = Len(p)  BY <1>1, <1>2, <1>7
  <2>2. /\ d.nip_queue \subseteq Elems(p) /\ Elems(p) \cap nips \subseteq d.nip_queue
        /\ d.hasnip <=> d.nip_queue # {}
    <3>1. /\ k.nip_queue \subseteq Elems(q) /\ Elems(q) \cap nips \subseteq k.nip_queue
          /\ k.hasnip <=> k.nip_queue # {}
      BY DEF ConnInv, BaseInv, ListInv
    <3>2. Elems(p) = Elems(q) \cup {r}  BY <1>2
    <3> HIDE DEF q
    <3>3. CASE r \in nips
      <4>1. d.nip_queue = k.nip_queue \cup {r} /\ d.hasnip = TRUE  BY <3>3, <1>7
      <4> QED  BY <4>1, <3>1, <3>2
    <3>4. CASE r \notin nips
      <4>1. d.nip_queue = k.nip_queue /\ (d.hasnip <=> k.hasnip)  BY <3>4, <1>7
      <4> QED  BY <4>1, <3>1, <3>2, <3>4
    <3> QED  BY <3>3, <3>4
  <2> QED  BY <1>4, <1>7, <2>1, <2>2 DEF ListInv
<1>9. PtrInv(d)
  BY <1>2, <1>6, <1>7 DEF ConnInv, BaseInv, PtrInv, SamePtr, SameFlags, Probing
<1>10. FlightInv(d)
  <2>1. Flight(d) = Flight(k) /\ Front(d) = Front(k)  BY <1>7 DEF Flight, Front, SameSock
  <2>2. Elems(Flight(k)) \subseteq Elems(q)  BY DEF ConnInv, BaseInv, FlightInv, UpTo
  <2>3. Elems(Front(k)) \subseteq Elems(q)
    <3>1. Front(k) \in Seq(Reqs) /\ k.tx \in Seq(Reqs)
      BY DEF Front, ConnType, Some, ReqOrNone
    <3> QED  BY <3>1, <2>2, ConcatBefore DEF Flight
  <2> QED
    BY <2>1, <2>3, <1>2, <1>6, <1>7 DEF ConnInv, BaseInv, FlightInv, SamePtr, SameFlags
<1>11. NipInv(d, nips) /\ RetryInv(d, nips)
  BY <1>2, <1>6, <1>7 DEF ConnInv, BaseInv, NipInv, RetryInv, SamePtr, SameFlags, Probing
<1>12. ~Drained(d)
  <2>1. p # <<>>  BY <1>2, BeforeElems
  <2>2. k.last # r  BY <1>5, ReqsAssumption
  <2> QED  BY <2>1, <2>2, <1>2, <1>7 DEF Drained, SamePtr
<1>13. SockInv(d)
  BY <1>7 DEF ConnInv, BaseInv, SockInv, Flight, Front, SameFlags, SameSock
<1> QED  BY <1>2, <1>6, <1>7, <1>8, <1>9, <1>10, <1>11, <1>12, <1>13 DEF ConnInv, BaseInv, d, p, SamePtr

-----------------------------------------------------------------------------
(* The sending loop. *)

Codes == {"ok", "ebusy", "ebadf", "err"}

\* What the loop did to the requests s: it went through them in order, and
\* stopped at the first one that it could not send or after one of stop.
LoopRight(s, skip, stop, l) ==
    /\ l.out \in {"ok", "ebusy", "ebadf"}
    /\ l.gone \subseteq Elems(s) /\ l.done \subseteq Elems(s) \ skip
    /\ l.sent \subseteq l.done /\ l.gone \ skip \subseteq l.done
    /\ l.sent \cap l.gone = {}
    /\ \A a, b : a \in l.sent /\ Before(s, b, a) => b \in l.sent \cup l.gone
    /\ \A a, b : a \in l.sent \cap stop /\ b \in l.sent \cup l.gone => b = a \/ Before(s, b, a)
    /\ l.out = "ok" /\ l.sent \cap stop = {} => Elems(s) \subseteq l.sent \cup l.gone
    /\ l.out # "ok" =>
         /\ l.sent \cap stop = {}
         /\ \E x \in Elems(s) \ (l.sent \cup l.gone) :
               \A b \in l.sent \cup l.gone : Before(s, b, x)

\* Where its result comes from.
LoopCause(s, skip, out, l) ==
    /\ \A a \in l.sent : \E i \in DOMAIN s : s[i] = a /\ out[i] = "ok"
    /\ l.out = "ebadf" => \E i \in DOMAIN s : s[i] \notin skip /\ out[i] = "ebadf"

\* The record it leaves.
LoopRecord(k, s, l) ==
    l.k = [Delist(k, l.gone, {}) EXCEPT
             !.tx = @ \o Keep(s, l.sent),
             !.unsched = @ \/ l.done \cap Upgrade # {}]

\* n turns, the last of which may be the one that ends the loop.
LEMMA LoopTurns ==
    ASSUME NEW k, NEW s \in Seq(Reqs), NoDup(s), NEW skip, NEW stop,
           NEW out \in [DOMAIN s -> Codes], NEW n \in 0..Len(s), NEW code,
           \A i \in 1..n : i \in LoopStops(s, skip, stop, out) => i = n,
           \/ n = Len(s) /\ LoopStops(s, skip, stop, out) = {} /\ code = "ok"
           \/ n \in LoopStops(s, skip, stop, out) /\ code = out[n]
    PROVE  LET l == LoopUpTo(k, s, skip, out, n, code)
           IN  LoopRight(s, skip, stop, l) /\ LoopCause(s, skip, out, l)
<1> DEFINE T == LoopStops(s, skip, stop, out)
           D == {s[i] : i \in {j \in 1..n : s[j] \notin skip}}
           S == {s[i] : i \in {j \in {m \in 1..n : s[m] \notin skip} : out[j] = "ok"}}
           G == {s[i] : i \in {j \in 1..n : s[j] \in skip \/ out[j] = "err"}}
           l == LoopUpTo(k, s, skip, out, n, code)
<1>1. l.out = code /\ l.sent = S /\ l.gone = G /\ l.done = D
  BY DEF LoopUpTo, LoopEnds
<1>2. /\ DOMAIN s = 1..Len(s) /\ Len(s) \in Nat /\ n \in Nat /\ n <= Len(s)
      /\ \A i \in 1..n : i \in 1..Len(s)
      /\ \A i \in 1..Len(s) : s[i] \in Reqs /\ s[i] \in Elems(s) /\ out[i] \in Codes
  BY DEF Elems
<1>20. \A i \in 1..n : s[i] \in Elems(s)  BY <1>2
<1>3. \A i, j \in 1..Len(s) : s[i] = s[j] => i = j  BY <1>2 DEF NoDup
<1>4. /\ \A a : a \in S <=> \E i \in 1..n : a = s[i] /\ s[i] \notin skip /\ out[i] = "ok"
      /\ \A a : a \in G <=> \E i \in 1..n : a = s[i] /\ (s[i] \in skip \/ out[i] = "err")
      /\ \A a : a \in D <=> \E i \in 1..n : a = s[i] /\ s[i] \notin skip
  OBVIOUS
<1>5. \A i : i \in T <=> i \in 1..Len(s) /\ s[i] \notin skip
                         /\ (out[i] \in {"ebusy", "ebadf"} \/ (out[i] = "ok" /\ s[i] \in stop))
  BY <1>2 DEF LoopStops
<1>6. \A i \in 1..n : i \in T => i = n  OBVIOUS
<1>7. \/ n = Len(s) /\ T = {} /\ code = "ok"
      \/ n \in T /\ code = out[n]
  OBVIOUS
<1>8. \A a, b : Before(s, a, b) <=> \E i, j \in 1..Len(s) : i < j /\ s[i] = a /\ s[j] = b
  BY <1>2 DEF Before
<1> HIDE DEF T, D, S, G, l
<1>9. ASSUME NEW i \in 1..n, i \notin T PROVE s[i] \in S \cup G
  <2>1. i \in 1..Len(s) /\ out[i] \in Codes  BY <1>2
  <2>2. s[i] \in skip \/ out[i] \in {"ok", "err"}  BY <2>1, <1>5, <1>9 DEF Codes
  <2>3. s[i] \in skip \/ out[i] = "err" => s[i] \in G  BY <1>4
  <2>4. s[i] \notin skip /\ out[i] = "ok" => s[i] \in S  BY <1>4
  <2> QED  BY <2>2, <2>3, <2>4
<1>10. G \subseteq Elems(s) /\ D \subseteq Elems(s) \ skip /\ S \subseteq D /\ G \ skip \subseteq D
  <2>1. G \subseteq Elems(s)  BY <1>20, <1>4
  <2>2. D \subseteq Elems(s) \ skip  BY <1>20, <1>4
  <2>3. S \subseteq D  BY <1>4
  <2>4. G \ skip \subseteq D  BY <1>4
  <2> QED  BY <2>1, <2>2, <2>3, <2>4
<1>11. S \cap G = {}
  <2> SUFFICES ASSUME NEW a \in S, a \in G PROVE FALSE
    OBVIOUS
  <2>1. PICK i \in 1..n : a = s[i] /\ s[i] \notin skip /\ out[i] = "ok"  BY <1>4
  <2>2. PICK j \in 1..n : a = s[j] /\ (s[j] \in skip \/ out[j] = "err")  BY <1>4
  <2>3. i = j  BY <2>1, <2>2, <1>2, <1>3
  <2> QED  BY <2>1, <2>2, <2>3
<1>12. ASSUME NEW a \in S, NEW b, Before(s, b, a)
       PROVE  b \in S \cup G
  <2>1. PICK i \in 1..n : a = s[i]  BY <1>4
  <2>2. PICK j, m \in 1..Len(s) : j < m /\ s[j] = b /\ s[m] = a  BY <1>8, <1>12
  <2>3. m = i  BY <2>1, <2>2, <1>2, <1>3
  <2>4. j \in 1..n /\ j # n  BY <2>2, <2>3
  <2> QED  BY <2>4, <2>2, <1>6, <1>9
<1>13. ASSUME NEW a \in S \cap stop
       PROVE  n \in T /\ a = s[n] /\ out[n] = "ok"
  <2>1. PICK i \in 1..n : a = s[i] /\ s[i] \notin skip /\ out[i] = "ok"  BY <1>4
  <2>2. i \in T  BY <2>1, <1>5, <1>2
  <2> QED  BY <2>1, <2>2, <1>6
<1>14. ASSUME NEW a \in S \cap stop, NEW b \in S \cup G
       PROVE  b = a \/ Before(s, b, a)
  <2>1. PICK j \in 1..n : b = s[j]  BY <1>4
  <2>2. a = s[n] /\ n \in 1..Len(s)  BY <1>13, <1>5
  <2>3. j = n \/ j < n  OBVIOUS
  <2>4. j \in 1..Len(s)  BY <1>2
  <2> QED  BY <2>1, <2>2, <2>3, <2>4, <1>8
<1>15. ASSUME code = "ok", S \cap stop = {}
       PROVE  Elems(s) \subseteq S \cup G
  <2>1. n \notin T
    <3> SUFFICES ASSUME n \in T PROVE FALSE
      OBVIOUS
    <3>1. s[n] \notin skip /\ out[n] = "ok" /\ s[n] \in stop /\ n \in 1..Len(s)
      BY <1>5, <1>7, <1>15, <1>1
    <3>2. n \in 1..n  BY <3>1
    <3> QED  BY <3>1, <3>2, <1>4, <1>15
  <2>2. n = Len(s) /\ T = {}  BY <2>1, <1>7
  <2> QED  BY <2>2, <1>2, <1>9 DEF Elems
<1>16. ASSUME code # "ok"
       PROVE  /\ S \cap stop = {}
              /\ \E x \in Elems(s) \ (S \cup G) : \A b \in S \cup G : Before(s, b, x)
              /\ code = "ebadf" => \E i \in DOMAIN s : s[i] \notin skip /\ out[i] = "ebadf"
              /\ code \in {"ebusy", "ebadf"}
  <2>0. n \in T /\ code = out[n] /\ n \in 1..Len(s)  BY <1>7, <1>16, <1>5
  <2>1. n \in T /\ code = out[n] /\ n \in 1..n  BY <2>0
  <2>2. out[n] \in {"ebusy", "ebadf"} /\ s[n] \notin skip /\ n \in 1..Len(s)  BY <2>1, <1>16, <1>5
  <2>3. S \cap stop = {}  BY <1>13, <2>1, <1>16
  <2>4. ASSUME NEW j \in 1..n, s[j] \in S \cup G PROVE j # n
    <3> SUFFICES ASSUME j = n PROVE FALSE
      OBVIOUS
    <3>1. PICK i \in 1..n : s[i] = s[j] /\ (s[i] \in skip \/ out[i] \in {"ok", "err"})
      BY <2>4, <1>4
    <3>2. i = n  BY <3>1, <1>2, <1>3
    <3> QED  BY <3>1, <3>2, <2>2
  <2>5. s[n] \notin S \cup G  BY <2>1, <2>4
  <2>6. \A b \in S \cup G : Before(s, b, s[n])
    <3> TAKE b \in S \cup G
    <3>1. PICK j \in 1..n : b = s[j]  BY <1>4
    <3>2. j # n  BY <3>1, <2>4
    <3>3. j < n /\ j \in 1..Len(s)  BY <3>2
    <3> QED  BY <3>1, <3>3, <2>2, <1>8
  <2>7. s[n] \in Elems(s)  BY <2>2, <1>2
  <2> QED  BY <2>1, <2>2, <2>3, <2>5, <2>6, <2>7, <1>2
<1>17. ASSUME NEW a \in S PROVE \E i \in DOMAIN s : s[i] = a /\ out[i] = "ok"
  <2>1. PICK i \in 1..n : a = s[i] /\ out[i] = "ok"  BY <1>4
  <2>2. i \in DOMAIN s  BY <1>2
  <2> QED  BY <2>1, <2>2
<1>18. code \in {"ok", "ebusy", "ebadf"}  BY <1>16
<1>19. LoopRight(s, skip, stop, l)
  BY <1>1, <1>10, <1>11, <1>12, <1>14, <1>15, <1>16, <1>18 DEF LoopRight
<1> QED  BY <1>1, <1>16, <1>17, <1>19 DEF l, LoopCause

\* The loop stops at the first reason to stop, or goes through all requests.
LEMMA LoopOverRight ==
    ASSUME NEW k, NEW s \in Seq(Reqs), NoDup(s), NEW skip, NEW stop,
           NEW out \in [DOMAIN s -> Codes]
    PROVE  LET l == LoopOver(k, s, skip, stop, out)
           IN  /\ LoopRight(s, skip, stop, l) /\ LoopCause(s, skip, out, l)
               /\ LoopRecord(k, s, l)
<1> DEFINE T == LoopStops(s, skip, stop, out)
           l == LoopOver(k, s, skip, stop, out)
<1>1. T \subseteq 1..Len(s) /\ Len(s) \in Nat  BY DEF LoopStops
<1>2. \E n \in 0..Len(s) : \E code :
         /\ l = LoopUpTo(k, s, skip, out, n, code)
         /\ \A i \in 1..n : i \in T => i = n
         /\ \/ n = Len(s) /\ T = {} /\ code = "ok"
            \/ n \in T /\ code = out[n]
  <2>1. CASE T = {}
    <3>1. l = LoopUpTo(k, s, skip, out, Len(s), "ok")  BY <2>1 DEF LoopOver, LoopRun
    <3> QED  BY <3>1, <2>1, <1>1
  <2>2. CASE T # {}
    <3> DEFINE n == CHOOSE i \in T : \A j \in T : i <= j
    <3>1. l = LoopUpTo(k, s, skip, out, n, out[n])  BY <2>2 DEF LoopOver, LoopRun
    <3>2. \E i \in T : \A j \in T : i <= j
      <4>1. T \in SUBSET Nat  BY <1>1
      <4> QED  BY <4>1, <2>2, LeastNat
    <3>3. n \in T /\ \A j \in T : n <= j  BY <3>2
    <3> HIDE DEF n
    <3>4. n \in 0..Len(s)  BY <3>3, <1>1
    <3>5. \A i \in 1..n : i \in T => i = n  BY <3>3, <3>4, <1>1
    <3> QED  BY <3>1, <3>3, <3>4, <3>5
  <2> QED  BY <2>1, <2>2
<1> HIDE DEF l
<1>3. PICK n \in 0..Len(s) : \E code :
         /\ l = LoopUpTo(k, s, skip, out, n, code)
         /\ \A i \in 1..n : i \in T => i = n
         /\ \/ n = Len(s) /\ T = {} /\ code = "ok"
            \/ n \in T /\ code = out[n]
  BY <1>2
<1>3a. PICK code :
         /\ l = LoopUpTo(k, s, skip, out, n, code)
         /\ \A i \in 1..n : i \in T => i = n
         /\ \/ n = Len(s) /\ T = {} /\ code = "ok"
            \/ n \in T /\ code = out[n]
  BY <1>3
<1>4. LoopRight(s, skip, stop, l) /\ LoopCause(s, skip, out, l)
  <2>1. \A i \in 1..n : i \in LoopStops(s, skip, stop, out) => i = n  BY <1>3a
  <2>2. \/ n = Len(s) /\ LoopStops(s, skip, stop, out) = {} /\ code = "ok"
        \/ n \in LoopStops(s, skip, stop, out) /\ code = out[n]
    BY <1>3a
  <2> QED  BY <1>3a, <2>1, <2>2, LoopTurns
<1>5. LoopRecord(k, s, l)  BY <1>3a DEF LoopRecord, LoopUpTo, LoopEnds
<1> QED  BY <1>4, <1>5 DEF l

\* The requests s follow right after the requests H in the queue q.
Segment(s, q, H) ==
    /\ Elems(s) \subseteq Elems(q) /\ Part(s, q)
    /\ H \subseteq Elems(q) /\ H \cap Elems(s) = {}
    /\ \A a, b : a \in H /\ b \in Elems(s) => Before(q, a, b)
    /\ \A a, b : b \in Elems(s) /\ Before(q, a, b) => a \in H \cup Elems(s)

\* The sent and the unsent requests are two stretches of the queue.
LEMMA Segments ==
    ASSUME NEW k, k.fwd_queue \in Seq(Reqs), NoDup(k.fwd_queue),
           k.last # NoReq => k.last \in Elems(k.fwd_queue)
    PROVE  /\ SentPart(k) \in Seq(Reqs) /\ UnsentPart(k) \in Seq(Reqs)
           /\ NoDup(SentPart(k)) /\ NoDup(UnsentPart(k))
           /\ Elems(SentPart(k)) = UpTo(k.fwd_queue, k.last)
           /\ Elems(UnsentPart(k)) = Elems(k.fwd_queue) \ UpTo(k.fwd_queue, k.last)
           /\ Segment(SentPart(k), k.fwd_queue, {})
           /\ Segment(UnsentPart(k), k.fwd_queue, UpTo(k.fwd_queue, k.last))
<1> DEFINE q == k.fwd_queue
           h == SentPart(k)
           t == UnsentPart(k)
           U == UpTo(q, k.last)
<1> HIDE DEF h, t
<1>1. /\ h \in Seq(Reqs) /\ t \in Seq(Reqs) /\ Elems(h) = U /\ Elems(t) = Elems(q) \ U
      /\ Part(h, q) /\ Part(t, q)
  BY SentUnsent DEF h, t
<1>2. \A a : ~Before(q, a, a)  BY BeforeOrder
<1>3. NoDup(h) /\ NoDup(t)  BY <1>1, <1>2, NoDupBefore DEF Part
<1>4. /\ U \subseteq Elems(q)
      /\ \A a, b : b \in U /\ Before(q, a, b) => a \in U
      /\ k.last = NoReq => U = {}
      /\ \A a, b : k.last \in Elems(q) /\ a \in Elems(q) /\ a \notin U /\ b \in U => Before(q, b, a)
  BY UpToFacts
<1>5. \A a, b : Before(q, a, b) => a \in Elems(q) /\ b \in Elems(q)  BY BeforeElems
<1> HIDE DEF U
<1>6. Segment(h, q, {})  BY <1>1, <1>4 DEF Segment
<1>7. Segment(t, q, U)  BY <1>1, <1>4, <1>5 DEF Segment
<1> QED  BY <1>1, <1>3, <1>6, <1>7 DEF h, t, U

\* Requests are sent in order.
InOrder(s, sent, gone) ==
    \A a, b : a \in sent /\ Before(s, b, a) => b \in sent \cup gone

\* The last one of them.
IsLastOf(x, s, sent) == x \in sent /\ \A a \in sent : a = x \/ Before(s, a, x)

\* After the requests sent of a segment were handed to the socket and the
\* requests gone left it, the last one sent ends the sent part of the queue.
LEMMA SegmentSent ==
    ASSUME NEW q \in Seq(Reqs), NoDup(q), NEW s \in Seq(Reqs), NEW H, Segment(s, q, H),
           NEW gone, NEW sent, sent # {}, sent \subseteq Elems(s), gone \subseteq Elems(s),
           sent \cap gone = {},
           InOrder(s, sent, gone)
    PROVE  /\ IsLastOf(LastOf(s, sent), s, sent)
           /\ UpTo(q, LastOf(s, sent)) \ gone = H \cup sent
<1> DEFINE x == LastOf(s, sent)
<1> HIDE DEF x
<1>1. x \in sent /\ \A a \in sent : a = x \/ Before(s, a, x)
  BY LastOfElems DEF x
<1>2. \A a, b : Before(s, a, b) <=> a \in Elems(s) /\ b \in Elems(s) /\ Before(q, a, b)
  BY DEF Segment, Part
<1>3. ASSUME NEW a \in UpTo(q, x), a \notin gone PROVE a \in H \cup sent
  <2>1. a = x \/ Before(q, a, x)  BY <1>3 DEF UpTo
  <2>2. ASSUME Before(q, a, x) PROVE a \in H \cup sent
    <3>1. a \in H \cup Elems(s)  BY <2>2, <1>1 DEF Segment
    <3>2. a \in Elems(s) => Before(s, a, x)  BY <2>2, <1>1, <1>2
    <3> QED  BY <3>1, <3>2, <1>1, <1>3 DEF InOrder
  <2> QED  BY <2>1, <2>2, <1>1
<1>4. ASSUME NEW a \in H \cup sent PROVE a \in UpTo(q, x) /\ a \notin gone
  <2>1. a \in H => Before(q, a, x) /\ a \in Elems(q) /\ a \notin gone  BY <1>1 DEF Segment
  <2>2. a \in sent => (a = x \/ Before(q, a, x)) /\ a \in Elems(q) /\ a \notin gone
    BY <1>1, <1>2 DEF Segment
  <2> QED  BY <2>1, <2>2 DEF UpTo
<1> QED  BY <1>1, <1>3, <1>4 DEF x, IsLastOf

\* What is in flight then is still in the order of the queue.
LEMMA SegmentFlight ==
    ASSUME NEW q \in Seq(Reqs), NEW s \in Seq(Reqs), NEW H, Segment(s, q, H),
           NEW sent, sent \subseteq Elems(s), NEW f \in Seq(Reqs), Elems(f) \subseteq H,
           \A a, b \in Reqs : Before(f, a, b) => Before(q, a, b)
    PROVE  LET g == f \o Keep(s, sent)
           IN  /\ g \in Seq(Reqs) /\ Elems(g) = Elems(f) \cup sent
               /\ \A a, b \in Reqs : Before(g, a, b) => Before(q, a, b)
<1> DEFINE e == Keep(s, sent)
<1> HIDE DEF e
<1>1. /\ e \in Seq(Reqs) /\ Elems(e) = Elems(s) \cap sent
      /\ \A a, b : Before(e, a, b) <=> a \in sent /\ b \in sent /\ Before(s, a, b)
  BY KeepBefore DEF e
<1>2. /\ f \o e \in Seq(Reqs) /\ Elems(f \o e) = Elems(f) \cup Elems(e)
      /\ \A a, b : Before(f \o e, a, b) <=>
            Before(f, a, b) \/ Before(e, a, b) \/ (a \in Elems(f) /\ b \in Elems(e))
  BY <1>1, ConcatBefore
<1>3. \A a, b \in Reqs : Before(e, a, b) => Before(q, a, b)
  BY <1>1 DEF Segment, Part
<1>4. \A a, b : a \in Elems(f) /\ b \in Elems(e) => Before(q, a, b)
  BY <1>1 DEF Segment
<1> QED  BY <1>1, <1>2, <1>3, <1>4 DEF e

-----------------------------------------------------------------------------
\* What ss_send() may answer over connection k.
Answers(k, res) ==
    /\ res \in [Reqs -> Codes]
    /\ k.phase \in {"closed", "dropped"} => \A r \in Reqs : res[r] = "ebadf"
    /\ k.phase \notin {"closed", "dropped"} => \A r \in Reqs : res[r] # "ebadf"

\* The connection after a loop: the requests gone are off the list, the ones
\* sent are behind what the socket had.
LoopConn(k, s, l) ==
    /\ l.k \in ConnType /\ SamePtr(l.k, k)
    /\ l.k.resend = k.resend /\ l.k.qforwd = k.qforwd /\ l.k.phase = k.phase
    /\ l.k.wire = k.wire /\ l.k.msg = k.msg /\ l.k.sib = k.sib
    /\ l.k.tx = k.tx \o Keep(s, l.sent)
    /\ SameList(l.k, Delist(k, l.gone, {}))
    /\ k.unsched => l.k.unsched

\* The loop of fwd_unsent() and resend(), with what ss_send() may answer.
LEMMA SendLoopRight ==
    ASSUME NEW k \in ConnType, NEW s \in Seq(Reqs), NoDup(s), Elems(s) \subseteq Elems(k.fwd_queue),
           NEW skip, NEW stop, NEW res, Answers(k, res)
    PROVE  LET l == SendLoop(k, s, skip, stop, res)
           IN  /\ LoopRight(s, skip, stop, l) /\ LoopConn(k, s, l)
               /\ k.phase \in {"closed", "dropped"} => l.sent = {}
               /\ l.out = "ebadf" /\ k.phase \notin {"closed", "dropped"} =>
                     \/ Elems(s) \cap Upgrade # {} /\ k.unsched
                     \/ \E a, b \in Upgrade : Before(s, a, b)
<1> DEFINE out == [i \in DOMAIN s |-> FwdSend(k, s, skip, res, i)]
           l == SendLoop(k, s, skip, stop, res)
<1>1. DOMAIN s = 1..Len(s) /\ Len(s) \in Nat /\ \A i \in 1..Len(s) : s[i] \in Reqs  OBVIOUS
<1>2. ASSUME NEW i \in DOMAIN s
      PROVE  /\ out[i] \in Codes
             /\ out[i] # "ebadf" => out[i] = res[s[i]]
             /\ out[i] = "ebadf" =>
                  \/ res[s[i]] = "ebadf"
                  \/ s[i] \in Upgrade /\ k.unsched
                  \/ s[i] \in Upgrade /\ \E j \in 1..(i - 1) : s[j] \in Upgrade
  <2>1. s[i] \in Reqs /\ out[i] = FwdSend(k, s, skip, res, i)  BY <1>1, <1>2
  <2>2. res[s[i]] \in Codes  BY <2>1 DEF Answers
  <2> HIDE DEF out
  <2> QED  BY <2>1, <2>2 DEF FwdSend, Codes
<1>3. out \in [DOMAIN s -> Codes]  BY <1>2
<1>4. l = LoopOver(k, s, skip, stop, out)  BY DEF SendLoop
<1> HIDE DEF out, l
<1>5. LoopRight(s, skip, stop, l) /\ LoopCause(s, skip, out, l)
  BY <1>3, <1>4, LoopOverRight
<1>6. LoopRecord(k, s, l)  BY <1>3, <1>4, LoopOverRight
<1>7. LoopConn(k, s, l)
  <2> DEFINE d == Delist(k, l.gone, {})
             e == Keep(s, l.sent)
             u == d.unsched \/ l.done \cap Upgrade # {}
  <2>1. l.gone \in SUBSET Elems(k.fwd_queue)  BY <1>5 DEF LoopRight
  <2>2. d \in ConnType /\ SamePtr(d, k) /\ SameFlags(d, k) /\ SameSock(d, k)
    BY <2>1, DelistFields
  <2>3. e \in Seq(Reqs)  BY KeepBefore
  <2>4. l.k = [d EXCEPT !.tx = d.tx \o e, !.unsched = u]  BY <1>6 DEF LoopRecord
  <2>5. d.tx \o e \in Seq(Reqs) /\ d.tx = k.tx
    <3>1. d.tx \in Seq(Reqs) /\ d.tx = k.tx  BY <2>2 DEF ConnType, SameSock
    <3> QED  BY <3>1, <2>3
  <2>6. u \in BOOLEAN  OBVIOUS
  <2>7. k.unsched => u  BY <2>2 DEF SameFlags
  <2> HIDE DEF d, e, u
  <2>8. l.k \in ConnType  BY <2>2, <2>4, <2>5, <2>6 DEF ConnType
  <2>9. SamePtr(l.k, k) /\ SameList(l.k, d)
    BY <2>2, <2>4 DEF ConnType, SamePtr, SameList
  <2>10. /\ l.k.resend = k.resend /\ l.k.qforwd = k.qforwd /\ l.k.phase = k.phase
         /\ l.k.wire = k.wire /\ l.k.msg = k.msg /\ l.k.sib = k.sib
    BY <2>2, <2>4 DEF ConnType, SameFlags, SameSock
  <2>11. l.k.tx = k.tx \o e /\ l.k.unsched = u
    BY <2>2, <2>4, <2>5 DEF ConnType
  <2> QED  BY <2>7, <2>8, <2>9, <2>10, <2>11 DEF LoopConn, d, e
<1>8. ASSUME k.phase \in {"closed", "dropped"} PROVE l.sent = {}
  <2> SUFFICES ASSUME NEW a \in l.sent PROVE FALSE
    OBVIOUS
  <2>1. PICK i \in DOMAIN s : s[i] = a /\ out[i] = "ok"  BY <1>5 DEF LoopCause
  <2>2. res[s[i]] = "ok"  BY <2>1, <1>2
  <2> QED  BY <2>2, <1>1, <1>8 DEF Answers
<1>9. ASSUME l.out = "ebadf", k.phase \notin {"closed", "dropped"}
      PROVE  \/ Elems(s) \cap Upgrade # {} /\ k.unsched
             \/ \E a, b \in Upgrade : Before(s, a, b)
  <2>1. PICK i \in DOMAIN s : out[i] = "ebadf"  BY <1>5, <1>9 DEF LoopCause
  <2>2. res[s[i]] # "ebadf"  BY <1>1, <1>9 DEF Answers
  <2>3. s[i] \in Upgrade /\ s[i] \in Elems(s)  BY <2>1, <2>2, <1>2 DEF Elems
  <2>4. CASE k.unsched  BY <2>3, <2>4
  <2>5. CASE ~k.unsched
    <3>1. PICK j \in 1..(i - 1) : s[j] \in Upgrade  BY <2>1, <2>2, <2>5, <1>2
    <3>2. j \in DOMAIN s /\ j < i  BY <1>1
    <3>3. Before(s, s[j], s[i])  BY <3>2 DEF Before
    <3> QED  BY <3>1, <3>3, <2>3
  <2> QED  BY <2>4, <2>5
<1> QED  BY <1>5, <1>7, <1>8, <1>9 DEF l

-----------------------------------------------------------------------------
(* Sections. *)

\* A non-idempotent request that was sent is in the sent part of the queue,
\* and is not sent again.
Once(k, u) ==
    ~RetryNip =>
        /\ u.sent \cap nips \cap UpTo(k.fwd_queue, k.last) = {}
        /\ (u.sent \cup UpTo(k.fwd_queue, k.last)) \cap nips
              \subseteq UpTo(u.k.fwd_queue, u.k.last) \cup u.gone \cup u.cut

IsSection(u) ==
    u = [k |-> u.k, gone |-> u.gone, cut |-> u.cut, tried |-> u.tried, sent |-> u.sent,
         ret |-> u.ret, bug |-> u.bug]

\* What section u, which began with connection k, accounts for.
Good(k, u) ==
    /\ IsSection(u) /\ u.k \in ConnType
    /\ u.gone \cup u.cut \subseteq Elems(k.fwd_queue) /\ u.gone \cap u.cut = {}
    /\ Elems(u.k.fwd_queue) = Elems(k.fwd_queue) \ (u.gone \cup u.cut)
    /\ u.sent \cup u.tried \subseteq Elems(k.fwd_queue)
    /\ \A r \in u.tried : r \in u.gone \/ retries[r] < MaxRefwd
    /\ u.k.phase = k.phase /\ (u.k.resend => k.resend)
    /\ Once(k, u)

\* Its assertions hold, but for the one of ss_send().
Quiet(k, u) == u.bug = "none" \/ (u.bug = "null_sk" /\ k.phase = "stolen")

\* Only flags were changed.
LEMMA NothingGood ==
    ASSUME NEW k, NEW d \in ConnType, d.fwd_queue = k.fwd_queue, d.last = k.last,
           d.phase = k.phase, d.resend => k.resend
    PROVE  Good(k, Nothing(d)) /\ Quiet(k, Nothing(d)) /\ Nothing(d).cut = {}
<1>1. /\ Nothing(d).k = d /\ Nothing(d).gone = {} /\ Nothing(d).cut = {} /\ Nothing(d).tried = {}
      /\ Nothing(d).sent = {} /\ Nothing(d).bug = "none"
      /\ IsSection(Nothing(d))
  BY DEF Nothing, Section, IsSection
<1> HIDE DEF Nothing
<1> QED  BY <1>1 DEF Good, Quiet, Once

\* One section after another.
LEMMA ThenGood ==
    ASSUME NEW k, NEW a, NEW b, Good(k, a), Good(a.k, b), a.cut = {}
    PROVE  /\ Good(k, Then(a, b))
           /\ Then(a, b).k = b.k /\ Then(a, b).ret = b.ret
           /\ Then(a, b).gone = a.gone \cup b.gone /\ Then(a, b).cut = b.cut
           /\ Quiet(k, a) /\ Quiet(a.k, b) => Quiet(k, Then(a, b))
<1> DEFINE t == Then(a, b)
<1>1. /\ t.k = b.k /\ t.gone = a.gone \cup b.gone /\ t.cut = a.cut \cup b.cut
      /\ t.tried = a.tried \cup b.tried /\ t.sent = a.sent \cup b.sent /\ t.ret = b.ret
      /\ t.bug = IF a.bug # "none" THEN a.bug ELSE b.bug
  BY DEF Then
<1>0. IsSection(t)  BY <1>1 DEF IsSection, Then
<1> HIDE DEF t
<1> DEFINE Q == Elems(k.fwd_queue)
           A == Elems(a.k.fwd_queue)
           B == Elems(b.k.fwd_queue)
<1>2. /\ a.gone \subseteq Q /\ A = Q \ a.gone
      /\ b.gone \cup b.cut \subseteq A /\ b.gone \cap b.cut = {} /\ B = A \ (b.gone \cup b.cut)
      /\ a.sent \cup a.tried \subseteq Q /\ b.sent \cup b.tried \subseteq A
  BY DEF Good
<1>3. /\ t.gone \cup t.cut \subseteq Q /\ t.gone \cap t.cut = {}
      /\ B = Q \ (t.gone \cup t.cut) /\ t.sent \cup t.tried \subseteq Q
  <2> HIDE DEF Q, A, B
  <2> QED  BY <1>1, <1>2
<1>4. \A r \in t.tried : r \in t.gone \/ retries[r] < MaxRefwd
  BY <1>1 DEF Good
<1>5. b.k \in ConnType /\ b.k.phase = k.phase /\ (b.k.resend => k.resend)  BY DEF Good
<1>6. Once(k, t)
  <2> SUFFICES ASSUME ~RetryNip PROVE
        /\ t.sent \cap nips \cap UpTo(k.fwd_queue, k.last) = {}
        /\ (t.sent \cup UpTo(k.fwd_queue, k.last)) \cap nips
              \subseteq UpTo(t.k.fwd_queue, t.k.last) \cup t.gone \cup t.cut
    BY DEF Once
  <2> DEFINE U == UpTo(k.fwd_queue, k.last)
             V == UpTo(a.k.fwd_queue, a.k.last)
             W == UpTo(b.k.fwd_queue, b.k.last)
  <2>1. /\ a.sent \cap nips \cap U = {} /\ (a.sent \cup U) \cap nips \subseteq V \cup a.gone
        /\ b.sent \cap nips \cap V = {} /\ (b.sent \cup V) \cap nips \subseteq W \cup b.gone \cup b.cut
    BY DEF Good, Once
  <2> HIDE DEF U, V, W, Q, A, B
  <2>2. t.sent \cap nips \cap U = {}  BY <1>1, <1>2, <2>1
  <2>3. (t.sent \cup U) \cap nips \subseteq W \cup t.gone \cup t.cut  BY <1>1, <2>1
  <2> QED  BY <2>2, <2>3, <1>1 DEF U, W
<1>7. Good(k, t)  BY <1>0, <1>1, <1>3, <1>4, <1>5, <1>6 DEF Good
<1>8. Quiet(k, a) /\ Quiet(a.k, b) => Quiet(k, t)
  <2>1. a.k.phase = k.phase  BY DEF Good
  <2> QED  BY <2>1, <1>1 DEF Quiet
<1> QED  BY <1>1, <1>7, <1>8 DEF t

-----------------------------------------------------------------------------
\* What a connection in flight has more after a loop.
LEMMA LoopFlight ==
    ASSUME NEW k \in ConnType, NEW d \in ConnType, NEW x \in Seq(Reqs),
           d.tx = k.tx \o x, d.wire = k.wire, d.msg = k.msg, d.sib = k.sib
    PROVE  /\ Front(d) = Front(k) /\ Flight(d) = Flight(k) \o x
           /\ Front(k) \in Seq(Reqs) /\ Flight(k) \in Seq(Reqs)
           /\ Elems(Flight(k)) = Elems(Front(k)) \cup Elems(k.tx)
<1>1. Front(k) \in Seq(Reqs) /\ k.tx \in Seq(Reqs)
  BY DEF Front, ConnType, Some, ReqOrNone
<1>2. Front(d) = Front(k)  BY DEF Front
<1>3. Flight(d) = Front(k) \o (k.tx \o x) /\ Flight(k) = Front(k) \o k.tx
  BY <1>2 DEF Flight
<1>4. (Front(k) \o k.tx) \o x = Front(k) \o (k.tx \o x)
  <2> DEFINE f == Front(k)
             t == k.tx
  <2>1. f \in Seq(Reqs) /\ t \in Seq(Reqs)  BY <1>1
  <2> HIDE DEF f, t
  <2>2. (f \o t) \o x = f \o (t \o x)  BY <2>1
  <2> QED  BY <2>2 DEF f, t
<1>5. Front(k) \o k.tx \in Seq(Reqs) /\ Elems(Front(k) \o k.tx) = Elems(Front(k)) \cup Elems(k.tx)
  BY <1>1, ConcatBefore
<1> QED  BY <1>1, <1>2, <1>3, <1>4, <1>5

\* The requests R of the queue have another one behind them.
Ahead(q, R) == \E x \in Elems(q) : \A b \in R : Before(q, b, x)

\* tfw_http_conn_fwd_unsent(): forwards what waits after last_msg_sent.
LEMMA FwdUnsentInv ==
    ASSUME NEW k \in ConnType, ConnInv(k, nips), k.curr = k.last, k.last \notin nips,
           ~Drained(k), ~Probing(k), k.phase \notin {"dead", "init", "gone"},
           NEW res, Answers(k, res)
    PROVE  LET u == FwdUnsent(k, res)
           IN  /\ Good(k, u) /\ Quiet(k, u) /\ u.cut = {}
               /\ ConnInv(u.k, nips) /\ u.k.curr = u.k.last /\ ~Probing(u.k)
               /\ u.ret \in {"ok", "ebusy"}
               /\ u.ret = "ebusy" =>
                    u.k.last = NoReq /\ u.sent = {} /\ Ahead(k.fwd_queue, u.gone)
               /\ u.tried = {}
<1> DEFINE q == k.fwd_queue
           s == UnsentPart(k)
           H == UpTo(q, k.last)
           l == SendLoop(k, s, Stale, nips, res)
           last == IF l.sent = {} THEN k.last ELSE LastOf(s, l.sent)
           d == Delist(l.k, {}, l.sent \ nips)
           e == [d EXCEPT !.last = last, !.curr = last]
           u == FwdUnsent(k, res)
<1>1. q \in Seq(Reqs) /\ NoDup(q) /\ (k.last # NoReq => k.last \in Elems(q)) /\ ListInv(k, nips)
  BY DEF ConnType, ConnInv, BaseInv, ListInv, PtrInv
<1> HIDE DEF s, l, last, d, e, u
<1>2. s \in Seq(Reqs) /\ NoDup(s) /\ Elems(s) = Elems(q) \ H /\ Segment(s, q, H)
  BY <1>1, Segments DEF s
<1>3. /\ LoopRight(s, Stale, nips, l) /\ LoopConn(k, s, l)
      /\ k.phase \in {"closed", "dropped"} => l.sent = {}
  <2>1. Elems(s) \subseteq Elems(q)  BY <1>2
  <2> QED  BY <1>2, <2>1, SendLoopRight DEF l
<1>4. l.gone \in SUBSET Elems(q) /\ l.sent \in SUBSET Reqs
      /\ l.sent \subseteq Elems(s) /\ l.gone \subseteq Elems(s) /\ l.sent \cap l.gone = {}
  <2>1. Elems(s) \subseteq Reqs  BY <1>2, BeforeElems
  <2> QED  BY <2>1, <1>2, <1>3 DEF LoopRight
<1>5. u = Section(e, l.gone, {}, l.sent,
                  IF l.out = "ebusy" /\ last = NoReq THEN "ebusy" ELSE "ok", SendBug(k, l))
  BY DEF u, FwdUnsent, Forwarded, e, d, last, l, s
<1>6. /\ u.k = e /\ u.gone = l.gone /\ u.cut = {} /\ u.tried = {} /\ u.sent = l.sent
      /\ u.ret = (IF l.out = "ebusy" /\ last = NoReq THEN "ebusy" ELSE "ok")
      /\ u.bug = SendBug(k, l)
  BY <1>5 DEF Section
<1> HIDE DEF e
<1>7. Quiet(k, u)  BY <1>6 DEF Quiet, SendBug
<1>8. last \in ReqOrNone /\ (last # NoReq => last \in Elems(q) \ l.gone)
      /\ UpTo(q, last) \ l.gone = H \cup l.sent
      /\ (l.sent # {} => IsLastOf(last, s, l.sent))
  <2>1. CASE l.sent = {}
    <3>1. last = k.last  BY <2>1 DEF last
    <3>2. k.last # NoReq => k.last \in H  BY <1>1, UpToFacts
    <3>3. H \cap l.gone = {}  BY <1>2, <1>4
    <3> QED  BY <2>1, <3>1, <3>2, <3>3, <1>1 DEF ConnType
  <2>2. CASE l.sent # {}
    <3>1. InOrder(s, l.sent, l.gone)  BY <1>3 DEF LoopRight, InOrder
    <3>2. IsLastOf(LastOf(s, l.sent), s, l.sent) /\ UpTo(q, LastOf(s, l.sent)) \ l.gone = H \cup l.sent
      BY <2>2, <3>1, <1>1, <1>2, <1>4, SegmentSent
    <3>3. last = LastOf(s, l.sent)  BY <2>2 DEF last
    <3> QED  BY <2>2, <3>2, <3>3, <1>2, <1>4 DEF ReqOrNone, IsLastOf
  <2> QED  BY <2>1, <2>2
<1>9. l.k \in ConnType /\ ListInv(l.k, nips) /\ Without(l.k.fwd_queue, q, l.gone)
  <2> DEFINE g == Delist(k, l.gone, {})
  <2>1. ListInv(g, nips) /\ Without(g.fwd_queue, q, l.gone)
    BY <1>1, <1>4, DelistList
  <2> HIDE DEF g
  <2>2. l.k \in ConnType /\ SameList(l.k, g)  BY <1>3 DEF LoopConn, g
  <2> QED  BY <2>1, <2>2 DEF SameList, ListInv
<1>10. /\ d \in ConnType /\ ListInv(d, nips) /\ Without(d.fwd_queue, q, l.gone)
       /\ SamePtr(d, l.k) /\ SameFlags(d, l.k) /\ SameSock(d, l.k)
  <2> DEFINE N == l.sent \ nips
  <2>1. N \in SUBSET Reqs /\ N \cap nips = {}  BY <1>4
  <2>2. {} \in SUBSET Elems(l.k.fwd_queue)  OBVIOUS
  <2> HIDE DEF N
  <2>3. ListInv(d, nips) /\ Without(d.fwd_queue, l.k.fwd_queue, {})
    BY <2>1, <2>2, <1>9, DelistList DEF d, N
  <2>4. d \in ConnType /\ SamePtr(d, l.k) /\ SameFlags(d, l.k) /\ SameSock(d, l.k)
    BY <2>1, <2>2, <1>9, DelistFields DEF d, N
  <2> QED  BY <2>3, <2>4, <1>9 DEF Without
<1>11. /\ e \in ConnType /\ e.last = last /\ e.curr = last /\ SameList(e, d) /\ SameFlags(e, d)
       /\ SameSock(e, d)
  BY <1>8, <1>10 DEF e, ConnType, SameList, SameFlags, SameSock
<1>12. /\ e.resend = k.resend /\ e.qforwd = k.qforwd /\ e.phase = k.phase
       /\ e.wire = k.wire /\ e.msg = k.msg /\ e.sib = k.sib /\ e.tx = k.tx \o Keep(s, l.sent)
  BY <1>3, <1>10, <1>11 DEF LoopConn, SameFlags, SameSock
<1>13. /\ ListInv(e, nips) /\ Elems(e.fwd_queue) = Elems(q) \ l.gone
       /\ \A a, b : Before(e.fwd_queue, a, b) <=> a \notin l.gone /\ b \notin l.gone /\ Before(q, a, b)
       /\ UpTo(e.fwd_queue, last) = H \cup l.sent
  <2>1. last \in (Reqs \ l.gone) \cup {NoReq}  BY <1>8 DEF ReqOrNone
  <2> QED  BY <2>1, <1>8, <1>10, <1>11 DEF SameList, ListInv, Without
<1>14. ~Probing(e)  BY <1>12 DEF Probing
<1>15. PtrInv(e)
  <2>1. last # NoReq => last \in UpTo(e.fwd_queue, last)
    BY <1>8, <1>13 DEF UpTo
  <2> QED  BY <2>1, <1>8, <1>11, <1>12, <1>13, <1>14 DEF PtrInv
<1>16. /\ Front(e) = Front(k) /\ Flight(e) = Flight(k) \o Keep(s, l.sent)
       /\ Elems(Flight(e)) = Elems(Flight(k)) \cup l.sent
       /\ \A a, b \in Reqs : Before(Flight(e), a, b) => Before(q, a, b)
       /\ Elems(Front(k)) \subseteq H /\ Elems(Flight(k)) \subseteq H
       /\ Flight(k) \in Seq(Reqs)
  <2>1. Keep(s, l.sent) \in Seq(Reqs)  BY <1>2, KeepBefore
  <2>2. /\ Front(e) = Front(k) /\ Flight(e) = Flight(k) \o Keep(s, l.sent)
        /\ Flight(k) \in Seq(Reqs) /\ Elems(Front(k)) \subseteq Elems(Flight(k))
    BY <2>1, <1>11, <1>12, LoopFlight
  <2>3. /\ Elems(Flight(k)) \subseteq H
        /\ \A a, b \in Reqs : Before(Flight(k), a, b) => Before(q, a, b)
    BY DEF ConnInv, BaseInv, FlightInv
  <2> QED  BY <2>2, <2>3, <1>1, <1>2, <1>4, SegmentFlight
<1>17. FlightInv(e)
  <2>1. \A a, b \in Reqs : Before(Flight(e), a, b) => Before(e.fwd_queue, a, b)
    <3> SUFFICES ASSUME NEW a \in Reqs, NEW b \in Reqs, Before(Flight(e), a, b)
                 PROVE  Before(e.fwd_queue, a, b)
      OBVIOUS
    <3>1. Flight(e) \in Seq(Reqs)
      <4>1. Keep(s, l.sent) \in Seq(Reqs)  BY <1>2, KeepBefore
      <4> QED  BY <4>1, <1>16
    <3>2. a \in Elems(Flight(e)) /\ b \in Elems(Flight(e))  BY <3>1, BeforeElems
    <3>3. a \notin l.gone /\ b \notin l.gone  BY <3>2, <1>16, <1>2, <1>4
    <3> QED  BY <3>3, <1>13, <1>16
  <2>2. \A a, b \in Reqs : Before(e.fwd_queue, a, b) /\ b \in Elems(Front(e)) => a \in Elems(Front(e))
    BY <1>13, <1>16 DEF ConnInv, BaseInv, FlightInv
  <2>3. Elems(Flight(e)) \subseteq UpTo(e.fwd_queue, e.curr)  BY <1>11, <1>13, <1>16
  <2>4. e.phase \in {"finish", "up"} => UpTo(e.fwd_queue, e.curr) \subseteq Elems(Flight(e))
    BY <1>11, <1>12, <1>13, <1>16 DEF ConnInv, BaseInv, FlightInv
  <2> QED  BY <2>1, <2>2, <2>3, <2>4 DEF FlightInv
<1>18. SockInv(e)
  <2>1. e.phase = "closed" \/ e.phase = "dropped" => e.tx = k.tx /\ Flight(e) = Flight(k)
    <3> SUFFICES ASSUME e.phase = "closed" \/ e.phase = "dropped"
                 PROVE  e.tx = k.tx /\ Flight(e) = Flight(k)
      OBVIOUS
    <3>1. l.sent = {}  BY <1>3, <1>12
    <3>2. Keep(s, l.sent) = <<>>
      <4>1. Keep(s, l.sent) \in Seq(Reqs) /\ Elems(Keep(s, l.sent)) = {}  BY <3>1, <1>2, KeepBefore
      <4> QED  BY <4>1, BeforeElems
    <3>3. k.tx \in Seq(Reqs)  BY DEF ConnType
    <3> QED  BY <3>2, <3>3, <1>12, <1>16, ConcatEmptySeq
  <2> QED  BY <2>1, <1>12, <1>16 DEF ConnInv, BaseInv, SockInv
<1>19. NipInv(e, nips) /\ RetryInv(e, nips)
  <2>1. Elems(e.fwd_queue) \cap Upgrade \subseteq nips
    BY <1>13 DEF ConnInv, BaseInv, NipInv
  <2>2. ASSUME NEW a \in H \cup l.sent, a \in nips PROVE a = last
    <3>1. a \notin H  BY <2>2 DEF ConnInv, BaseInv, NipInv
    <3>2. last = a \/ Before(s, last, a)
      BY <3>1, <2>2, <1>3, <1>8 DEF LoopRight, IsLastOf
    <3>3. a = last \/ Before(s, a, last)  BY <3>1, <2>2, <1>8 DEF IsLastOf
    <3> QED  BY <3>2, <3>3, <1>2, BeforeOrder
  <2>3. UpTo(e.fwd_queue, e.last) \cap nips \subseteq {e.last}  BY <2>2, <1>11, <1>13
  <2> QED  BY <2>1, <2>3, <1>14 DEF NipInv, RetryInv
<1>20. ConnInv(e, nips)  BY <1>13, <1>15, <1>17, <1>18, <1>19 DEF ConnInv, BaseInv
<1>21. Good(k, u)
  <2>1. Once(k, u)
    <3>1. l.sent \cap H = {}  BY <1>2, <1>4
    <3> QED  BY <3>1, <1>6, <1>11, <1>13 DEF Once
  <2>2. l.sent \subseteq Elems(q)  BY <1>2, <1>4
  <2>3. IsSection(u)  BY <1>5, <1>6 DEF IsSection, Section
  <2> QED  BY <2>1, <2>2, <2>3, <1>4, <1>6, <1>11, <1>12, <1>13 DEF Good
<1>22. ASSUME u.ret = "ebusy"
       PROVE  last = NoReq /\ u.sent = {} /\ Ahead(q, u.gone)
  <2>1. l.out = "ebusy" /\ last = NoReq  BY <1>6, <1>22
  <2>2. PICK x \in Elems(s) \ (l.sent \cup l.gone) : \A b \in l.sent \cup l.gone : Before(s, b, x)
    BY <2>1, <1>3 DEF LoopRight
  <2>3. \A b \in l.gone : Before(q, b, x)  BY <2>2, <1>2 DEF Segment, Part
  <2>4. l.sent = {}
    <3>1. l.sent # {} => last \in l.sent  BY <1>8 DEF IsLastOf
    <3> QED  BY <2>1, <3>1, <1>4, ReqsAssumption
  <2> QED  BY <2>1, <2>2, <2>3, <2>4, <1>2, <1>6 DEF Ahead
<1> QED  BY <1>6, <1>7, <1>11, <1>14, <1>20, <1>21, <1>22 DEF u

\* What is known after the loop l of tfw_http_conn_resend(): x is the last of
\* the requests that were sent again.
ResendLoop(k, l, x) ==
    /\ LoopConn(k, SentPart(k), l)
    /\ ListInv(l.k, nips) /\ Without(l.k.fwd_queue, k.fwd_queue, l.gone)
    /\ l.sent \subseteq UpTo(k.fwd_queue, k.last) /\ l.gone \subseteq UpTo(k.fwd_queue, k.last)
    /\ x \in l.sent \cup {NoReq} /\ (x = NoReq <=> l.sent = {}) /\ l.sent \cap l.gone = {}
    /\ UpTo(l.k.fwd_queue, x) = l.sent
    /\ Front(l.k) = <<>> /\ Flight(l.k) \in Seq(Reqs) /\ Elems(Flight(l.k)) = l.sent
    /\ \A a, b \in Reqs : Before(Flight(l.k), a, b) => Before(k.fwd_queue, a, b)
    /\ k.phase \in {"closed", "dropped"} => l.sent = {}
    /\ l.out # "ok" => k.last \notin l.sent \cup l.gone

\* Nothing was in flight.
LEMMA NoFlight ==
    ASSUME NEW k \in ConnType, FlightInv(k), NoDup(k.fwd_queue), k.curr = NoReq
    PROVE  Flight(k) = <<>> /\ Front(k) = <<>> /\ k.tx = <<>> /\ k.wire = <<>>
           /\ k.msg = NoReq /\ k.sib = NoReq
<1>1. k.fwd_queue \in Seq(Reqs) /\ k.wire \in Seq(Reqs) /\ k.tx \in Seq(Reqs)
      /\ k.msg \in ReqOrNone /\ k.sib \in ReqOrNone
  BY DEF ConnType
<1>2. UpTo(k.fwd_queue, NoReq) = {}  BY <1>1, UpToFacts
<1>3. Elems(Flight(k)) = {}  BY <1>2 DEF FlightInv
<1> DEFINE m == Some(k.msg)
           n == Some(k.sib)
<1>4. m \in Seq(Reqs) /\ n \in Seq(Reqs)  BY <1>1 DEF Some, ReqOrNone
<1>5. (k.msg # NoReq => m # <<>>) /\ (k.sib # NoReq => n # <<>>)
  BY <1>1 DEF Some, ReqOrNone
<1> HIDE DEF m, n
<1>6. /\ m \o n \in Seq(Reqs) /\ Elems(m \o n) = Elems(m) \cup Elems(n)
      /\ Front(k) \in Seq(Reqs) /\ Elems(Front(k)) = Elems(m \o n) \cup Elems(k.wire)
  <2>1. m \o n \in Seq(Reqs) /\ Elems(m \o n) = Elems(m) \cup Elems(n)  BY <1>4, ConcatBefore
  <2>2. Front(k) = (m \o n) \o k.wire  BY DEF Front, m, n
  <2> DEFINE f == m \o n
             w == k.wire
  <2>3. f \in Seq(Reqs) /\ w \in Seq(Reqs)  BY <2>1, <1>1
  <2> HIDE DEF f, w
  <2>4. f \o w \in Seq(Reqs) /\ Elems(f \o w) = Elems(f) \cup Elems(w)  BY <2>3, ConcatBefore
  <2> QED  BY <2>1, <2>2, <2>4 DEF f, w
<1>7. Flight(k) \in Seq(Reqs) /\ Elems(Flight(k)) = Elems(Front(k)) \cup Elems(k.tx)
  BY <1>1, <1>6, ConcatBefore DEF Flight
<1>8. Elems(m) = {} /\ Elems(n) = {} /\ Elems(k.wire) = {} /\ Elems(k.tx) = {} /\ Elems(Front(k)) = {}
  BY <1>3, <1>6, <1>7
<1>9. m = <<>> /\ n = <<>> /\ k.wire = <<>> /\ k.tx = <<>> /\ Flight(k) = <<>> /\ Front(k) = <<>>
  BY <1>1, <1>3, <1>4, <1>6, <1>7, <1>8, BeforeElems
<1> QED  BY <1>5, <1>9

\* What tfw_http_conn_resend() knows after its loop.
LEMMA ResendLoopRight ==
    ASSUME NEW k \in ConnType, BaseInv(k, nips), k.curr = NoReq, k.last # NoReq,
           NEW skip, NEW stop, NEW res, Answers(k, res)
    PROVE  LET l == SendLoop(k, SentPart(k), skip, stop, res)
           IN  /\ ResendLoop(k, l, LastOf(SentPart(k), l.sent))
               /\ LoopRight(SentPart(k), skip, stop, l)
               /\ l.sent \cap stop # {} => k.last \notin l.gone
               /\ l.out = "ebadf" /\ k.phase \notin {"closed", "dropped"} => k.unsched
<1> DEFINE q == k.fwd_queue
           s == SentPart(k)
           l == SendLoop(k, s, skip, stop, res)
           x == LastOf(s, l.sent)
           U == UpTo(q, k.last)
<1>1. q \in Seq(Reqs) /\ NoDup(q) /\ k.last \in Elems(q) /\ ListInv(k, nips) /\ FlightInv(k)
      /\ NipInv(k, nips)
  BY DEF ConnType, BaseInv, ListInv, PtrInv
<1> HIDE DEF s, l, x
<1>2. s \in Seq(Reqs) /\ NoDup(s) /\ Elems(s) = U /\ Segment(s, q, {})
  BY <1>1, Segments DEF s
<1>3. U \subseteq Elems(q) /\ k.last \in U /\ \A a \in U : a = k.last \/ Before(q, a, k.last)
  <2>1. U \subseteq Elems(q) /\ k.last \in U  BY <1>1, UpToFacts
  <2> QED  BY <2>1 DEF UpTo
<1> HIDE DEF U
<1>4. /\ LoopRight(s, skip, stop, l) /\ LoopConn(k, s, l)
      /\ k.phase \in {"closed", "dropped"} => l.sent = {}
      /\ l.out = "ebadf" /\ k.phase \notin {"closed", "dropped"} =>
            \/ Elems(s) \cap Upgrade # {} /\ k.unsched
            \/ \E a, b \in Upgrade : Before(s, a, b)
  <2>1. Elems(s) \subseteq Elems(q)  BY <1>2, <1>3
  <2> QED  BY <1>2, <2>1, SendLoopRight DEF l
<1>5. l.sent \subseteq U /\ l.gone \subseteq U /\ l.sent \cap l.gone = {}
      /\ InOrder(s, l.sent, l.gone)
  BY <1>2, <1>4 DEF LoopRight, InOrder
<1>6. \A a, b : Before(s, a, b) <=> a \in U /\ b \in U /\ Before(q, a, b)
  BY <1>2 DEF Segment, Part
<1>7. \A a, b : ~(Before(q, a, b) /\ Before(q, b, a)) /\ ~Before(q, a, a)  BY <1>1, BeforeOrder
<1>8. ListInv(l.k, nips) /\ Without(l.k.fwd_queue, q, l.gone)
  <2> DEFINE g == Delist(k, l.gone, {})
  <2>0. l.gone \in SUBSET Elems(q)  BY <1>3, <1>5
  <2>1. ListInv(g, nips) /\ Without(g.fwd_queue, q, l.gone)
    BY <1>1, <2>0, DelistList
  <2> HIDE DEF g
  <2>2. l.k \in ConnType /\ SameList(l.k, g)  BY <1>4 DEF LoopConn, g
  <2> QED  BY <2>1, <2>2 DEF SameList, ListInv
<1>9. x \in l.sent \cup {NoReq} /\ (x = NoReq <=> l.sent = {}) /\ UpTo(l.k.fwd_queue, x) = l.sent
  <2>0. l.sent \subseteq Reqs  BY <1>1, <1>3, <1>5, BeforeElems
  <2>1. CASE l.sent = {}
    <3>1. x = NoReq  BY <2>1, <1>2, LastOfElems DEF x
    <3>2. UpTo(q, NoReq) = {}  BY <1>1, UpToFacts
    <3> QED  BY <2>1, <3>1, <3>2, <1>8 DEF Without
  <2>2. CASE l.sent # {}
    <3>1. IsLastOf(x, s, l.sent) /\ UpTo(q, x) \ l.gone = {} \cup l.sent
      <4>1. l.sent \subseteq Elems(s) /\ l.gone \subseteq Elems(s)  BY <1>2, <1>5
      <4> QED  BY <2>2, <4>1, <1>1, <1>2, <1>5, SegmentSent DEF x
    <3>2. x \in Reqs \ l.gone /\ x \in l.sent  BY <3>1, <2>0, <1>5 DEF IsLastOf
    <3> QED  BY <2>2, <3>1, <3>2, <1>8, ReqsAssumption DEF Without
  <2> QED  BY <2>1, <2>2
<1>10. /\ Front(l.k) = <<>> /\ Flight(l.k) \in Seq(Reqs) /\ Elems(Flight(l.k)) = l.sent
       /\ \A a, b \in Reqs : Before(Flight(l.k), a, b) => Before(q, a, b)
  <2>1. Flight(k) = <<>> /\ Front(k) = <<>>  BY <1>1, NoFlight
  <2>2. Keep(s, l.sent) \in Seq(Reqs)  BY <1>2, KeepBefore
  <2>3. l.k \in ConnType /\ Front(l.k) = Front(k) /\ Flight(l.k) = Flight(k) \o Keep(s, l.sent)
        /\ Flight(k) \in Seq(Reqs)
    BY <2>2, <1>4, LoopFlight DEF LoopConn
  <2>4. Elems(Flight(k)) \subseteq {} /\ \A a, b \in Reqs : Before(Flight(k), a, b) => Before(q, a, b)
    BY <2>1, NoElem
  <2>5. l.sent \subseteq Elems(s)  BY <1>2, <1>5
  <2>6. /\ Flight(k) \o Keep(s, l.sent) \in Seq(Reqs)
        /\ Elems(Flight(k) \o Keep(s, l.sent)) = Elems(Flight(k)) \cup l.sent
        /\ \A a, b \in Reqs : Before(Flight(k) \o Keep(s, l.sent), a, b) => Before(q, a, b)
    BY <2>3, <2>4, <2>5, <1>1, <1>2, SegmentFlight
  <2> QED  BY <2>1, <2>3, <2>4, <2>6
<1>11. ASSUME l.out # "ok" PROVE k.last \notin l.sent \cup l.gone
  <2>1. PICK y \in Elems(s) \ (l.sent \cup l.gone) : \A b \in l.sent \cup l.gone : Before(s, b, y)
    BY <1>4, <1>11 DEF LoopRight
  <2>2. y = k.last \/ Before(q, y, k.last)  BY <2>1, <1>2, <1>3
  <2>3. k.last \in l.sent \cup l.gone => Before(q, k.last, y)  BY <2>1, <1>6
  <2> QED  BY <2>2, <2>3, <1>7
<1>12. ASSUME l.sent \cap stop # {} PROVE k.last \notin l.gone
  <2>1. PICK a \in l.sent \cap stop : TRUE  BY <1>12
  <2>2. a = k.last \/ Before(q, a, k.last)  BY <1>3, <1>5
  <2>3. k.last \in l.gone => k.last = a \/ Before(q, k.last, a)
    BY <1>4, <1>6 DEF LoopRight
  <2> QED  BY <2>2, <2>3, <1>5, <1>7
<1>13. ASSUME l.out = "ebadf", k.phase \notin {"closed", "dropped"} PROVE k.unsched
  <2> SUFFICES ASSUME NEW a \in Upgrade, NEW b \in Upgrade, Before(s, a, b) PROVE FALSE
    BY <1>4, <1>13
  <2>1. a \in U /\ b \in U /\ Before(q, a, b)  BY <1>6
  <2>2. U \cap Upgrade \subseteq {k.last}  BY <1>1, <1>3 DEF NipInv, U
  <2> QED  BY <2>1, <2>2, <1>7
<1>14. ResendLoop(k, l, x)
  BY <1>4, <1>5, <1>8, <1>9, <1>10, <1>11 DEF ResendLoop, U, s
<1> QED  BY <1>4, <1>12, <1>13, <1>14 DEF l, x, s

\* The pointers after the loop: curr_msg_sent is the last request sent again,
\* last_msg_sent is it or is left where it was.
LEMMA ResendConn ==
    ASSUME NEW k \in ConnType, ConnInv(k, nips), k.curr = NoReq, Probing(k),
           k.phase \notin {"dead", "init", "gone"},
           NEW l, NEW x, ResendLoop(k, l, x), NEW d \in ConnType,
           SameList(d, l.k), SameSock(d, l.k), d.phase = k.phase, d.curr = x,
           d.last = x \/ (d.last = k.last /\ k.last # NoReq /\ k.last \notin l.gone),
           ~Probing(d) => d.last = x,
           Probing(d) => l.sent \subseteq {x},
           Probing(d) /\ d.phase \in Active \cup {"stolen"} => ~d.unsched,
           d.last = x => l.sent \cap nips \subseteq {x}
    PROVE  ConnInv(d, nips)
<1> DEFINE q == k.fwd_queue
           p == d.fwd_queue
           U == UpTo(q, k.last)
<1>1. q \in Seq(Reqs) /\ NoDup(q) /\ (k.last # NoReq => k.last \in Elems(q))
  BY DEF ConnType, ConnInv, BaseInv, ListInv, PtrInv
<1>2. ListInv(d, nips) /\ Without(p, q, l.gone) /\ p = l.k.fwd_queue
  BY DEF ResendLoop, SameList, ListInv
<1>3. /\ l.sent \subseteq U /\ l.gone \subseteq U /\ x \in l.sent \cup {NoReq}
      /\ (x = NoReq <=> l.sent = {}) /\ UpTo(p, x) = l.sent /\ l.sent \cap l.gone = {}
  BY <1>2 DEF ResendLoop
<1>4. U \subseteq Elems(q)  BY <1>1, UpToFacts
<1>5. Elems(p) = Elems(q) \ l.gone /\ p \in Seq(Reqs) /\ NoDup(p)
  BY <1>2 DEF Without, ListInv
<1>6. d.last # x => d.last = k.last /\ d.last \in Reqs \ l.gone /\ UpTo(p, d.last) = U \ l.gone
  <2>1. k.last \in ReqOrNone  BY DEF ConnType
  <2> QED  BY <2>1, <1>2 DEF Without, ReqOrNone
<1>7. PtrInv(d)
  <2>1. d.last # NoReq => d.last \in Elems(p)  BY <1>1, <1>3, <1>4, <1>5, <1>6
  <2>2. x # NoReq => x \in UpTo(p, d.last)
    <3>1. x # NoReq => x \in UpTo(p, x)  BY <1>3
    <3> QED  BY <3>1, <1>3, <1>6
  <2>3. Probing(d) => UpTo(p, x) \subseteq {x}  BY <1>3
  <2> QED  BY <2>1, <2>2, <2>3 DEF PtrInv
<1>8. Front(d) = <<>> /\ Flight(d) = Flight(l.k) /\ Front(l.k) = <<>>
  BY DEF Front, Flight, SameSock, ResendLoop
<1>9. FlightInv(d)
  <2>1. \A a, b \in Reqs : Before(Flight(d), a, b) => Before(p, a, b)
    <3> SUFFICES ASSUME NEW a \in Reqs, NEW b \in Reqs, Before(Flight(d), a, b)
                 PROVE  Before(p, a, b)
      OBVIOUS
    <3>1. Flight(d) \in Seq(Reqs) /\ Elems(Flight(d)) = l.sent  BY <1>8 DEF ResendLoop
    <3>2. a \in l.sent /\ b \in l.sent  BY <3>1, BeforeElems
    <3>3. Before(q, a, b)  BY <1>8 DEF ResendLoop
    <3> QED  BY <3>2, <3>3, <1>2, <1>3 DEF Without
  <2>2. \A b : b \notin Elems(Front(d))  BY <1>8, NoElem
  <2>3. Elems(Flight(d)) = UpTo(p, d.curr)  BY <1>3, <1>8 DEF ResendLoop
  <2> QED  BY <2>1, <2>2, <2>3 DEF FlightInv
<1>10. SockInv(d)
  <2>1. l.k \in ConnType /\ d.msg = k.msg /\ d.sib = k.sib /\ d.wire = k.wire
    BY DEF ResendLoop, LoopConn, SameSock
  <2>2. k.tx = <<>> /\ k.wire = <<>> /\ k.msg = NoReq /\ k.sib = NoReq
    BY <1>1, NoFlight DEF ConnInv, BaseInv
  <2>3. d.phase \in {"closed", "dropped"} => Flight(d) = <<>>
    <3>1. Flight(d) \in Seq(Reqs) /\ (d.phase \in {"closed", "dropped"} => Elems(Flight(d)) = {})
      BY <1>8 DEF ResendLoop
    <3> QED  BY <3>1, BeforeElems
  <2>4. Flight(d) = d.tx
    <3>1. d.tx \in Seq(Reqs)  BY DEF ConnType
    <3> QED  BY <3>1, <1>8, ConcatEmptySeq DEF Flight
  <2> QED  BY <1>8, <2>1, <2>2, <2>3, <2>4 DEF SockInv
<1>11. NipInv(d, nips)
  <2>1. Elems(p) \cap Upgrade \subseteq nips  BY <1>5 DEF ConnInv, BaseInv, NipInv
  <2>2. U \cap nips \subseteq {k.last}  BY DEF ConnInv, BaseInv, NipInv
  <2>3. UpTo(p, d.last) \cap nips \subseteq {d.last}
    <3>1. CASE d.last = x  BY <3>1, <1>3
    <3>2. CASE d.last # x  BY <3>2, <1>6, <2>2
    <3> QED  BY <3>1, <3>2
  <2> QED  BY <2>1, <2>3 DEF NipInv
<1>12. RetryInv(d, nips)
  <2>1. ~RetryNip => U \cap nips = {}  BY DEF ConnInv, RetryInv
  <2>2. UpTo(p, d.last) \subseteq U
    <3>1. CASE d.last = x  BY <3>1, <1>3
    <3>2. CASE d.last # x  BY <3>2, <1>6
    <3> QED  BY <3>1, <3>2
  <2> QED  BY <2>1, <2>2 DEF RetryInv
<1> QED  BY <1>2, <1>7, <1>9, <1>10, <1>11, <1>12 DEF ConnInv, BaseInv

\* The accounts of a section that re-sent requests.
LEMMA ResentGood ==
    ASSUME NEW k \in ConnType, ConnInv(k, nips), Probing(k), k.phase # "init",
           NEW l, NEW x, ResendLoop(k, l, x), NEW d \in ConnType, SameList(d, l.k),
           d.phase = k.phase, d.resend => k.resend,
           NEW u, IsSection(u), u.k = d, u.gone = l.gone, u.cut = {}, u.sent = l.sent,
           u.tried \subseteq Elems(k.fwd_queue), \A r \in u.tried : r \in u.gone \/ retries[r] < MaxRefwd
    PROVE  Good(k, u)
<1> DEFINE U == UpTo(k.fwd_queue, k.last)
<1>1. k.fwd_queue \in Seq(Reqs) /\ NoDup(k.fwd_queue)  BY DEF ConnType, ConnInv, BaseInv, ListInv
<1>2. U \subseteq Elems(k.fwd_queue)  BY <1>1, UpToFacts
<1>3. l.sent \subseteq U /\ l.gone \subseteq U  BY DEF ResendLoop
<1>4. Elems(d.fwd_queue) = Elems(k.fwd_queue) \ l.gone  BY DEF ResendLoop, Without, SameList
<1>5. ~RetryNip => U \cap nips = {}  BY DEF ConnInv, RetryInv
<1>6. Once(k, u)  BY <1>3, <1>5 DEF Once
<1> QED  BY <1>2, <1>3, <1>4, <1>6 DEF Good

\* tfw_http_conn_resend(): section u is what its loop l makes of it.
ResendRight(k, first, l, x, u) ==
    /\ ResendLoop(k, l, x)
    /\ l.out \in {"ok", "ebusy", "ebadf"}
    /\ first => /\ l.sent \subseteq {x}
                /\ l.out # "ok" => x = NoReq
                /\ x # NoReq => k.last \notin l.gone
    /\ l.out = "ok" /\ (~first \/ x = NoReq) =>
          UpTo(k.fwd_queue, k.last) \subseteq l.sent \cup l.gone
    /\ l.out = "ebadf" /\ k.phase \notin {"closed", "dropped"} => k.unsched
    /\ IsSection(u) /\ u.gone = l.gone /\ u.cut = {} /\ u.sent = l.sent /\ u.ret = l.out
    /\ u.tried \subseteq Elems(k.fwd_queue)
    /\ \A r \in u.tried : r \in u.gone \/ retries[r] < MaxRefwd
    /\ Quiet(k, u)
    /\ u.k = IF l.out = "ebadf" \/ (l.out = "ok" /\ first /\ x # NoReq)
             THEN [l.k EXCEPT !.curr = x]
             ELSE [l.k EXCEPT !.curr = x, !.last = x]

\* tfw_http_conn_resend() with its loop, for the first request or for all.
LEMMA ResendResult ==
    ASSUME NEW k \in ConnType, ConnInv(k, nips), Probing(k), k.curr = NoReq, k.last # NoReq,
           k.phase \notin {"dead", "init", "gone"}, retries \in [Reqs -> 0..MaxRefwd],
           NEW first \in BOOLEAN, NEW res, Answers(k, res)
    PROVE  \E l, x : ResendRight(k, first, l, x, Resend(k, first, res))
<1> DEFINE s == SentPart(k)
           skip == Stale \cup {r \in Elems(s) : retries[r] >= MaxRefwd}
           stop == IF first THEN Reqs ELSE {}
           l == SendLoop(k, s, skip, stop, res)
           x == LastOf(s, l.sent)
           u == Resend(k, first, res)
<1>0. k.fwd_queue \in Seq(Reqs) /\ NoDup(k.fwd_queue) /\ k.last \in Elems(k.fwd_queue) /\ BaseInv(k, nips)
  BY DEF ConnType, ConnInv, BaseInv, ListInv, PtrInv
<1>1. /\ ResendLoop(k, l, x) /\ LoopRight(s, skip, stop, l)
      /\ l.sent \cap stop # {} => k.last \notin l.gone
      /\ l.out = "ebadf" /\ k.phase \notin {"closed", "dropped"} => k.unsched
  BY <1>0, ResendLoopRight
<1>2. s \in Seq(Reqs) /\ Elems(s) = UpTo(k.fwd_queue, k.last) /\ Elems(s) \subseteq Elems(k.fwd_queue)
  <2>1. s \in Seq(Reqs) /\ Elems(s) = UpTo(k.fwd_queue, k.last)  BY <1>0, Segments
  <2> HIDE DEF s
  <2> QED  BY <2>1, <1>0, UpToFacts
<1>3. u = Resent(k, first, s, l)  BY DEF Resend
<1>4. /\ l.out \in {"ok", "ebusy", "ebadf"} /\ l.sent \subseteq Elems(s)
      /\ l.gone \subseteq Elems(s) /\ l.done \subseteq Elems(s) \ skip
  BY <1>1 DEF LoopRight
<1>5. x \in l.sent \cup {NoReq} /\ (x = NoReq <=> l.sent = {})  BY <1>1 DEF ResendLoop
<1>6. \A r \in Elems(s) : r \in Reqs /\ (r \notin skip => r \notin Stale /\ retries[r] < MaxRefwd)
  <2>1. Elems(s) \subseteq Reqs  BY <1>2, BeforeElems
  <2>2. \A r \in Reqs : retries[r] \in Int /\ MaxRefwd \in Int  BY LimitsAssumption
  <2> QED  BY <2>1, <2>2
<1> HIDE DEF s, l, x, skip, u
<1>7. Quiet(k, u) /\ u.gone = l.gone /\ u.cut = {} /\ u.sent = l.sent /\ u.ret = l.out
      /\ u.tried = (l.done \cup l.gone) \ Stale
  BY <1>3 DEF Resent, Section, Quiet, SendBug
<1>13. IsSection(u)  BY <1>3 DEF IsSection, Resent, Section
<1>8. u.k = IF l.out = "ebadf" \/ (l.out = "ok" /\ first /\ x # NoReq)
            THEN [l.k EXCEPT !.curr = x]
            ELSE [l.k EXCEPT !.curr = x, !.last = x]
  <2> DEFINE y == IF x = NoReq THEN k.curr ELSE x
  <2>1. y = x  OBVIOUS
  <2> HIDE DEF y
  <2>2. u.k = CASE l.out = "ebadf" -> [l.k EXCEPT !.curr = y]
                [] l.out = "ebusy" -> [l.k EXCEPT !.curr = y, !.last = x]
                [] l.out = "ok" /\ first /\ x # NoReq -> [l.k EXCEPT !.curr = x]
                [] OTHER -> [l.k EXCEPT !.curr = x, !.last = x]
    BY <1>3 DEF Resent, Section, x, y
  <2>3. CASE l.out = "ebadf"  BY <2>1, <2>2, <2>3
  <2>4. CASE l.out = "ebusy"
    <3>1. u.k = [l.k EXCEPT !.curr = y, !.last = x]  BY <2>2, <2>4
    <3>2. u.k = [l.k EXCEPT !.curr = x, !.last = x]  BY <2>1, <3>1
    <3> QED  BY <3>2, <2>4
  <2>5. CASE l.out = "ok"  BY <2>2, <2>5
  <2> QED  BY <2>3, <2>4, <2>5, <1>4
<1>9. u.tried \subseteq Elems(k.fwd_queue) /\ \A r \in u.tried : r \in u.gone \/ retries[r] < MaxRefwd
  BY <1>2, <1>4, <1>6, <1>7
<1>10. first => /\ l.sent \subseteq {x}
                /\ l.out # "ok" => x = NoReq
                /\ x # NoReq => k.last \notin l.gone
  <2> SUFFICES ASSUME first PROVE /\ l.sent \subseteq {x}
                                  /\ l.out # "ok" => x = NoReq
                                  /\ x # NoReq => k.last \notin l.gone
    OBVIOUS
  <2>1. l.sent \cap stop = l.sent  BY <1>4, <1>6
  <2>2. \A a, b \in l.sent : b = a \/ Before(s, b, a)  BY <2>1, <1>1 DEF LoopRight
  <2>3. \A a, b \in l.sent : b = a
    <3>1. NoDup(s)  BY <1>0, Segments DEF s
    <3> QED  BY <2>2, <3>1, <1>2, BeforeOrder
  <2>4. l.out # "ok" => l.sent = {}  BY <2>1, <1>1 DEF LoopRight
  <2> QED  BY <2>1, <2>3, <2>4, <1>1, <1>5
<1>11. l.out = "ok" /\ (~first \/ x = NoReq) => UpTo(k.fwd_queue, k.last) \subseteq l.sent \cup l.gone
  <2>1. l.out = "ok" /\ l.sent \cap stop = {} => Elems(s) \subseteq l.sent \cup l.gone
    BY <1>1 DEF LoopRight
  <2>2. ~first \/ x = NoReq => l.sent \cap stop = {}  BY <1>5
  <2> QED  BY <2>1, <2>2, <1>2
<1>12. ResendRight(k, first, l, x, u)
  BY <1>1, <1>4, <1>7, <1>8, <1>9, <1>10, <1>11, <1>13 DEF ResendRight
<1> QED  BY <1>12 DEF u

\* The first request that can be sent is sent again, when a connection is
\* established.
LEMMA ResendFirst ==
    ASSUME NEW k \in ConnType, ConnInv(k, nips), Probing(k), k.curr = NoReq, k.phase = "finish",
           retries \in [Reqs -> 0..MaxRefwd], NEW res, Answers(k, res)
    PROVE  LET u == Resend(k, TRUE, res)
           IN  /\ Good(k, u) /\ Quiet(k, u) /\ u.cut = {}
               /\ ConnInv(u.k, nips) /\ Probing(u.k) /\ u.ret \in {"ok", "ebusy", "ebadf"}
               /\ u.ret # "ebadf" /\ u.k.last = NoReq => u.k.curr = NoReq
               /\ u.ret = "ebusy" => u.k.last = NoReq
<1> DEFINE u == Resend(k, TRUE, res)
<1>1. CASE k.last = NoReq
  <2>1. u = Nothing(k)  BY <1>1 DEF Resend
  <2>2. Good(k, Nothing(k)) /\ Quiet(k, Nothing(k)) /\ Nothing(k).cut = {}  BY NothingGood
  <2>3. Nothing(k).k = k /\ Nothing(k).ret = "ok"  BY DEF Nothing, Section
  <2> QED  BY <2>1, <2>2, <2>3
<1>2. CASE k.last # NoReq
  <2>1. TRUE \in BOOLEAN /\ k.phase \notin {"dead", "init", "gone"}  OBVIOUS
  <2>10. PICK l, x : ResendRight(k, TRUE, l, x, u)  BY <1>2, <2>1, ResendResult
  <2> HIDE DEF u
  <2>2. /\ ResendLoop(k, l, x)
        /\ l.out \in {"ok", "ebusy", "ebadf"}
        /\ l.sent \subseteq {x} /\ (l.out # "ok" => x = NoReq) /\ (x # NoReq => k.last \notin l.gone)
        /\ IsSection(u) /\ u.gone = l.gone /\ u.cut = {} /\ u.sent = l.sent /\ u.ret = l.out
        /\ u.tried \subseteq Elems(k.fwd_queue)
        /\ \A r \in u.tried : r \in u.gone \/ retries[r] < MaxRefwd
        /\ Quiet(k, u)
        /\ u.k = IF l.out = "ebadf" \/ (l.out = "ok" /\ x # NoReq)
                 THEN [l.k EXCEPT !.curr = x]
                 ELSE [l.k EXCEPT !.curr = x, !.last = x]
    BY <2>10 DEF ResendRight
  <2>3. /\ l.k \in ConnType /\ SamePtr(l.k, k)
        /\ l.k.resend = k.resend /\ l.k.qforwd = k.qforwd /\ l.k.phase = k.phase
        /\ x \in ReqOrNone /\ l.sent \cap nips \subseteq {x}
        /\ (l.out # "ok" => k.last \notin l.gone) /\ (x = NoReq => l.sent = {})
    <3>1. l.sent \subseteq Reqs
      <4>1. k.fwd_queue \in Seq(Reqs)  BY DEF ConnType
      <4> QED  BY <4>1, <2>2, BeforeElems DEF ResendLoop, UpTo
    <3> QED  BY <3>1, <2>2 DEF ResendLoop, LoopConn, ReqOrNone
  <2>4. /\ u.k \in ConnType /\ SameList(u.k, l.k) /\ SameSock(u.k, l.k) /\ u.k.curr = x
        /\ u.k.phase = k.phase /\ u.k.resend = k.resend /\ u.k.qforwd = k.qforwd
        /\ (l.out = "ebadf" \/ (l.out = "ok" /\ x # NoReq) => u.k.last = k.last)
        /\ (~(l.out = "ebadf" \/ (l.out = "ok" /\ x # NoReq)) => u.k.last = x)
    <3>1. CASE l.out = "ebadf" \/ (l.out = "ok" /\ x # NoReq)
      <4>1. u.k = [l.k EXCEPT !.curr = x]  BY <3>1, <2>2
      <4>2. u.k \in ConnType /\ SameList(u.k, l.k) /\ SameSock(u.k, l.k) /\ u.k.curr = x
        BY <4>1, <2>3 DEF ConnType, SameList, SameSock
      <4>3. /\ u.k.phase = k.phase /\ u.k.resend = k.resend /\ u.k.qforwd = k.qforwd
            /\ u.k.last = k.last
        BY <4>1, <2>3 DEF ConnType, SamePtr
      <4> QED  BY <3>1, <4>2, <4>3
    <3>2. CASE ~(l.out = "ebadf" \/ (l.out = "ok" /\ x # NoReq))
      <4>1. u.k = [l.k EXCEPT !.curr = x, !.last = x]  BY <3>2, <2>2
      <4>2. u.k \in ConnType /\ SameList(u.k, l.k) /\ SameSock(u.k, l.k) /\ u.k.curr = x
        BY <4>1, <2>3 DEF ConnType, SameList, SameSock
      <4>3. /\ u.k.phase = k.phase /\ u.k.resend = k.resend /\ u.k.qforwd = k.qforwd
            /\ u.k.last = x
        BY <4>1, <2>3 DEF ConnType
      <4> QED  BY <3>2, <4>2, <4>3
    <3> QED  BY <3>1, <3>2
  <2>5. Probing(u.k)  BY <2>4 DEF Probing
  <2>6. u.k.last = x \/ (u.k.last = k.last /\ k.last # NoReq /\ k.last \notin l.gone)
    BY <1>2, <2>2, <2>3, <2>4
  <2>7. ConnInv(u.k, nips)
    <3>1. u.k.phase \notin Active \cup {"stolen"}  BY <2>4 DEF Active
    <3> QED  BY <2>1, <2>2, <2>3, <2>4, <2>5, <2>6, <3>1, ResendConn
  <2>8. Good(k, u)
    <3>1. k.phase # "init" /\ (u.k.resend => k.resend)  BY <2>4
    <3> QED  BY <2>2, <2>4, <3>1, ResentGood
  <2>9. /\ u.ret # "ebadf" /\ u.k.last = NoReq => u.k.curr = NoReq
        /\ u.ret = "ebusy" => u.k.last = NoReq
    BY <1>2, <2>2, <2>4
  <2> QED  BY <2>2, <2>5, <2>7, <2>8, <2>9 DEF u
<1> QED  BY <1>1, <1>2

\* The rest is sent again when the response to the first one has come.
LEMMA ResendRest ==
    ASSUME NEW k \in ConnType, ConnInv(k, nips), Probing(k), k.curr = NoReq,
           k.phase \in Active \cup {"stolen", "closed", "dropped"},
           retries \in [Reqs -> 0..MaxRefwd], NEW res, Answers(k, res)
    PROVE  LET u == Resend(k, FALSE, res)
               d == [u.k EXCEPT !.qforwd = TRUE]
           IN  /\ Good(k, u) /\ Quiet(k, u) /\ u.cut = {}
               /\ u.ret = "ebadf" => ConnInv(u.k, nips)
               /\ u.ret # "ebadf" =>
                    /\ d \in ConnType /\ ConnInv(d, nips) /\ d.curr = d.last /\ ~Probing(d)
                    /\ d.fwd_queue = u.k.fwd_queue /\ d.last = u.k.last /\ d.phase = u.k.phase
                    /\ d.resend = u.k.resend
<1> DEFINE u == Resend(k, FALSE, res)
           d == [u.k EXCEPT !.qforwd = TRUE]
<1>1. CASE k.last = NoReq
  <2>1. u = Nothing(k)  BY <1>1 DEF Resend
  <2>2. Good(k, Nothing(k)) /\ Quiet(k, Nothing(k)) /\ Nothing(k).cut = {}  BY NothingGood
  <2>3. Nothing(k).k = k /\ Nothing(k).ret = "ok"  BY DEF Nothing, Section
  <2>4. d = [k EXCEPT !.qforwd = TRUE]  BY <2>1, <2>3
  <2> HIDE DEF d
  <2>5. d \in ConnType /\ d.curr = d.last /\ SamePtr(d, k) /\ SameList(d, k) /\ SameSock(d, k)
        /\ d.phase = k.phase /\ d.resend = k.resend /\ d.qforwd = TRUE
    BY <2>4, <1>1 DEF ConnType, SamePtr, SameList, SameSock
  <2>6. ~Probing(d)  BY <2>5 DEF Probing
  <2>7. PtrInv(d)
    BY <2>5, <2>6, <1>1 DEF ConnInv, BaseInv, PtrInv, SamePtr, SameList, Active
  <2>8. ConnInv(d, nips)
    BY <2>5, <2>6, <2>7 DEF ConnInv, BaseInv, ListInv, FlightInv, SockInv, NipInv, RetryInv,
       Flight, Front, SamePtr, SameList, SameSock
  <2> QED  BY <2>1, <2>2, <2>3, <2>5, <2>6, <2>8 DEF d, SamePtr, SameList
<1>2. CASE k.last # NoReq
  <2>1. FALSE \in BOOLEAN /\ k.phase \notin {"dead", "init", "gone"}  BY DEF Active
  <2>10. PICK l, x : ResendRight(k, FALSE, l, x, u)  BY <1>2, <2>1, ResendResult
  <2> HIDE DEF u
  <2>2. /\ ResendLoop(k, l, x)
        /\ l.out \in {"ok", "ebusy", "ebadf"}
        /\ l.out = "ok" => UpTo(k.fwd_queue, k.last) \subseteq l.sent \cup l.gone
        /\ l.out = "ebadf" /\ k.phase \notin {"closed", "dropped"} => k.unsched
        /\ IsSection(u) /\ u.gone = l.gone /\ u.cut = {} /\ u.sent = l.sent /\ u.ret = l.out
        /\ u.tried \subseteq Elems(k.fwd_queue)
        /\ \A r \in u.tried : r \in u.gone \/ retries[r] < MaxRefwd
        /\ Quiet(k, u)
        /\ u.k = IF l.out = "ebadf" THEN [l.k EXCEPT !.curr = x]
                 ELSE [l.k EXCEPT !.curr = x, !.last = x]
    BY <2>10 DEF ResendRight
  <2>3. /\ l.k \in ConnType /\ SamePtr(l.k, k)
        /\ l.k.resend = k.resend /\ l.k.qforwd = k.qforwd /\ l.k.phase = k.phase
        /\ x \in ReqOrNone
        /\ (l.out # "ok" => k.last \notin l.gone \cup l.sent) /\ (x = NoReq <=> l.sent = {})
    <3>1. l.sent \subseteq Reqs
      <4>1. k.fwd_queue \in Seq(Reqs)  BY DEF ConnType
      <4> QED  BY <4>1, <2>2, BeforeElems DEF ResendLoop, UpTo
    <3> QED  BY <3>1, <2>2 DEF ResendLoop, LoopConn, ReqOrNone
  <2>4. CASE l.out = "ebadf"
    <3>1. k.phase \in {"closed", "dropped"}
      BY <2>2, <2>4 DEF ConnInv, BaseInv, PtrInv
    <3>2. l.sent = {} /\ x = NoReq  BY <2>2, <2>3, <3>1 DEF ResendLoop
    <3>3. u.k = [l.k EXCEPT !.curr = x]  BY <2>2, <2>4
    <3>4. u.k \in ConnType /\ SameList(u.k, l.k) /\ SameSock(u.k, l.k) /\ u.k.curr = x
      BY <3>3, <2>3 DEF ConnType, SameList, SameSock
    <3>5. /\ u.k.phase = k.phase /\ u.k.resend = k.resend /\ u.k.qforwd = k.qforwd
          /\ u.k.last = k.last
      BY <3>3, <2>3 DEF ConnType, SamePtr
    <3>6. Probing(u.k) /\ u.k.phase \notin Active \cup {"stolen"}  BY <3>1, <3>5 DEF Probing, Active
    <3>7. k.last \notin l.gone /\ l.sent \subseteq {x} /\ l.sent \cap nips \subseteq {x}
      BY <2>3, <2>4, <3>2
    <3>8. ConnInv(u.k, nips)
      BY <1>2, <2>1, <2>2, <3>4, <3>5, <3>6, <3>7, ResendConn
    <3>9. Good(k, u)
      <4>1. k.phase # "init" /\ (u.k.resend => k.resend)  BY <3>1, <3>5
      <4> QED  BY <2>2, <3>4, <3>5, <4>1, ResentGood
    <3> QED  BY <2>2, <2>4, <3>8, <3>9 DEF u
  <2>5. CASE l.out # "ebadf"
    <3>3. u.k = [l.k EXCEPT !.curr = x, !.last = x]  BY <2>2, <2>5
    <3>4. u.k \in ConnType /\ SameList(u.k, l.k) /\ SameSock(u.k, l.k) /\ u.k.curr = x
          /\ u.k.last = x /\ u.k.phase = k.phase /\ u.k.resend = k.resend
      BY <3>3, <2>3 DEF ConnType, SameList, SameSock
    <3>5. d \in ConnType /\ SameList(d, u.k) /\ SameSock(d, u.k) /\ d.curr = x
          /\ d.last = x /\ d.phase = k.phase /\ d.resend = k.resend /\ d.qforwd = TRUE
      BY <3>4 DEF ConnType, SameList, SameSock
    <3> HIDE DEF d
    <3>6. ~Probing(d)  BY <3>5 DEF Probing
    <3>7. l.sent \cap nips \subseteq {x}
      <4>1. UpTo(k.fwd_queue, k.last) \cap nips \subseteq {k.last} /\ l.sent \subseteq UpTo(k.fwd_queue, k.last)
        BY <2>2 DEF ConnInv, BaseInv, NipInv, ResendLoop
      <4>2. ASSUME k.last \in l.sent PROVE x = k.last
        <5>1. k.fwd_queue \in Seq(Reqs) /\ NoDup(k.fwd_queue)
          BY DEF ConnType, ConnInv, BaseInv, ListInv
        <5>2. l.k.fwd_queue \in Seq(Reqs) /\ NoDup(l.k.fwd_queue)
          BY <2>2, <2>3 DEF ResendLoop, ConnType, ListInv
        <5>3. x \in l.sent /\ UpTo(l.k.fwd_queue, x) = l.sent /\ Without(l.k.fwd_queue, k.fwd_queue, l.gone)
          BY <2>2, <2>3, <4>2 DEF ResendLoop
        <5>4. k.last = x \/ Before(k.fwd_queue, k.last, x)
          BY <5>3, <4>2 DEF UpTo, Without
        <5>5. x = k.last \/ Before(k.fwd_queue, x, k.last)  BY <5>3, <4>1 DEF UpTo
        <5> QED  BY <5>1, <5>4, <5>5, BeforeOrder
      <4> QED  BY <4>1, <4>2
    <3>8. SameList(d, l.k) /\ SameSock(d, l.k)  BY <3>4, <3>5 DEF SameList, SameSock
    <3>9. ConnInv(d, nips)
      BY <1>2, <2>1, <2>2, <3>5, <3>6, <3>7, <3>8, ResendConn
    <3>10. Good(k, u)
      <4>1. k.phase # "init" /\ (u.k.resend => k.resend)  BY <2>1, <3>4
      <4> QED  BY <2>2, <3>4, <4>1, ResentGood
    <3> QED  BY <2>2, <2>5, <3>4, <3>5, <3>6, <3>9, <3>10 DEF u, d, SameList
  <2> QED  BY <2>4, <2>5
<1> QED  BY <1>1, <1>2

-----------------------------------------------------------------------------
(* Requests leave the queue, and the pointers to them are moved. *)

\* The pointer y is moved to x when the requests of R leave the queue q.
Moved(x, y, q, R) ==
    /\ x \in (Elems(q) \ R) \cup {NoReq}
    /\ UpTo(q, x) \ R = UpTo(q, y) \ R
    /\ y \notin R => x = y

\* What is in flight over d of what was over k, without R.
Fewer(d, k, R) ==
    /\ Elems(Flight(d)) \subseteq Elems(Flight(k)) \ R
    /\ \A a, b \in Reqs : Before(Flight(d), a, b) => Before(Flight(k), a, b)
    /\ Elems(Front(d)) = Elems(Front(k)) \ R \/ Elems(Front(d)) = {}
    /\ d.phase \in {"finish", "up"} => Elems(Flight(k)) \ R \subseteq Elems(Flight(d))

\* The invariant of a connection survives requests leaving its queue at any
\* place, if the pointers to them are moved to the ones in front.
LEMMA ShrinkInv ==
    ASSUME NEW k \in ConnType, BaseInv(k, nips), NEW R \in SUBSET Elems(k.fwd_queue),
           NEW d \in ConnType, ListInv(d, nips), Without(d.fwd_queue, k.fwd_queue, R),
           d.resend = k.resend, d.qforwd = k.qforwd, d.unsched = k.unsched,
           \/ d.phase = k.phase
           \/ k.phase = "up" /\ d.phase = "stolen"
           \/ k.phase = "closed" /\ d.phase = "dropped",
           Moved(d.last, k.last, k.fwd_queue, R), Moved(d.curr, k.curr, k.fwd_queue, R),
           k.curr = k.last => d.curr = d.last,
           SockInv(d), Fewer(d, k, R)
    PROVE  /\ BaseInv(d, nips) /\ (RetryInv(k, nips) => RetryInv(d, nips))
           /\ UpTo(d.fwd_queue, d.last) = UpTo(k.fwd_queue, k.last) \ R
<1> DEFINE q == k.fwd_queue
           p == d.fwd_queue
<1>1. /\ q \in Seq(Reqs) /\ NoDup(q) /\ PtrInv(k) /\ FlightInv(k) /\ NipInv(k, nips)
      /\ p \in Seq(Reqs) /\ Elems(p) = Elems(q) \ R
  BY DEF ConnType, BaseInv, ListInv, Without
<1>2. Elems(q) \subseteq Reqs /\ NoReq \notin R  BY <1>1, BeforeElems, ReqsAssumption
<1>3. UpTo(p, d.last) = UpTo(q, k.last) \ R /\ UpTo(p, d.curr) = UpTo(q, k.curr) \ R
  <2>1. d.last \in (Reqs \ R) \cup {NoReq} /\ d.curr \in (Reqs \ R) \cup {NoReq}
    BY <1>2 DEF Moved
  <2> QED  BY <2>1 DEF Moved, Without
<1>4. PtrInv(d)
  <2>1. d.last # NoReq => d.last \in Elems(p)  BY <1>1 DEF Moved
  <2>2. d.curr # NoReq => d.curr \in UpTo(p, d.last)
    <3> SUFFICES ASSUME d.curr # NoReq PROVE d.curr \in UpTo(p, d.last)
      OBVIOUS
    <3>1. d.curr \in Elems(p)  BY <1>1 DEF Moved
    <3>2. d.curr \in UpTo(q, k.curr) /\ d.curr \notin R  BY <3>1, <1>3 DEF UpTo
    <3>3. k.curr # NoReq  BY <3>2, <1>1, UpToFacts
    <3>4. k.curr \in UpTo(q, k.last)  BY <3>3, <1>1 DEF PtrInv
    <3>5. d.curr = k.curr \/ Before(q, d.curr, k.curr)  BY <3>2 DEF UpTo
    <3>6. d.curr \in UpTo(q, k.last)  BY <3>4, <3>5, <1>1, UpToFacts
    <3> QED  BY <3>2, <3>6, <1>3
  <2>3. Probing(d) <=> Probing(k)  BY DEF Probing
  <2>4. d.phase # "dead" <=> k.phase # "dead"  OBVIOUS
  <2>5. k.phase # "dead" /\ Probing(k) => UpTo(p, d.curr) \subseteq {d.curr}
    <3>1. k.phase # "dead" /\ Probing(k) => UpTo(q, k.curr) \subseteq {k.curr}  BY <1>1 DEF PtrInv
    <3>2. k.curr \notin R => d.curr = k.curr  BY DEF Moved
    <3> QED  BY <3>1, <3>2, <1>3
  <2>6. d.phase = "init" => Probing(d) /\ d.curr = NoReq
    <3>1. d.phase = "init" => k.phase = "init"  OBVIOUS
    <3>2. d.phase = "init" => Probing(k) /\ k.curr = NoReq  BY <3>1, <1>1 DEF PtrInv
    <3> QED  BY <3>2, <2>3, <1>2 DEF Moved
  <2>7. d.phase = "dead" => ~d.resend /\ ~d.qforwd  BY <1>1 DEF PtrInv
  <2>8. d.phase \in Active \cup {"stolen"} /\ Probing(d) => ~d.unsched
    <3>1. d.phase \in Active \cup {"stolen"} => k.phase \in Active \cup {"stolen"}
      BY DEF Active
    <3> QED  BY <3>1, <2>3, <1>1 DEF PtrInv
  <2>9. d.phase # "dead" /\ ~Probing(d) => d.curr = d.last  BY <2>3, <2>4, <1>1 DEF PtrInv
  <2> QED  BY <2>1, <2>2, <2>3, <2>4, <2>5, <2>6, <2>7, <2>8, <2>9 DEF PtrInv
<1>5. FlightInv(d)
  <2>1. \A a, b \in Reqs : Before(Flight(d), a, b) => Before(p, a, b)
    <3> SUFFICES ASSUME NEW a \in Reqs, NEW b \in Reqs, Before(Flight(d), a, b)
                 PROVE  Before(p, a, b)
      OBVIOUS
    <3>1. Before(q, a, b)  BY <1>1 DEF Fewer, FlightInv
    <3>2. a \in Elems(Flight(d)) /\ b \in Elems(Flight(d))
      BY DEF Before, Elems
    <3>3. a \notin R /\ b \notin R  BY <3>2 DEF Fewer
    <3> QED  BY <3>1, <3>3 DEF Without
  <2>2. \A a, b \in Reqs : Before(p, a, b) /\ b \in Elems(Front(d)) => a \in Elems(Front(d))
    <3> SUFFICES ASSUME NEW a \in Reqs, NEW b \in Reqs, Before(p, a, b), b \in Elems(Front(d))
                 PROVE  a \in Elems(Front(d))
      OBVIOUS
    <3>1. Before(q, a, b) /\ a \notin R  BY DEF Without
    <3>2. Elems(Front(d)) = Elems(Front(k)) \ R  BY DEF Fewer
    <3> QED  BY <3>1, <3>2, <1>1 DEF FlightInv
  <2>3. Elems(Flight(d)) \subseteq UpTo(p, d.curr)  BY <1>1, <1>3 DEF Fewer, FlightInv
  <2>4. d.phase \in {"finish", "up"} => UpTo(p, d.curr) \subseteq Elems(Flight(d))
    <3>1. d.phase \in {"finish", "up"} => k.phase \in {"finish", "up"}  OBVIOUS
    <3> QED  BY <3>1, <1>1, <1>3 DEF Fewer, FlightInv
  <2> QED  BY <2>1, <2>2, <2>3, <2>4 DEF FlightInv
<1>6. NipInv(d, nips)
  <2>1. Elems(p) \cap Upgrade \subseteq nips  BY <1>1 DEF NipInv
  <2>2. UpTo(p, d.last) \cap nips \subseteq {d.last}  BY <1>1, <1>3 DEF NipInv, Moved
  <2> QED  BY <2>1, <2>2 DEF NipInv
<1>7. RetryInv(k, nips) => RetryInv(d, nips)
  <2>1. d.phase # "init" => k.phase # "init"  OBVIOUS
  <2> QED  BY <2>1, <1>3 DEF RetryInv, Probing
<1> QED  BY <1>3, <1>4, <1>5, <1>6, <1>7 DEF BaseInv

\* __tfw_http_conn_msg_sent_prev(): the pointer goes to the request in front.
LEMMA MovedPrev ==
    ASSUME NEW k, k.fwd_queue \in Seq(Reqs), NoDup(k.fwd_queue), NEW r \in Elems(k.fwd_queue),
           NEW y, y \in Elems(k.fwd_queue) \cup {NoReq}
    PROVE  Moved(IF y = r THEN MsgSentPrev(k, r) ELSE y, y, k.fwd_queue, {r})
<1> DEFINE x == MsgSentPrev(k, r)
<1> HIDE DEF x
<1>1. (x # NoReq => x \in Elems(k.fwd_queue) \ {r}) /\ UpTo(k.fwd_queue, x) = UpTo(k.fwd_queue, r) \ {r}
  BY PrevUpTo DEF x
<1> QED  BY <1>1 DEF Moved, x

\* The first request leaves the queue.
LEMMA MovedFirst ==
    ASSUME NEW q \in Seq(Reqs), NoDup(q), NEW r \in Elems(q), UpTo(q, r) = {r},
           NEW y, y \in Elems(q) \cup {NoReq}
    PROVE  Moved(IF y = r THEN NoReq ELSE y, y, q, {r})
<1>1. UpTo(q, NoReq) = {}  BY UpToFacts
<1> QED  BY <1>1 DEF Moved

\* The last of the sent requests that stays.
LEMMA MovedLast ==
    ASSUME NEW k, k.fwd_queue \in Seq(Reqs), NoDup(k.fwd_queue),
           k.last # NoReq => k.last \in Elems(k.fwd_queue), NEW R
    PROVE  Moved(LastOf(SentPart(k), Reqs \ R), k.last, k.fwd_queue, R)
<1> DEFINE q == k.fwd_queue
           s == SentPart(k)
           U == UpTo(q, k.last)
           x == LastOf(s, Reqs \ R)
<1> HIDE DEF s, x
<1>1. s \in Seq(Reqs) /\ Elems(s) = U /\ Segment(s, q, {})  BY Segments DEF s
<1>2. /\ Elems(s) \cap (Reqs \ R) = {} => x = NoReq
      /\ Elems(s) \cap (Reqs \ R) # {} =>
            /\ x \in Elems(s) \cap (Reqs \ R)
            /\ \A a \in Elems(s) \cap (Reqs \ R) : a = x \/ Before(s, a, x)
  BY <1>1, LastOfElems DEF x
<1>3. /\ U \subseteq Elems(q) /\ Elems(q) \subseteq Reqs /\ UpTo(q, NoReq) = {}
      /\ k.last \in Elems(q) => k.last \in U
      /\ \A a, b : b \in U /\ Before(q, a, b) => a \in U
  <2>1. Elems(q) \subseteq Reqs  BY BeforeElems
  <2> QED  BY <2>1, UpToFacts
<1>4. \A a, b : Before(s, a, b) => Before(q, a, b)  BY <1>1 DEF Segment, Part
<1>5. \A a, b : ~(Before(q, a, b) /\ Before(q, b, a)) /\ ~Before(q, a, a)  BY BeforeOrder
<1>6. CASE U \subseteq R
  <2>1. x = NoReq  BY <1>1, <1>2, <1>6
  <2>2. k.last \notin R => k.last = NoReq  BY <1>3, <1>6
  <2> QED  BY <2>1, <2>2, <1>3, <1>6 DEF Moved, x, s
<1>7. CASE ~(U \subseteq R)
  <2>1. x \in U /\ x \notin R /\ \A a \in U : a \notin R => a = x \/ Before(q, a, x)
    BY <1>1, <1>2, <1>3, <1>4, <1>7
  <2>2. UpTo(q, x) \ R = U \ R
    <3>1. ASSUME NEW a \in UpTo(q, x) PROVE a \in U
      <4>1. a = x \/ Before(q, a, x)  BY <3>1 DEF UpTo
      <4> QED  BY <4>1, <2>1, <1>3
    <3>2. ASSUME NEW a \in U, a \notin R PROVE a \in UpTo(q, x)
      <4>1. a = x \/ Before(q, a, x)  BY <3>2, <2>1
      <4> QED  BY <4>1, <1>3 DEF UpTo
    <3> QED  BY <3>1, <3>2
  <2>3. k.last \notin R => x = k.last
    <3> SUFFICES ASSUME k.last \notin R PROVE x = k.last
      OBVIOUS
    <3>1. k.last \in Elems(q)  BY <2>1, <1>3
    <3>2. k.last = x \/ Before(q, k.last, x)  BY <3>1, <2>1, <1>3
    <3>3. x = k.last \/ Before(q, x, k.last)  BY <2>1 DEF UpTo
    <3> QED  BY <3>2, <3>3, <1>5
  <2> QED  BY <2>1, <2>2, <2>3, <1>3 DEF Moved, x, s
<1> QED  BY <1>6, <1>7

\* tfw_srv_conn_clear_restricted()
LEMMA ClearInv ==
    ASSUME NEW k \in ConnType, ConnInv(k, nips), k.curr = k.last, k.phase # "init"
    PROVE  LET d == ClearRestricted(k)
           IN  /\ d \in ConnType /\ ConnInv(d, nips) /\ ~Probing(d)
               /\ d.resend = FALSE /\ d.qforwd = FALSE
               /\ SameList(d, k) /\ SamePtr(d, k) /\ SameSock(d, k)
               /\ d.phase = k.phase /\ d.unsched = k.unsched
<1> DEFINE d == ClearRestricted(k)
<1>1. d = [k EXCEPT !.qforwd = FALSE, !.resend = FALSE]  BY DEF ClearRestricted
<1> HIDE DEF d
<1>2. /\ d \in ConnType /\ SameList(d, k) /\ SamePtr(d, k) /\ SameSock(d, k)
      /\ d.phase = k.phase /\ d.unsched = k.unsched /\ d.resend = FALSE /\ d.qforwd = FALSE
  BY <1>1 DEF ConnType, SameList, SamePtr, SameSock
<1>3. ~Probing(d)  BY <1>2 DEF Probing
<1>4. PtrInv(d)  BY <1>2, <1>3 DEF ConnInv, BaseInv, PtrInv, SamePtr, SameList
<1>5. ConnInv(d, nips)
  BY <1>2, <1>3, <1>4 DEF ConnInv, BaseInv, ListInv, FlightInv, SockInv, NipInv, RetryInv,
     Flight, Front, SamePtr, SameList, SameSock
<1> QED  BY <1>2, <1>3, <1>5 DEF d

\* A connection with nothing queued and nothing in flight.
LEMMA EmptyInv ==
    ASSUME NEW d \in ConnType, d.fwd_queue = <<>>, d.qsize = 0, d.nip_queue = {}, d.hasnip = FALSE,
           d.last = NoReq, d.curr = NoReq, Flight(d) = <<>>, SockInv(d), d.phase # "init",
           d.phase = "dead" => ~d.resend /\ ~d.qforwd,
           d.phase \in Active \cup {"stolen"} => ~Probing(d)
    PROVE  ConnInv(d, nips)
<1>1. /\ Elems(d.fwd_queue) = {} /\ NoDup(d.fwd_queue) /\ Len(d.fwd_queue) = 0
      /\ \A r : UpTo(d.fwd_queue, r) = {}
  BY NoElem DEF UpTo
<1>2. ListInv(d, nips)  BY <1>1 DEF ListInv
<1>3. PtrInv(d)  BY <1>1 DEF PtrInv
<1>4. Elems(Front(d)) = {}
  <2>1. Front(d) \in Seq(Reqs) /\ d.tx \in Seq(Reqs)
    BY DEF Front, ConnType, Some, ReqOrNone
  <2>2. Elems(Flight(d)) = Elems(Front(d)) \cup Elems(d.tx)  BY <2>1, ConcatBefore DEF Flight
  <2> QED  BY <2>2, NoElem
<1>5. FlightInv(d)  BY <1>1, <1>4, NoElem DEF FlightInv
<1>6. NipInv(d, nips) /\ RetryInv(d, nips)  BY <1>1 DEF NipInv, RetryInv
<1> QED  BY <1>2, <1>3, <1>5, <1>6 DEF ConnInv, BaseInv

\* tfw_http_fwdq_reset() of a connection with nothing in flight.
LEMMA ResetInv ==
    ASSUME NEW k \in ConnType, Flight(k) = <<>>, SockInv(k), ~Probing(k), k.phase # "init",
           k.phase = "dead" => ~k.resend /\ ~k.qforwd
    PROVE  LET d == FwdqReset(k)
           IN  /\ d \in ConnType /\ ConnInv(d, nips) /\ ~Probing(d)
               /\ d.fwd_queue = <<>> /\ d.last = NoReq /\ d.curr = NoReq
               /\ SameFlags(d, k) /\ SameSock(d, k) /\ d.recns = k.recns
<1> DEFINE d == FwdqReset(k)
<1>1. d = [k EXCEPT !.fwd_queue = <<>>, !.qsize = 0, !.curr = NoReq,
                    !.last = NoReq, !.nip_queue = {}, !.hasnip = FALSE]
  BY DEF FwdqReset
<1> HIDE DEF d
<1>2. /\ d \in ConnType /\ d.fwd_queue = <<>> /\ d.last = NoReq /\ d.curr = NoReq
      /\ d.qsize = 0 /\ d.nip_queue = {} /\ d.hasnip = FALSE
      /\ SameFlags(d, k) /\ SameSock(d, k) /\ d.recns = k.recns
  <2>0. <<>> \in Seq(Reqs) /\ 0 \in Int /\ {} \in SUBSET Reqs /\ NoReq \in ReqOrNone
    BY NoElem DEF ReqOrNone
  <2>1. d \in ConnType  BY <1>1, <2>0 DEF ConnType
  <2>2. /\ d.fwd_queue = <<>> /\ d.last = NoReq /\ d.curr = NoReq
        /\ d.qsize = 0 /\ d.nip_queue = {} /\ d.hasnip = FALSE
    BY <1>1 DEF ConnType
  <2>3. SameFlags(d, k) /\ SameSock(d, k) /\ d.recns = k.recns
    BY <1>1 DEF ConnType, SameFlags, SameSock
  <2> QED  BY <2>1, <2>2, <2>3
<1>3. ~Probing(d)  BY <1>2 DEF Probing, SameFlags
<1>4. Flight(d) = <<>> /\ SockInv(d)
  <2>1. Flight(d) = <<>> /\ Front(d) = Front(k)  BY <1>2 DEF Flight, Front, SameSock
  <2> QED  BY <1>2, <2>1 DEF SockInv, SameFlags, SameSock
<1>5. d.phase # "init" /\ (d.phase = "dead" => ~d.resend /\ ~d.qforwd)  BY <1>2 DEF SameFlags
<1>6. ConnInv(d, nips)  BY <1>2, <1>3, <1>4, <1>5, EmptyInv
<1> QED  BY <1>2, <1>3, <1>6 DEF d

\* The whole queue is cut off after section s.
LEMMA CutOffGood ==
    ASSUME NEW k, NEW s, Good(k, s), s.cut = {}, Flight(s.k) = <<>>, SockInv(s.k),
           ~Probing(s.k), s.k.phase # "init",
           s.k.phase = "dead" => ~s.k.resend /\ ~s.k.qforwd,
           s.k.fwd_queue \in Seq(Reqs), NoDup(s.k.fwd_queue)
    PROVE  LET t == CutOff(s)
           IN  /\ Good(k, t) /\ ConnInv(t.k, nips) /\ t.bug = s.bug /\ t.gone = s.gone
               /\ t.cut = Elems(s.k.fwd_queue) /\ t.sent = s.sent /\ t.tried = s.tried
               /\ t.k.fwd_queue = <<>> /\ t.k.recns = s.k.recns /\ SameFlags(t.k, s.k)
               /\ ~Probing(t.k) /\ t.k = FwdqReset(s.k)
<1> DEFINE t == CutOff(s)
           C == Elems(s.k.fwd_queue)
           d == FwdqReset(s.k)
<1>1. /\ t.k = d /\ t.gone = s.gone /\ t.cut = C /\ t.tried = s.tried /\ t.sent = s.sent
      /\ t.bug = s.bug /\ IsSection(t)
  <2> HIDE DEF C, d
  <2>1. t = [s EXCEPT !.cut = C, !.k = d]  BY DEF CutOff, C, d
  <2>2. IsSection(s)  BY DEF Good
  <2>3. t = [k |-> d, gone |-> s.gone, cut |-> C, tried |-> s.tried, sent |-> s.sent,
             ret |-> s.ret, bug |-> s.bug]
    BY <2>1, <2>2 DEF IsSection
  <2> HIDE DEF t
  <2> QED  BY <2>3 DEF IsSection
<1> HIDE DEF t
<1>2. s.k \in ConnType  BY DEF Good
<1>3. /\ d \in ConnType /\ ConnInv(d, nips) /\ ~Probing(d) /\ d.fwd_queue = <<>> /\ d.last = NoReq
      /\ SameFlags(d, s.k) /\ d.recns = s.k.recns
  BY <1>2, ResetInv
<1> HIDE DEF d
<1>4. Elems(d.fwd_queue) = {}  BY <1>3, NoElem
<1>5. UpTo(s.k.fwd_queue, s.k.last) \subseteq C  BY DEF UpTo
<1>6. Once(k, t)
  <2>1. Once(k, s)  BY DEF Good
  <2> QED  BY <2>1, <1>1, <1>5 DEF Once
<1>7. /\ s.gone \subseteq Elems(k.fwd_queue) /\ C = Elems(k.fwd_queue) \ s.gone
      /\ s.sent \cup s.tried \subseteq Elems(k.fwd_queue)
      /\ \A r \in s.tried : r \in s.gone \/ retries[r] < MaxRefwd
      /\ s.k.phase = k.phase /\ (s.k.resend => k.resend)
  BY DEF Good
<1> HIDE DEF C
<1>8. Good(k, t)  BY <1>1, <1>3, <1>4, <1>6, <1>7 DEF Good, SameFlags
<1> QED  BY <1>1, <1>3, <1>8 DEF t, d, C

\* tfw_srv_conn_reenable_if_done() after section u.
LEMMA ThenReenableGood ==
    ASSUME NEW k, NEW u, Good(k, u), Quiet(k, u), u.cut = {}, ConnInv(u.k, nips),
           u.k.phase # "init"
    PROVE  LET t == ThenReenable(u)
           IN  /\ Good(k, t) /\ Quiet(k, t) /\ t.cut = {} /\ ConnInv(t.k, nips)
               /\ t.k.fwd_queue = u.k.fwd_queue /\ SamePtr(t.k, u.k) /\ t.ret = u.ret
<1> DEFINE e == u.k
           v == ReenableIfDone(e)
           w == Then(u, v)
           t == ThenReenable(u)
<1>1. e \in ConnType /\ IsSection(u)  BY DEF Good
<1> HIDE DEF e
<1>2. /\ Good(e, v) /\ Quiet(e, v) /\ v.cut = {} /\ ConnInv(v.k, nips)
      /\ v.k.fwd_queue = e.fwd_queue /\ SamePtr(v.k, e)
  <2>1. CASE e.fwd_queue # <<>>
    <3>1. v = Nothing(e)  BY <2>1 DEF ReenableIfDone
    <3>2. Nothing(e).k = e  BY DEF Nothing, Section
    <3>3. Good(e, Nothing(e)) /\ Quiet(e, Nothing(e)) /\ Nothing(e).cut = {}  BY <1>1, NothingGood
    <3> QED  BY <3>1, <3>2, <3>3 DEF SamePtr, e
  <2>2. CASE e.fwd_queue = <<>>
    <3>1. e.qsize = 0 /\ e.last = NoReq /\ e.curr = NoReq
      <4>1. Elems(e.fwd_queue) = {} /\ Len(e.fwd_queue) = 0  BY <2>2, NoElem
      <4>2. e.qsize = 0  BY <4>1 DEF ConnInv, BaseInv, ListInv, e
      <4>3. e.last = NoReq /\ e.curr = NoReq  BY <4>1 DEF ConnInv, BaseInv, PtrInv, UpTo, e
      <4> QED  BY <4>2, <4>3
    <3> DEFINE d == ClearRestricted(e)
    <3>2. v = Nothing(d)  BY <2>2, <3>1 DEF ReenableIfDone, Nothing
    <3>3. /\ d \in ConnType /\ ConnInv(d, nips) /\ d.resend = FALSE
          /\ SameList(d, e) /\ SamePtr(d, e) /\ d.phase = e.phase
      BY <1>1, <3>1, ClearInv DEF e
    <3> HIDE DEF d, v
    <3>4. Nothing(d).k = d  BY DEF Nothing, Section
    <3>5. Good(e, Nothing(d)) /\ Quiet(e, Nothing(d)) /\ Nothing(d).cut = {}
      BY <3>3, NothingGood DEF SameList, SamePtr
    <3> QED  BY <3>2, <3>3, <3>4, <3>5 DEF SameList
  <2> QED  BY <2>1, <2>2
<1> HIDE DEF v
<1>3. Good(k, w) /\ Quiet(k, w) /\ w.k = v.k /\ w.cut = {}
  <2>1. Good(u.k, v) /\ Quiet(u.k, v) /\ v.cut = {}  BY <1>2 DEF e
  <2> QED  BY <2>1, ThenGood
<1>4. t = [w EXCEPT !.ret = u.ret]  BY DEF ThenReenable, v, e
<1> HIDE DEF w, t
<1>5. /\ t.k = w.k /\ t.gone = w.gone /\ t.cut = w.cut /\ t.tried = w.tried /\ t.sent = w.sent
      /\ t.bug = w.bug /\ t.ret = u.ret /\ IsSection(t)
  <2>1. IsSection(w)  BY <1>3 DEF Good
  <2>2. t = [k |-> w.k, gone |-> w.gone, cut |-> w.cut, tried |-> w.tried, sent |-> w.sent,
             ret |-> u.ret, bug |-> w.bug]
    BY <2>1, <1>4 DEF IsSection
  <2> QED  BY <2>2 DEF IsSection
<1>6. Good(k, t) /\ Quiet(k, t)  BY <1>3, <1>5 DEF Good, Quiet, Once
<1> QED  BY <1>2, <1>3, <1>5, <1>6 DEF t, e

\* The last steps of tfw_http_conn_fwd_repair().
LEMMA FwdRepairUnsentGood ==
    ASSUME NEW k \in ConnType, ConnInv(k, nips), k.curr = k.last, ~Probing(k),
           k.phase \notin {"dead", "init", "gone"}, NEW res, Answers(k, res)
    PROVE  LET u == FwdRepairUnsent(k, res)
           IN  /\ Good(k, u) /\ Quiet(k, u) /\ u.cut = {} /\ ConnInv(u.k, nips)
               /\ u.ret = "ebusy" => u.k.curr = NoReq /\ u.k.last = NoReq
<1> DEFINE v == IF NeedFwd(k) THEN FwdUnsent(k, res) ELSE Nothing(k)
<1>1. /\ Good(k, v) /\ Quiet(k, v) /\ v.cut = {} /\ ConnInv(v.k, nips)
      /\ v.ret = "ebusy" => v.k.curr = NoReq /\ v.k.last = NoReq
  <2>1. CASE NeedFwd(k)
    <3>1. k.last \notin nips /\ ~Drained(k)  BY <2>1 DEF NeedFwd, OnHold
    <3>2. v = FwdUnsent(k, res)  BY <2>1
    <3> HIDE DEF v
    <3> QED  BY <3>1, <3>2, FwdUnsentInv
  <2>2. CASE ~NeedFwd(k)
    <3>1. v = Nothing(k)  BY <2>2
    <3>2. Nothing(k).k = k /\ Nothing(k).ret = "ok"  BY DEF Nothing, Section
    <3>3. Good(k, Nothing(k)) /\ Quiet(k, Nothing(k)) /\ Nothing(k).cut = {}  BY NothingGood
    <3> QED  BY <3>1, <3>2, <3>3
  <2> QED  BY <2>1, <2>2
<1>2. FwdRepairUnsent(k, res) = ThenReenable(v)  BY DEF FwdRepairUnsent
<1> HIDE DEF v
<1>3. v.k.phase # "init"  BY <1>1 DEF Good
<1> DEFINE t == ThenReenable(v)
<1>4. /\ Good(k, t) /\ Quiet(k, t) /\ t.cut = {} /\ ConnInv(t.k, nips)
      /\ SamePtr(t.k, v.k) /\ t.ret = v.ret
  BY <1>1, <1>3, ThenReenableGood
<1> HIDE DEF t
<1> QED  BY <1>1, <1>2, <1>4 DEF t, SamePtr

\* The queue is cut off if nothing could be sent.
LEMMA ReschedIfBusyGood ==
    ASSUME NEW k, NEW s, Good(k, s), Quiet(k, s), s.cut = {}, ConnInv(s.k, nips),
           s.k.phase # "init", s.ret = "ebusy" => s.k.curr = NoReq /\ s.k.last = NoReq
    PROVE  LET t == ReschedIfBusy(s)
           IN  Good(k, t) /\ Quiet(k, t) /\ ConnInv(t.k, nips)
<1>1. CASE s.ret # "ebusy"
  <2>1. ReschedIfBusy(s) = s  BY <1>1 DEF ReschedIfBusy
  <2> QED  BY <2>1
<1>2. CASE s.ret = "ebusy"
  <2> DEFINE e == s.k
             d == ClearRestricted(e)
             v == [s EXCEPT !.k = d]
  <2>1. s.k.curr = NoReq /\ s.k.last = NoReq /\ IsSection(s) /\ e \in ConnType  BY <1>2 DEF Good
  <2>2. ReschedIfBusy(s) = CutOff(v)
    <3>1. ReschedIfBusy(s) = CutOff([s EXCEPT !.k = ClearRestricted(s.k),
                          !.bug = IF s.bug # "none" THEN s.bug
                                  ELSE IF s.k.curr # NoReq \/ s.k.last # NoReq
                                  THEN "reset_sent" ELSE "none"])
      BY <1>2 DEF ReschedIfBusy
    <3>2. (IF s.bug # "none" THEN s.bug
           ELSE IF s.k.curr # NoReq \/ s.k.last # NoReq THEN "reset_sent" ELSE "none") = s.bug
      BY <2>1
    <3>3. [s EXCEPT !.k = d, !.bug = s.bug] = v
      <4> HIDE DEF d
      <4> QED  BY <2>1 DEF IsSection
    <3> QED  BY <3>1, <3>2, <3>3
  <2>3. /\ d \in ConnType /\ ConnInv(d, nips) /\ ~Probing(d) /\ d.resend = FALSE /\ d.qforwd = FALSE
        /\ SameList(d, e) /\ SamePtr(d, e) /\ d.phase = e.phase
    BY <2>1, ClearInv
  <2> HIDE DEF d
  <2>4. v = [k |-> d, gone |-> s.gone, cut |-> s.cut, tried |-> s.tried, sent |-> s.sent,
             ret |-> s.ret, bug |-> s.bug]
    BY <2>1 DEF IsSection
  <2> HIDE DEF v
  <2>5. /\ v.k = d /\ v.gone = s.gone /\ v.cut = {} /\ v.tried = s.tried /\ v.sent = s.sent
        /\ v.bug = s.bug /\ IsSection(v)
    BY <2>4 DEF IsSection
  <2>6. Good(k, v)  BY <2>3, <2>5 DEF Good, Once, SameList, SamePtr
  <2>7. d.fwd_queue \in Seq(Reqs) /\ NoDup(d.fwd_queue) /\ FlightInv(d) /\ SockInv(d) /\ d.curr = NoReq
    BY <2>1, <2>3 DEF ConnType, ConnInv, BaseInv, ListInv, SamePtr
  <2>8. Flight(d) = <<>>  BY <2>3, <2>7, NoFlight
  <2>9. Good(k, CutOff(v)) /\ ConnInv(CutOff(v).k, nips) /\ CutOff(v).bug = v.bug
    BY <2>3, <2>5, <2>6, <2>7, <2>8, CutOffGood
  <2>10. Quiet(k, CutOff(v))  BY <2>5, <2>9 DEF Quiet
  <2> QED  BY <2>2, <2>9, <2>10
<1> QED  BY <1>1, <1>2

\* tfw_http_conn_fwd_repair()
LEMMA FwdRepairGood ==
    ASSUME NEW k \in ConnType, ConnInv(k, nips), k.resend, Probing(k) => k.curr = NoReq,
           k.phase \in Active \cup {"stolen", "closed", "dropped"},
           retries \in [Reqs -> 0..MaxRefwd],
           NEW res, NEW res2, Answers(k, res), Probing(k) => Answers(k, res2)
    PROVE  LET u == FwdRepair(k, res, res2)
           IN  /\ Good(k, u) /\ Quiet(k, u) /\ u.cut = {} /\ ConnInv(u.k, nips)
               /\ u.ret = "ebusy" => u.k.curr = NoReq /\ u.k.last = NoReq
<1>0. k.phase \notin {"dead", "init", "gone"}  BY DEF Active
<1>1. CASE k.fwd_queue = <<>>
  <2>1. FwdRepair(k, res, res2) = ReenableIfDone(k)  BY <1>1 DEF FwdRepair
  <2>2. k.qsize = 0 /\ k.last = NoReq /\ k.curr = NoReq
    <3>1. Elems(k.fwd_queue) = {} /\ Len(k.fwd_queue) = 0  BY <1>1, NoElem
    <3>2. k.qsize = 0  BY <3>1 DEF ConnInv, BaseInv, ListInv
    <3>3. k.last = NoReq /\ k.curr = NoReq  BY <3>1 DEF ConnInv, BaseInv, PtrInv, UpTo
    <3> QED  BY <3>2, <3>3
  <2> DEFINE d == ClearRestricted(k)
  <2>3. ReenableIfDone(k) = Nothing(d)  BY <1>1, <2>2 DEF ReenableIfDone, Nothing
  <2>4. /\ d \in ConnType /\ ConnInv(d, nips) /\ d.resend = FALSE
        /\ SameList(d, k) /\ SamePtr(d, k) /\ d.phase = k.phase
    BY <1>0, <2>2, ClearInv
  <2> HIDE DEF d
  <2>5. Nothing(d).k = d /\ Nothing(d).ret = "ok"  BY DEF Nothing, Section
  <2>6. Good(k, Nothing(d)) /\ Quiet(k, Nothing(d)) /\ Nothing(d).cut = {}
    BY <2>4, NothingGood DEF SameList, SamePtr
  <2> QED  BY <2>1, <2>3, <2>4, <2>5, <2>6
<1>2. CASE k.fwd_queue # <<>> /\ k.qforwd
  <2>1. FwdRepair(k, res, res2) = FwdRepairUnsent(k, res)  BY <1>2 DEF FwdRepair
  <2>2. ~Probing(k)  BY <1>2 DEF Probing
  <2>3. k.curr = k.last  BY <2>2, <1>0 DEF ConnInv, BaseInv, PtrInv
  <2> QED  BY <2>1, <2>2, <2>3, <1>0, FwdRepairUnsentGood
<1>3. CASE k.fwd_queue # <<>> /\ ~k.qforwd
  <2> DEFINE s == Resend(k, FALSE, res)
             d == [s.k EXCEPT !.qforwd = TRUE]
  <2>1. FwdRepair(k, res, res2) = FwdRepairResent(s, res2)  BY <1>3 DEF FwdRepair
  <2>2. Probing(k)  BY <1>3 DEF Probing
  <2>3. /\ Good(k, s) /\ Quiet(k, s) /\ s.cut = {}
        /\ s.ret = "ebadf" => ConnInv(s.k, nips)
        /\ s.ret # "ebadf" =>
             /\ d \in ConnType /\ ConnInv(d, nips) /\ d.curr = d.last /\ ~Probing(d)
             /\ d.fwd_queue = s.k.fwd_queue /\ d.last = s.k.last /\ d.phase = s.k.phase
             /\ d.resend = s.k.resend
    BY <2>2, ResendRest
  <2> HIDE DEF s, d
  <2>4. IsSection(s) /\ s.k.phase = k.phase  BY <2>3 DEF Good
  <2>5. CASE s.ret = "ebadf"
    <3> DEFINE t == [s EXCEPT !.ret = "ok"]
    <3>1. FwdRepairResent(s, res2) = t  BY <2>5 DEF FwdRepairResent
    <3>2. t = [k |-> s.k, gone |-> s.gone, cut |-> s.cut, tried |-> s.tried, sent |-> s.sent,
               ret |-> "ok", bug |-> s.bug]
      BY <2>4 DEF IsSection
    <3> HIDE DEF t
    <3>3. /\ t.k = s.k /\ t.gone = s.gone /\ t.cut = {} /\ t.tried = s.tried /\ t.sent = s.sent
          /\ t.bug = s.bug /\ IsSection(t) /\ t.ret = "ok"
      BY <3>2, <2>3 DEF IsSection
    <3>4. Good(k, t) /\ Quiet(k, t)  BY <3>3, <2>3 DEF Good, Quiet, Once
    <3> QED  BY <2>1, <2>3, <2>5, <3>1, <3>3, <3>4
  <2>6. CASE s.ret # "ebadf"
    <3> DEFINE v == FwdRepairUnsent(d, res2)
    <3>1. FwdRepairResent(s, res2) = Then(s, v)  BY <2>6 DEF FwdRepairResent, d
    <3>2. Answers(d, res2) /\ d.phase \notin {"dead", "init", "gone"}
      BY <2>2, <2>3, <2>4, <2>6, <1>0 DEF Answers
    <3>3. /\ Good(d, v) /\ Quiet(d, v) /\ v.cut = {} /\ ConnInv(v.k, nips)
          /\ v.ret = "ebusy" => v.k.curr = NoReq /\ v.k.last = NoReq
      BY <2>3, <2>6, <3>2, FwdRepairUnsentGood
    <3> HIDE DEF v
    <3>4. Good(s.k, v) /\ Quiet(s.k, v)
      BY <2>3, <2>6, <3>3 DEF Good, Quiet, Once
    <3>5. /\ Good(k, Then(s, v)) /\ Quiet(k, Then(s, v)) /\ Then(s, v).k = v.k
          /\ Then(s, v).ret = v.ret /\ Then(s, v).cut = v.cut
      BY <2>3, <3>4, ThenGood
    <3> QED  BY <2>1, <3>1, <3>3, <3>5
  <2> QED  BY <2>5, <2>6
<1> QED  BY <1>1, <1>2, <1>3

\* tfw_http_conn_treatnip(): after it no request that was sent is non-idempotent,
\* unless such requests may be sent again.
LEMMA TreatNipGood ==
    ASSUME NEW k \in ConnType, BaseInv(k, nips), Probing(k), k.curr = NoReq, k.phase = "finish"
    PROVE  LET t == TreatNip(k)
           IN  /\ Good(k, t) /\ t.cut = {} /\ ConnInv(t.k, nips) /\ Probing(t.k)
               /\ t.k.curr = NoReq /\ t.k.phase = "finish"
               /\ t.bug = "none" \/ (t.bug = "treatnip_nip" /\ t.k.unsched)
<1> DEFINE q == k.fwd_queue
           r == k.last
<1>1. /\ q \in Seq(Reqs) /\ NoDup(q) /\ (r # NoReq => r \in Elems(q)) /\ ListInv(k, nips)
      /\ FlightInv(k) /\ SockInv(k) /\ NipInv(k, nips)
  BY DEF ConnType, BaseInv, ListInv, PtrInv
<1>2. UpTo(q, NoReq) = {}  BY <1>1, UpToFacts
<1>3. CASE ~(r # NoReq /\ OnHold(k) /\ ~RetryNip)
  <2>1. TreatNip(k) = Nothing(k)  BY <1>3 DEF TreatNip
  <2>2. Nothing(k).k = k /\ Nothing(k).bug = "none"  BY DEF Nothing, Section
  <2>3. Good(k, Nothing(k)) /\ Nothing(k).cut = {}  BY NothingGood
  <2>4. RetryInv(k, nips)  BY <1>1, <1>2, <1>3 DEF RetryInv, NipInv, OnHold
  <2> QED  BY <2>1, <2>2, <2>3, <2>4 DEF ConnInv
<1>4. CASE r # NoReq /\ OnHold(k) /\ ~RetryNip
  <2> DEFINE R == {r}
             d == Delist(k, R, {})
             x == MsgSentPrev(k, r)
             e == [d EXCEPT !.last = x]
             b == CASE r \notin k.nip_queue -> "treatnip_nip"
                    [] k.curr # NoReq -> "treatnip_curr"
                    [] OTHER -> "none"
             t == Section(e, R, {}, {}, "ok", b)
  <2>1. TreatNip(k) = t  BY <1>4 DEF TreatNip
  <2>2. R \in SUBSET Elems(q) /\ {} \in SUBSET Reqs /\ {} \cap nips = {}  BY <1>1, <1>4
  <2>3. d \in ConnType /\ SamePtr(d, k) /\ SameFlags(d, k) /\ SameSock(d, k)  BY <2>2, DelistFields
  <2>4. ListInv(d, nips) /\ Without(d.fwd_queue, q, R)  BY <1>1, <2>2, DelistList
  <2>5. Moved(x, r, q, R)  BY <1>1, <1>4, MovedPrev
  <2>6. Moved(NoReq, NoReq, q, R)  BY <1>1, <1>4 DEF Moved
  <2> HIDE DEF d, x
  <2>7. /\ e \in ConnType /\ e.last = x /\ e.curr = NoReq /\ SameList(e, d)
        /\ SameFlags(e, k) /\ SameSock(e, k)
    <3>1. x \in ReqOrNone  BY <2>5, <1>1, BeforeElems DEF Moved, ReqOrNone
    <3>2. e \in ConnType /\ e.last = x /\ e.curr = d.curr /\ SameList(e, d)
          /\ SameFlags(e, d) /\ SameSock(e, d)
      BY <2>3, <3>1 DEF ConnType, SameList, SameFlags, SameSock
    <3> QED  BY <3>2, <2>3 DEF SamePtr, SameFlags, SameSock
  <2> HIDE DEF e
  <2>8. Flight(k) = <<>>  BY <1>1, NoFlight
  <2>9. Front(e) = Front(k) /\ Flight(e) = <<>>  BY <2>7, <2>8 DEF Front, Flight, SameSock
  <2>10. Fewer(e, k, R)
    <3>1. Front(k) = <<>>  BY <1>1, NoFlight
    <3> QED  BY <2>8, <2>9, <3>1, NoElem DEF Fewer
  <2>11. SockInv(e)  BY <1>1, <2>7, <2>8, <2>9 DEF SockInv, SameFlags, SameSock
  <2>12. ListInv(e, nips) /\ Without(e.fwd_queue, q, R)
    BY <2>4, <2>7 DEF SameList, ListInv
  <2>13. /\ e.resend = k.resend /\ e.qforwd = k.qforwd /\ e.unsched = k.unsched /\ e.phase = k.phase
    BY <2>7 DEF SameFlags
  <2>14. BaseInv(e, nips) /\ UpTo(e.fwd_queue, e.last) = UpTo(q, r) \ R
    BY <1>4, <2>2, <2>5, <2>6, <2>7, <2>10, <2>11, <2>12, <2>13, ShrinkInv
  <2>15. RetryInv(e, nips)  BY <2>14, <1>1 DEF RetryInv, NipInv
  <2>16. Probing(e)  BY <2>13 DEF Probing
  <2>17. b = "none" \/ (b = "treatnip_nip" /\ e.unsched)
    <3>1. r \notin nips => k.unsched  BY <1>4 DEF OnHold
    <3>2. r \in nips => r \in k.nip_queue  BY <1>1, <1>4 DEF ListInv
    <3> QED  BY <3>1, <3>2, <2>13
  <2> HIDE DEF b
  <2>18. /\ t.k = e /\ t.gone = R /\ t.cut = {} /\ t.tried = {} /\ t.sent = {} /\ t.bug = b
         /\ IsSection(t)
    BY DEF Section, IsSection
  <2> HIDE DEF t
  <2>19. Elems(e.fwd_queue) = Elems(q) \ R  BY <2>12 DEF Without
  <2>20. Good(k, t)
    <3>1. Once(k, t)  BY <2>14, <2>18 DEF Once
    <3> QED  BY <2>2, <2>7, <2>13, <2>18, <2>19, <3>1 DEF Good
  <2> QED  BY <2>1, <2>7, <2>13, <2>14, <2>15, <2>16, <2>17, <2>18, <2>20 DEF ConnInv
<1> QED  BY <1>3, <1>4

\* TFW_CONN_B_QFORWD is set when nothing is left to be sent again.
LEMMA QforwdInv ==
    ASSUME NEW k \in ConnType, ConnInv(k, nips), k.curr = NoReq, k.last = NoReq,
           k.phase \notin {"dead", "init"}
    PROVE  LET d == [k EXCEPT !.qforwd = TRUE]
           IN  /\ d \in ConnType /\ ConnInv(d, nips) /\ ~Probing(d)
               /\ SameList(d, k) /\ SamePtr(d, k) /\ d.phase = k.phase /\ d.resend = k.resend
<1> DEFINE d == [k EXCEPT !.qforwd = TRUE]
<1>1. /\ d \in ConnType /\ SameList(d, k) /\ SamePtr(d, k) /\ SameSock(d, k)
      /\ d.phase = k.phase /\ d.unsched = k.unsched /\ d.resend = k.resend /\ d.qforwd = TRUE
  BY DEF ConnType, SameList, SamePtr, SameSock
<1> HIDE DEF d
<1>2. ~Probing(d)  BY <1>1 DEF Probing
<1>3. PtrInv(d)  BY <1>1, <1>2 DEF ConnInv, BaseInv, PtrInv, SamePtr, SameList
<1>4. ConnInv(d, nips)
  BY <1>1, <1>2, <1>3 DEF ConnInv, BaseInv, ListInv, FlightInv, SockInv, NipInv, RetryInv,
     Flight, Front, SamePtr, SameList, SameSock
<1> QED  BY <1>1, <1>2, <1>4 DEF d

\* The live case of tfw_http_conn_repair() after the first request was sent again.
LEMMA RepairResentGood ==
    ASSUME nips \subseteq Reqs, NEW k, k.phase = "finish", NEW s, Good(k, s), Quiet(k, s), s.cut = {},
           ConnInv(s.k, nips), s.ret \in {"ok", "ebusy", "ebadf"},
           s.ret # "ebadf" /\ s.k.last = NoReq => s.k.curr = NoReq,
           s.ret = "ebusy" => s.k.last = NoReq,
           NEW res, Answers(k, res)
    PROVE  LET u == RepairResent(s, res)
           IN  Good(k, u) /\ Quiet(k, u) /\ ConnInv(u.k, nips)
<1>0. s.k.phase = "finish" /\ s.k \in ConnType  BY DEF Good
<1>1. CASE s.ret = "ebadf"
  <2>1. RepairResent(s, res) = s  BY <1>1 DEF RepairResent
  <2> QED  BY <2>1
<1>2. CASE s.ret # "ebadf" /\ ~(s.ret = "ok" /\ s.k.last = NoReq)
  <2>1. RepairResent(s, res) = ReschedIfBusy(s)  BY <1>2 DEF RepairResent
  <2>2. s.ret = "ebusy" => s.k.curr = NoReq /\ s.k.last = NoReq  BY <1>2
  <2> QED  BY <1>0, <2>1, <2>2, ReschedIfBusyGood
<1>3. CASE s.ret = "ok" /\ s.k.last = NoReq
  <2> DEFINE d == [s.k EXCEPT !.qforwd = TRUE]
             v == FwdUnsent(d, res)
             w == IF s.k.fwd_queue = <<>> THEN s ELSE Then(s, v)
             t == ThenReenable(w)
  <2>1. RepairResent(s, res) = ReschedIfBusy(t)  BY <1>3 DEF RepairResent
  <2>2. s.k.curr = NoReq  BY <1>3
  <2>3. /\ Good(k, w) /\ Quiet(k, w) /\ w.cut = {} /\ ConnInv(w.k, nips)
        /\ w.ret = "ebusy" => w.k.curr = NoReq /\ w.k.last = NoReq
    <3>1. CASE s.k.fwd_queue = <<>>
      <4>1. w = s  BY <3>1
      <4> HIDE DEF w
      <4> QED  BY <4>1, <1>3
    <3>2. CASE s.k.fwd_queue # <<>>
      <4>1. w = Then(s, v)  BY <3>2
      <4>2. /\ d \in ConnType /\ ConnInv(d, nips) /\ ~Probing(d)
            /\ SameList(d, s.k) /\ SamePtr(d, s.k) /\ d.phase = s.k.phase /\ d.resend = s.k.resend
        BY <1>0, <1>3, <2>2, QforwdInv
      <4> HIDE DEF d, w
      <4>3. d.last = NoReq /\ d.curr = NoReq /\ d.fwd_queue # <<>> /\ d.phase = "finish"
        BY <4>2, <3>2, <1>0, <1>3, <2>2 DEF SameList, SamePtr
      <4>4. ~Drained(d)  BY <4>3 DEF Drained
      <4>6. Answers(d, res)  BY <4>3 DEF Answers
      <4>7. d.last \notin nips  BY <4>3, ReqsAssumption
      <4>8. /\ Good(d, v) /\ Quiet(d, v) /\ v.cut = {} /\ ConnInv(v.k, nips) /\ v.k.curr = v.k.last
            /\ v.ret = "ebusy" => v.k.last = NoReq
        BY <4>2, <4>3, <4>4, <4>6, <4>7, FwdUnsentInv
      <4> HIDE DEF v
      <4>9. Good(s.k, v) /\ Quiet(s.k, v)
        BY <4>2, <4>8 DEF Good, Quiet, Once, SameList, SamePtr
      <4>10. /\ Good(k, Then(s, v)) /\ Quiet(k, Then(s, v)) /\ Then(s, v).k = v.k
             /\ Then(s, v).ret = v.ret /\ Then(s, v).cut = v.cut
        BY <4>9, ThenGood
      <4> QED  BY <4>1, <4>8, <4>10
    <3> QED  BY <3>1, <3>2
  <2> HIDE DEF w
  <2>4. w.k.phase # "init"  BY <2>3 DEF Good
  <2>5. /\ Good(k, t) /\ Quiet(k, t) /\ t.cut = {} /\ ConnInv(t.k, nips)
        /\ SamePtr(t.k, w.k) /\ t.ret = w.ret
    BY <2>3, <2>4, ThenReenableGood
  <2> HIDE DEF t
  <2>6. t.k.phase # "init" /\ (t.ret = "ebusy" => t.k.curr = NoReq /\ t.k.last = NoReq)
    BY <2>3, <2>5 DEF Good, SamePtr
  <2> QED  BY <2>1, <2>5, <2>6, ReschedIfBusyGood
<1> QED  BY <1>1, <1>2, <1>3

\* The live case of tfw_http_conn_repair().
LEMMA RepairLiveGood ==
    ASSUME nips \subseteq Reqs, retries \in [Reqs -> 0..MaxRefwd],
           NEW k \in ConnType, BaseInv(k, nips), Probing(k), k.curr = NoReq, k.phase = "finish",
           NEW res, Answers(k, res)
    PROVE  LET u == RepairLive(k, res)
           IN  /\ Good(k, u) /\ ConnInv(u.k, nips)
               /\ u.bug = "none" \/ (u.bug = "treatnip_nip" /\ u.k.unsched)
<1>1. [k EXCEPT !.curr = NoReq] = k  BY DEF ConnType
<1> DEFINE t == TreatNip(k)
           v == Resend(t.k, TRUE, res)
           s == Then(t, v)
<1>2. /\ Good(k, t) /\ t.cut = {} /\ ConnInv(t.k, nips) /\ Probing(t.k)
      /\ t.k.curr = NoReq /\ t.k.phase = "finish"
      /\ t.bug = "none" \/ (t.bug = "treatnip_nip" /\ t.k.unsched)
  BY TreatNipGood
<1>3. CASE k.fwd_queue = <<>>
  <2>1. RepairLive(k, res) = Nothing(k)  BY <1>1, <1>3 DEF RepairLive
  <2>2. Nothing(k).k = k /\ Nothing(k).bug = "none"  BY DEF Nothing, Section
  <2>3. Good(k, Nothing(k))  BY NothingGood
  <2>4. Elems(k.fwd_queue) = {}  BY <1>3, NoElem
  <2>5. RetryInv(k, nips)  BY <2>4 DEF RetryInv, UpTo
  <2> QED  BY <2>1, <2>2, <2>3, <2>5 DEF ConnInv
<1>4. CASE k.fwd_queue # <<>> /\ t.bug # "none"
  <2>1. RepairLive(k, res) = t  BY <1>1, <1>4 DEF RepairLive, RepairTreated
  <2> HIDE DEF t
  <2> QED  BY <2>1, <1>2
<1>5. CASE k.fwd_queue # <<>> /\ t.bug = "none"
  <2>1. RepairLive(k, res) = RepairResent(s, res)  BY <1>1, <1>5 DEF RepairLive, RepairTreated
  <2> HIDE DEF t
  <2>2. t.k \in ConnType /\ Answers(t.k, res)  BY <1>2 DEF Good, Answers
  <2>3. /\ Good(t.k, v) /\ Quiet(t.k, v) /\ v.cut = {}
        /\ ConnInv(v.k, nips) /\ v.ret \in {"ok", "ebusy", "ebadf"}
        /\ v.ret # "ebadf" /\ v.k.last = NoReq => v.k.curr = NoReq
        /\ v.ret = "ebusy" => v.k.last = NoReq
    BY <1>2, <2>2, ResendFirst
  <2> HIDE DEF v
  <2>4. Quiet(k, t)  BY <1>5 DEF Quiet
  <2>5. Good(k, s) /\ Quiet(k, s) /\ s.k = v.k /\ s.ret = v.ret /\ s.cut = {}
    BY <1>2, <2>3, <2>4, ThenGood
  <2> HIDE DEF s
  <2> DEFINE u == RepairResent(s, res)
  <2>6. Good(k, u) /\ Quiet(k, u) /\ ConnInv(u.k, nips)
    BY <2>3, <2>5, RepairResentGood
  <2>7. u.bug = "none"  BY <2>6 DEF Quiet
  <2> QED  BY <2>1, <2>6, <2>7
<1> QED  BY <1>3, <1>4, <1>5

\* tfw_http_conn_shrink_fwdq(): the stale requests leave the queue of a dead
\* connection.
LEMMA ShrinkFwdqGood ==
    ASSUME NEW k \in ConnType, ConnInv(k, nips), k.curr = NoReq, k.phase = "dead"
    PROVE  LET u == ShrinkFwdq(k)
           IN  Good(k, u) /\ u.bug = "none" /\ ConnInv(u.k, nips)
<1> DEFINE q == k.fwd_queue
           R == Elems(q) \cap Stale
           x == LastOf(SentPart(k), Reqs \ R)
           d == Delist(k, R, {})
           e == [d EXCEPT !.last = x]
           u == ShrinkFwdq(k)
<1>1. /\ q \in Seq(Reqs) /\ NoDup(q) /\ (k.last # NoReq => k.last \in Elems(q)) /\ ListInv(k, nips)
      /\ FlightInv(k) /\ SockInv(k) /\ NipInv(k, nips) /\ BaseInv(k, nips) /\ RetryInv(k, nips)
      /\ ~k.resend
  BY DEF ConnType, ConnInv, BaseInv, ListInv, PtrInv
<1>2. CASE q = <<>>
  <2>1. u = Nothing(k)  BY <1>2 DEF ShrinkFwdq
  <2>2. Nothing(k).k = k /\ Nothing(k).bug = "none"  BY DEF Nothing, Section
  <2>3. Good(k, Nothing(k))  BY NothingGood
  <2> QED  BY <2>1, <2>2, <2>3
<1>3. CASE q # <<>>
  <2>1. u = Section(e, R, {}, {}, "ok", "none")  BY <1>3 DEF ShrinkFwdq
  <2>2. R \in SUBSET Elems(q) /\ {} \in SUBSET Reqs /\ {} \cap nips = {}  OBVIOUS
  <2>3. d \in ConnType /\ SamePtr(d, k) /\ SameFlags(d, k) /\ SameSock(d, k)  BY <2>2, DelistFields
  <2>4. ListInv(d, nips) /\ Without(d.fwd_queue, q, R)  BY <1>1, <2>2, DelistList
  <2>5. Moved(x, k.last, q, R)  BY <1>1, MovedLast
  <2>6. NoReq \notin R  BY <1>1, BeforeElems, ReqsAssumption
  <2>7. Moved(NoReq, NoReq, q, R)  BY <2>6 DEF Moved
  <2> HIDE DEF d, x
  <2>8. /\ e \in ConnType /\ e.last = x /\ e.curr = NoReq /\ SameList(e, d)
        /\ SameFlags(e, k) /\ SameSock(e, k)
    <3>1. x \in ReqOrNone  BY <2>5, <1>1, BeforeElems DEF Moved, ReqOrNone
    <3>2. e \in ConnType /\ e.last = x /\ e.curr = d.curr /\ SameList(e, d)
          /\ SameFlags(e, d) /\ SameSock(e, d)
      BY <2>3, <3>1 DEF ConnType, SameList, SameFlags, SameSock
    <3> QED  BY <3>2, <2>3 DEF SamePtr, SameFlags, SameSock
  <2> HIDE DEF e
  <2>9. Flight(k) = <<>> /\ Front(k) = <<>>  BY <1>1, NoFlight
  <2>10. Front(e) = Front(k) /\ Flight(e) = <<>>  BY <2>8, <2>9 DEF Front, Flight, SameSock
  <2>11. Fewer(e, k, R)  BY <2>9, <2>10, NoElem DEF Fewer
  <2>12. SockInv(e)  BY <1>1, <2>8, <2>9, <2>10 DEF SockInv, SameFlags, SameSock
  <2>13. ListInv(e, nips) /\ Without(e.fwd_queue, q, R)
    BY <2>4, <2>8 DEF SameList, ListInv
  <2>14. /\ e.resend = k.resend /\ e.qforwd = k.qforwd /\ e.unsched = k.unsched /\ e.phase = k.phase
    BY <2>8 DEF SameFlags
  <2>15. k.curr = k.last => e.curr = e.last  BY <2>5, <2>6, <2>8 DEF Moved
  <2>16. /\ BaseInv(e, nips) /\ RetryInv(e, nips)
         /\ UpTo(e.fwd_queue, e.last) = UpTo(q, k.last) \ R
    <3> HIDE DEF R
    <3>1. R \in SUBSET Elems(k.fwd_queue) /\ Without(e.fwd_queue, k.fwd_queue, R)  BY <2>2, <2>13
    <3>2. Moved(e.last, k.last, k.fwd_queue, R) /\ Moved(e.curr, k.curr, k.fwd_queue, R)
      BY <2>5, <2>7, <2>8
    <3>3. e \in ConnType /\ ListInv(e, nips)  BY <2>8, <2>13
    <3> QED  BY <1>1, <2>11, <2>12, <2>14, <2>15, <3>1, <3>2, <3>3, ShrinkInv
  <2>17. /\ u.k = e /\ u.gone = R /\ u.cut = {} /\ u.tried = {} /\ u.sent = {} /\ u.bug = "none"
         /\ IsSection(u)
    BY <2>1 DEF Section, IsSection
  <2> HIDE DEF u, R
  <2>18. Elems(e.fwd_queue) = Elems(q) \ R  BY <2>13 DEF Without
  <2>19. Good(k, u)
    <3>1. Once(k, u)  BY <2>16, <2>17 DEF Once
    <3> QED  BY <2>2, <2>8, <2>14, <2>17, <2>18, <3>1 DEF Good
  <2> QED  BY <2>16, <2>17, <2>19 DEF ConnInv, u
<1> QED  BY <1>2, <1>3

\* The dead case of tfw_http_conn_repair().
LEMMA RepairDeadGood ==
    ASSUME NEW k \in ConnType, ConnInv(k, nips), k.phase = "dead"
    PROVE  LET u == RepairDead(k)
           IN  Good(k, u) /\ u.bug = "none" /\ ConnInv(u.k, nips)
<1> DEFINE d == [k EXCEPT !.curr = NoReq]
           u == RepairDead(k)
<1>1. /\ d \in ConnType /\ SameList(d, k) /\ SameFlags(d, k) /\ SameSock(d, k)
      /\ d.last = k.last /\ d.curr = NoReq
  BY DEF ConnType, ReqOrNone, SameList, SameFlags, SameSock
<1>2. u = IF d.recns - TmoNr >= MaxRecns THEN CutOff(Nothing(d)) ELSE ShrinkFwdq(d)
  BY DEF RepairDead
<1> HIDE DEF d, u
<1>3. /\ k.fwd_queue \in Seq(Reqs) /\ NoDup(k.fwd_queue) /\ Flight(k) = <<>> /\ ~k.resend
      /\ ~k.qforwd /\ SockInv(k)
  BY DEF ConnType, ConnInv, BaseInv, ListInv, PtrInv, SockInv
<1>4. Front(d) = Front(k) /\ Flight(d) = <<>>  BY <1>1, <1>3 DEF Front, Flight, SameSock
<1>5. Elems(Front(k)) = {}
  <2>1. <<>> \in Seq(Reqs) /\ Elems(<<>>) = {}  BY NoElem
  <2>2. Elems(Flight(k)) = Elems(Front(k)) \cup Elems(k.tx)
    <3>1. Front(k) \in Seq(Reqs) /\ k.tx \in Seq(Reqs)
      BY DEF Front, ConnType, Some, ReqOrNone
    <3> QED  BY <3>1, ConcatBefore DEF Flight
  <2> QED  BY <2>1, <2>2, <1>3
<1>6. ConnInv(d, nips)
  <2>1. ListInv(d, nips)  BY <1>1 DEF SameList, ListInv, ConnInv, BaseInv
  <2>2. PtrInv(d)  BY <1>1 DEF SameList, SameFlags, PtrInv, ConnInv, BaseInv, Active
  <2>3. FlightInv(d)  BY <1>1, <1>4, <1>5, NoElem DEF FlightInv, SameFlags
  <2>4. SockInv(d)  BY <1>1, <1>3, <1>4 DEF SockInv, SameFlags, SameSock
  <2>5. NipInv(d, nips)  BY <1>1 DEF NipInv, ConnInv, BaseInv, SameList
  <2>6. RetryInv(d, nips)  BY <1>1, <1>3 DEF RetryInv, Probing, SameFlags
  <2> QED  BY <2>1, <2>2, <2>3, <2>4, <2>5, <2>6 DEF ConnInv, BaseInv
<1>7. d.phase = "dead" /\ d.fwd_queue = k.fwd_queue /\ d.resend = k.resend /\ d.qforwd = k.qforwd
  BY <1>1 DEF SameFlags, SameList
<1>8. Good(d, u) /\ u.bug = "none" /\ ConnInv(u.k, nips)
  <2>1. CASE d.recns - TmoNr >= MaxRecns
    <3>1. u = CutOff(Nothing(d))  BY <2>1, <1>2
    <3>2. Good(d, Nothing(d)) /\ Nothing(d).cut = {}  BY <1>1, NothingGood
    <3>3. Nothing(d).k = d /\ Nothing(d).bug = "none"  BY DEF Nothing, Section
    <3>4. ~Probing(d) /\ SockInv(d)  BY <1>3, <1>6, <1>7 DEF Probing, ConnInv, BaseInv
    <3> DEFINE n == Nothing(d)
    <3>5. /\ Good(d, n) /\ n.cut = {} /\ Flight(n.k) = <<>> /\ SockInv(n.k)
          /\ ~Probing(n.k) /\ n.k.phase # "init" /\ (n.k.phase = "dead" => ~n.k.resend /\ ~n.k.qforwd)
          /\ n.k.fwd_queue \in Seq(Reqs) /\ NoDup(n.k.fwd_queue) /\ n.bug = "none"
      BY <1>3, <1>4, <1>7, <3>2, <3>3, <3>4
    <3> HIDE DEF n
    <3>6. Good(d, CutOff(n)) /\ ConnInv(CutOff(n).k, nips) /\ CutOff(n).bug = n.bug
      BY <3>5, CutOffGood
    <3> QED  BY <3>1, <3>5, <3>6 DEF n
  <2>2. CASE ~(d.recns - TmoNr >= MaxRecns)
    <3>1. u = ShrinkFwdq(d)  BY <2>2, <1>2
    <3> QED  BY <1>1, <1>6, <1>7, <3>1, ShrinkFwdqGood
  <2> QED  BY <2>1, <2>2
<1>9. Good(k, u)
  BY <1>1, <1>7, <1>8 DEF Good, Once, SameFlags
<1> QED  BY <1>8, <1>9 DEF u

\* A connection on its way to the next attempt to connect: d of Release.
LEMMA DeadInv ==
    ASSUME NEW k \in ConnType, ConnInv(k, nips),
           k.phase \in {"dropped", "stolen", "dead"}, NEW p \in {"dead", "gone"},
           p = "gone" => k.phase # "dead"
    PROVE  LET d == [ClearRestricted(k) EXCEPT !.phase = p, !.tx = <<>>]
           IN  /\ d \in ConnType /\ d.phase = p /\ SameList(d, k) /\ SamePtr(d, k)
               /\ d.recns = k.recns /\ d.resend = FALSE /\ d.qforwd = FALSE /\ Flight(d) = <<>>
               /\ SockInv(d) /\ (p = "dead" => ConnInv(d, nips))
<1> DEFINE d == [ClearRestricted(k) EXCEPT !.phase = p, !.tx = <<>>]
<1>0. <<>> \in Seq(Reqs) /\ Elems(<<>>) = {} /\ (\A a, b : ~Before(<<>>, a, b))  BY NoElem
<1>1. d = [k EXCEPT !.qforwd = FALSE, !.resend = FALSE, !.phase = p, !.tx = <<>>]
  BY DEF ClearRestricted, ConnType
<1>2. /\ d \in ConnType /\ d.phase = p /\ SameList(d, k) /\ SamePtr(d, k) /\ d.tx = <<>>
      /\ d.recns = k.recns /\ d.resend = FALSE /\ d.qforwd = FALSE
      /\ d.msg = k.msg /\ d.sib = k.sib /\ d.wire = k.wire
  <2> HIDE DEF d
  <2>1. p \in Phases  BY DEF Phases
  <2> QED  BY <1>0, <1>1, <2>1 DEF ConnType, SameList, SamePtr
<1> HIDE DEF d
<1>3. k.fwd_queue \in Seq(Reqs) /\ NoDup(k.fwd_queue) /\ SockInv(k)
  BY DEF ConnType, ConnInv, BaseInv, ListInv
<1>4. Front(k) \in Seq(Reqs) /\ k.tx \in Seq(Reqs)
  BY DEF Front, ConnType, Some, ReqOrNone
<1>5. Front(k) = <<>>
  <2>1. CASE k.phase = "stolen"
    BY <2>1, <1>3 DEF SockInv
  <2>2. CASE k.phase # "stolen"
    <3>1. Flight(k) = <<>>  BY <2>2, <1>3 DEF SockInv
    <3>2. Elems(Flight(k)) = Elems(Front(k)) \cup Elems(k.tx)
      BY <1>4, ConcatBefore DEF Flight
    <3>3. Elems(Front(k)) = {}  BY <3>1, <3>2, <1>0
    <3> QED  BY <3>3, <1>4, BeforeElems
  <2> QED  BY <2>1, <2>2
<1>6. Front(d) = <<>>  BY <1>2, <1>5 DEF Front
<1>7. Flight(d) = <<>>  BY <1>2, <1>6 DEF Flight
<1>8. SockInv(d)  BY <1>2, <1>3, <1>6, <1>7 DEF SockInv
<1>9. p = "dead" => ConnInv(d, nips)
  <2> SUFFICES ASSUME p = "dead" PROVE ConnInv(d, nips)
    OBVIOUS
  <2>1. ListInv(d, nips)  BY <1>2 DEF SameList, ListInv, ConnInv, BaseInv
  <2>2. PtrInv(d)  BY <1>2 DEF SameList, SamePtr, PtrInv, ConnInv, BaseInv, Active
  <2>3. FlightInv(d)  BY <1>0, <1>2, <1>6, <1>7 DEF FlightInv
  <2>5. NipInv(d, nips)  BY <1>2 DEF NipInv, ConnInv, BaseInv, SameList, SamePtr
  <2>6. RetryInv(d, nips)  BY <1>2 DEF RetryInv, Probing
  <2> QED  BY <2>1, <2>2, <2>3, <1>8, <2>5, <2>6 DEF ConnInv, BaseInv
<1> QED  BY <1>2, <1>7, <1>8, <1>9 DEF d

\* A counter of the connection is changed after section s.
LEMMA RecnsGood ==
    ASSUME NEW k, NEW s, Good(k, s), ConnInv(s.k, nips), NEW n \in Nat
    PROVE  LET t == [s EXCEPT !.k.recns = n]
           IN  /\ Good(k, t) /\ ConnInv(t.k, nips) /\ t.bug = s.bug
               /\ t.gone = s.gone /\ t.cut = s.cut
<1> DEFINE e == s.k
           d == [e EXCEPT !.recns = n]
           t == [s EXCEPT !.k.recns = n]
<1>1. IsSection(s) /\ e \in ConnType  BY DEF Good
<1>2. t = [k |-> d, gone |-> s.gone, cut |-> s.cut, tried |-> s.tried, sent |-> s.sent,
           ret |-> s.ret, bug |-> s.bug]
  <2>1. t = [s EXCEPT !.k = d]  OBVIOUS
  <2> HIDE DEF t, d
  <2> QED  BY <1>1, <2>1 DEF IsSection
<1> HIDE DEF t, e
<1>3. /\ d \in ConnType /\ SameList(d, e) /\ SamePtr(d, e) /\ SameFlags(d, e) /\ SameSock(d, e)
  BY <1>1 DEF ConnType, SameList, SamePtr, SameFlags, SameSock
<1> HIDE DEF d
<1>4. /\ t.k = d /\ t.gone = s.gone /\ t.cut = s.cut /\ t.tried = s.tried /\ t.sent = s.sent
      /\ t.bug = s.bug /\ IsSection(t)
  BY <1>2 DEF IsSection
<1>5. ConnInv(d, nips)
  <2>1. ConnInv(e, nips)  BY DEF e
  <2> QED  BY <1>3, <2>1 DEF ConnInv, BaseInv, ListInv, PtrInv, FlightInv, SockInv, NipInv, RetryInv,
     Flight, Front, Probing, SamePtr, SameList, SameSock, SameFlags
<1>6. Good(k, t)
  <2>1. /\ d.fwd_queue = e.fwd_queue /\ d.last = e.last /\ d.phase = e.phase /\ d.resend = e.resend
    BY <1>3 DEF SameList, SamePtr, SameFlags
  <2> QED  BY <1>3, <1>4, <2>1 DEF Good, Once, e
<1> QED  BY <1>4, <1>5, <1>6 DEF t

\* tfw_srv_conn_release() with tfw_sock_srv_connect_try_later()
LEMMA ReleaseGood ==
    ASSUME NEW k \in ConnType, ConnInv(k, nips), k.phase \in {"dropped", "stolen", "dead"}
    PROVE  LET d == [ClearRestricted(k) EXCEPT !.phase = "dead", !.tx = <<>>]
               u == Release(k)
           IN  /\ d \in ConnType /\ SameList(d, k) /\ SamePtr(d, k) /\ d.phase = "dead"
               /\ Good(d, u) /\ u.bug = "none" /\ ConnInv(u.k, nips)
<1> DEFINE d == [ClearRestricted(k) EXCEPT !.phase = "dead", !.tx = <<>>]
           s == IF k.recns < TmoNr THEN Nothing(d) ELSE RepairDead(d)
           n == IF s.k.recns < TmoNr + MaxRecns THEN s.k.recns + 1 ELSE s.k.recns
           u == Release(k)
<1>1. u = [s EXCEPT !.k.recns = n]  BY DEF Release
<1>2. d \in ConnType /\ d.phase = "dead" /\ SameList(d, k) /\ SamePtr(d, k) /\ ConnInv(d, nips)
  BY DeadInv
<1> HIDE DEF d, u
<1>3. Good(d, s) /\ s.bug = "none" /\ ConnInv(s.k, nips)
  <2>1. CASE k.recns < TmoNr
    <3>1. s = Nothing(d)  BY <2>1
    <3>2. Nothing(d).k = d /\ Nothing(d).bug = "none"  BY DEF Nothing, Section
    <3>3. Good(d, Nothing(d))  BY <1>2, NothingGood
    <3> HIDE DEF s
    <3> QED  BY <1>2, <3>1, <3>2, <3>3
  <2>2. CASE ~(k.recns < TmoNr)
    <3>1. s = RepairDead(d)  BY <2>2
    <3> HIDE DEF s
    <3> QED  BY <1>2, <3>1, RepairDeadGood
  <2> QED  BY <2>1, <2>2
<1> HIDE DEF s
<1>4. n \in Nat
  <2>1. s.k.recns \in Nat  BY <1>3 DEF Good, ConnType
  <2> QED  BY <2>1, LimitsAssumption
<1> HIDE DEF n
<1>5. Good(d, u) /\ ConnInv(u.k, nips) /\ u.bug = s.bug
  BY <1>1, <1>3, <1>4, RecnsGood
<1> QED  BY <1>2, <1>3, <1>5 DEF d, u

\* What k is of the connection c when the request paired with the response is
\* about to leave the queue: the next response takes the place of the first,
\* or the socket is gone.
Popping(k, c) ==
    /\ SameList(k, c) /\ SamePtr(k, c)
    /\ k.resend = c.resend /\ k.qforwd = c.qforwd /\ k.unsched = c.unsched
    /\ k.sib = NoReq
    /\ \/ k.phase = c.phase /\ k.msg = c.sib /\ k.wire = c.wire /\ k.tx = c.tx
       \/ /\ c.sib = NoReq /\ k.msg = NoReq /\ k.wire = <<>> /\ k.tx = <<>>
          /\ \/ c.phase = "up" /\ k.phase = "stolen"
             \/ c.phase = "closed" /\ k.phase = "dropped"

\* The response that is being received belongs to the first request.
LEMMA MsgFirst ==
    ASSUME NEW c \in ConnType, ConnInv(c, nips), c.msg # NoReq
    PROVE  /\ c.msg \in Elems(c.fwd_queue) /\ UpTo(c.fwd_queue, c.msg) = {c.msg}
           /\ c.msg \in UpTo(c.fwd_queue, c.curr)
           /\ c.msg \in Elems(Front(c)) /\ \A b : Before(Front(c), c.msg, b) => b # c.msg
<1> DEFINE q == c.fwd_queue
           r == c.msg
           g == Some(c.sib) \o c.wire
           f == Front(c)
<1>1. q \in Seq(Reqs) /\ NoDup(q) /\ r \in Reqs /\ c.wire \in Seq(Reqs) /\ Some(c.sib) \in Seq(Reqs)
  BY DEF ConnType, ConnInv, BaseInv, ListInv, ReqOrNone, Some
<1>2. g \in Seq(Reqs) /\ <<r>> \in Seq(Reqs) /\ Elems(<<r>>) = {r}  BY <1>1, ConcatBefore, OneElem
<1>3. f = <<r>> \o g
  <2>1. f = (<<r>> \o Some(c.sib)) \o c.wire  BY DEF Front, Some
  <2> DEFINE s == Some(c.sib)
             w == c.wire
             t == <<r>>
  <2>2. s \in Seq(Reqs) /\ w \in Seq(Reqs) /\ t \in Seq(Reqs)  BY <1>1, <1>2
  <2> HIDE DEF s, w, t
  <2>3. (t \o s) \o w = t \o (s \o w)  BY <2>2
  <2> QED  BY <2>1, <2>3 DEF s, w, t
<1> HIDE DEF g, f
<1>4. /\ f \in Seq(Reqs) /\ Elems(f) = {r} \cup Elems(g)
      /\ \A b : b \in Elems(g) => Before(f, r, b)
  <2> DEFINE t == <<r>>
  <2>1. t \in Seq(Reqs) /\ Elems(t) = {r} /\ f = t \o g  BY <1>2, <1>3
  <2> HIDE DEF t
  <2> QED  BY <1>2, <2>1, ConcatBefore
<1>5. \A a, b \in Reqs : Before(f, a, b) => Before(q, a, b)
  <2>1. FlightInv(c) /\ c.tx \in Seq(Reqs)  BY DEF ConnInv, BaseInv, ConnType
  <2>2. Flight(c) = f \o c.tx  BY DEF Flight, f
  <2>3. \A a, b : Before(f, a, b) => Before(f \o c.tx, a, b)  BY <1>4, <2>1, ConcatBefore
  <2> QED  BY <2>1, <2>2, <2>3 DEF FlightInv
<1>6. /\ \A a, b \in Reqs : Before(q, a, b) /\ b \in Elems(f) => a \in Elems(f)
      /\ r \in UpTo(q, c.curr)
  <2>1. FlightInv(c) /\ c.tx \in Seq(Reqs)  BY DEF ConnInv, BaseInv, ConnType
  <2>2. Flight(c) = f \o c.tx  BY DEF Flight, f
  <2>3. r \in Elems(f \o c.tx)  BY <1>4, <2>1, ConcatBefore
  <2> QED  BY <2>1, <2>2, <2>3 DEF FlightInv, f
<1>7. /\ Elems(q) \subseteq Reqs /\ \A a, b : ~(Before(q, a, b) /\ Before(q, b, a))
      /\ \A a : ~Before(q, a, a)
  BY <1>1, BeforeElems, BeforeOrder
<1>8. r \in Elems(q)  BY <1>6 DEF UpTo
<1>9. ASSUME NEW a \in Elems(q), Before(q, a, r) PROVE FALSE
  <2>1. a \in Reqs /\ a \in Elems(f)  BY <1>1, <1>4, <1>6, <1>7, <1>9
  <2>2. a # r  BY <1>7, <1>9
  <2>3. Before(q, r, a)  BY <1>1, <1>4, <1>5, <2>1, <2>2
  <2> QED  BY <2>3, <1>7, <1>9
<1>10. UpTo(q, r) = {r}  BY <1>8, <1>9 DEF UpTo
<1>11. \A b : Before(f, r, b) => b # r
  <2>1. Before(f, r, r) => Before(q, r, r)  BY <1>1, <1>5
  <2> QED  BY <2>1, <1>7
<1> QED  BY <1>4, <1>6, <1>8, <1>10, <1>11 DEF f

\* What is in flight when the first response is taken off.
LEMMA PopFlight ==
    ASSUME NEW c \in ConnType, ConnInv(c, nips), c.msg # NoReq, NEW k \in ConnType,
           k.msg = c.sib, k.sib = NoReq, k.wire = c.wire, k.tx = c.tx
    PROVE  /\ Elems(Flight(k)) = Elems(Flight(c)) \ {c.msg}
           /\ Elems(Front(k)) = Elems(Front(c)) \ {c.msg}
           /\ \A a, b : Before(Flight(k), a, b) => Before(Flight(c), a, b)
           /\ c.sib = NoReq => Front(k) = c.wire
<1> DEFINE r == c.msg
           g == Some(c.sib) \o c.wire
           t == <<r>>
           x == c.tx
<1>1. /\ r \in Reqs /\ c.wire \in Seq(Reqs) /\ Some(c.sib) \in Seq(Reqs) /\ x \in Seq(Reqs)
      /\ c.fwd_queue \in Seq(Reqs) /\ NoDup(c.fwd_queue) /\ FlightInv(c)
  BY DEF ConnType, ConnInv, BaseInv, ListInv, ReqOrNone, Some
<1>2. g \in Seq(Reqs) /\ t \in Seq(Reqs) /\ Elems(t) = {r}  BY <1>1, ConcatBefore, OneElem
<1>3. Front(c) = t \o g
  <2>1. Front(c) = (t \o Some(c.sib)) \o c.wire  BY DEF Front, Some
  <2> DEFINE s == Some(c.sib)
             w == c.wire
  <2>2. s \in Seq(Reqs) /\ w \in Seq(Reqs)  BY <1>1
  <2> HIDE DEF s, w, t
  <2>3. (t \o s) \o w = t \o (s \o w)  BY <1>2, <2>2
  <2> QED  BY <2>1, <2>3 DEF s, w
<1>4. Front(k) = g
  <2>1. Front(k) = (Some(c.sib) \o <<>>) \o c.wire  BY DEF Front, Some
  <2> DEFINE s == Some(c.sib)
  <2>2. s \in Seq(Reqs)  BY <1>1
  <2> HIDE DEF s
  <2>3. s \o <<>> = s  BY <2>2
  <2> QED  BY <2>1, <2>3 DEF s
<1>5. c.sib = NoReq => g = c.wire
  <2> DEFINE w == c.wire
  <2>1. w \in Seq(Reqs)  BY <1>1
  <2> HIDE DEF w
  <2>2. <<>> \o w = w  BY <2>1
  <2> QED  BY <2>2 DEF Some, w
<1> HIDE DEF g, t, x
<1>6. Flight(c) = (t \o g) \o x /\ Flight(k) = g \o x  BY <1>3, <1>4 DEF Flight, x
<1>7. (t \o g) \o x = t \o (g \o x)  BY <1>1, <1>2
<1> DEFINE h == g \o x
<1>8. h \in Seq(Reqs) /\ Elems(h) = Elems(g) \cup Elems(x)  BY <1>1, <1>2, ConcatBefore
<1> HIDE DEF h
<1>9. /\ Elems(t \o h) = {r} \cup Elems(h) /\ Elems(t \o g) = {r} \cup Elems(g)
      /\ \A a, b : Before(h, a, b) => Before(t \o h, a, b)
      /\ \A b : b \in Elems(h) => Before(t \o h, r, b)
  BY <1>2, <1>8, ConcatBefore
<1>10. r \notin Elems(h)
  <2>1. \A a : ~Before(c.fwd_queue, a, a)  BY <1>1, BeforeOrder
  <2>2. Flight(c) = t \o h  BY <1>6, <1>7 DEF h
  <2>3. ~Before(t \o h, r, r)  BY <1>1, <2>1, <2>2 DEF FlightInv
  <2> QED  BY <2>3, <1>9
<1> QED  BY <1>3, <1>4, <1>5, <1>6, <1>7, <1>8, <1>9, <1>10 DEF h, x

\* The list when a request left it (the list part of Unlink).
LEMMA AdjustList ==
    ASSUME NEW d \in ConnType, ListInv(d, nips)
    PROVE  LET p == NipAdjust(d)
           IN  /\ p \in ConnType /\ ListInv(p, nips) /\ p.fwd_queue = d.fwd_queue
               /\ SamePtr(p, d) /\ SameFlags(p, d) /\ SameSock(p, d)
<1> DEFINE n == d.nip_queue \cap nips
           h == d.hasnip /\ n # {}
           p == [d EXCEPT !.nip_queue = n, !.hasnip = h]
<1>1. NipAdjust(d) = p
  BY DEF NipAdjust, ConnType
<1>2. n \in SUBSET Reqs /\ h \in BOOLEAN  BY DEF ConnType
<1>3. h <=> n # {}
  <2>1. d.hasnip <=> d.nip_queue # {}  BY DEF ListInv
  <2> QED  BY <2>1
<1> HIDE DEF n, h
<1>4. /\ p \in ConnType /\ p.fwd_queue = d.fwd_queue /\ p.nip_queue = n /\ p.hasnip = h
      /\ p.qsize = d.qsize
      /\ SamePtr(p, d) /\ SameFlags(p, d) /\ SameSock(p, d)
  BY <1>2 DEF ConnType, SamePtr, SameFlags, SameSock
<1> HIDE DEF p
<1>5. ListInv(p, nips)
  <2>1. NoDup(p.fwd_queue) /\ p.qsize = Len(p.fwd_queue)  BY <1>4 DEF ListInv
  <2>2. p.nip_queue \subseteq Elems(p.fwd_queue) /\ Elems(p.fwd_queue) \cap nips \subseteq p.nip_queue
    BY <1>4 DEF ListInv, n
  <2>3. p.hasnip <=> p.nip_queue # {}  BY <1>3, <1>4
  <2> QED  BY <2>1, <2>2, <2>3 DEF ListInv
<1> QED  BY <1>1, <1>4, <1>5

\* tfw_http_popreq(): the request that got its response leaves the queue.
LEMMA UnlinkInv ==
    ASSUME NEW c \in ConnType, ConnInv(c, nips), c.msg # NoReq, c.phase \in {"up", "closed"},
           NEW k \in ConnType, Popping(k, c)
    PROVE  LET p == Unlink(k, c.msg)
           IN  /\ p \in ConnType /\ ConnInv(p, nips) /\ p.phase = k.phase
               /\ c.msg \in Elems(c.fwd_queue)
               /\ Elems(p.fwd_queue) = Elems(c.fwd_queue) \ {c.msg}
               /\ UpTo(p.fwd_queue, p.last) = UpTo(c.fwd_queue, c.last) \ {c.msg}
               /\ p.resend = c.resend /\ p.qforwd = c.qforwd /\ p.unsched = c.unsched
               /\ SameSock(p, k) /\ (Probing(p) => p.curr = NoReq)
<1> DEFINE r == c.msg
           q == c.fwd_queue
           R == {r}
           x == IF k.last = r THEN NoReq ELSE k.last
           y == IF k.curr = r THEN NoReq ELSE k.curr
           e == [k EXCEPT !.last = x, !.curr = y]
           d == Delist(e, R, {})
           p == NipAdjust(d)
<1>1. Unlink(k, r) = p  BY DEF Unlink
<1>2. /\ q \in Seq(Reqs) /\ NoDup(q) /\ ListInv(c, nips) /\ BaseInv(c, nips) /\ RetryInv(c, nips)
      /\ c.last \in Elems(q) \cup {NoReq} /\ PtrInv(c) /\ FlightInv(c) /\ SockInv(c)
  BY DEF ConnType, ConnInv, BaseInv, ListInv, PtrInv
<1>3. c.curr \in Elems(q) \cup {NoReq}  BY <1>2 DEF PtrInv, UpTo
<1>4. r \in Elems(q) /\ UpTo(q, r) = {r} /\ r \in UpTo(q, c.curr) /\ r \in Reqs
  <2>1. r \in Elems(q) /\ UpTo(q, r) = {r} /\ r \in UpTo(q, c.curr)  BY MsgFirst
  <2> QED  BY <2>1, <1>2, BeforeElems
<1>5. k.last = c.last /\ k.curr = c.curr /\ SameList(k, c)  BY DEF Popping, SamePtr
<1>6. Moved(x, c.last, q, R) /\ Moved(y, c.curr, q, R)
  <2>1. x = (IF c.last = r THEN NoReq ELSE c.last) /\ y = (IF c.curr = r THEN NoReq ELSE c.curr)
    BY <1>5
  <2> HIDE DEF x, y
  <2>2. Moved(IF c.last = r THEN NoReq ELSE c.last, c.last, q, {r})
    BY <1>2, <1>4, MovedFirst
  <2>3. Moved(IF c.curr = r THEN NoReq ELSE c.curr, c.curr, q, {r})
    BY <1>2, <1>3, <1>4, MovedFirst
  <2> QED  BY <2>1, <2>2, <2>3
<1>7. c.curr = c.last => y = x  BY <1>5
<1>8. c.curr = r => y = NoReq  BY <1>5
<1> HIDE DEF x, y
<1>9. /\ e \in ConnType /\ e.last = x /\ e.curr = y /\ SameList(e, k) /\ SameFlags(e, k)
      /\ SameSock(e, k)
  <2>1. x \in ReqOrNone /\ y \in ReqOrNone
    BY <1>2, <1>6, BeforeElems DEF Moved, ReqOrNone
  <2> QED  BY <2>1 DEF ConnType, SameList, SameFlags, SameSock
<1> HIDE DEF e
<1>10. e.fwd_queue = q /\ ListInv(e, nips)
  BY <1>2, <1>5, <1>9 DEF SameList, ListInv
<1>11. R \in SUBSET Elems(e.fwd_queue) /\ {} \in SUBSET Reqs /\ {} \cap nips = {}  BY <1>4, <1>10
<1>12. d \in ConnType /\ SamePtr(d, e) /\ SameFlags(d, e) /\ SameSock(d, e)
  BY <1>9, <1>11, DelistFields
<1>13. ListInv(d, nips) /\ Without(d.fwd_queue, q, R)  BY <1>9, <1>10, <1>11, DelistList
<1> HIDE DEF d
<1>14. /\ p \in ConnType /\ ListInv(p, nips) /\ p.fwd_queue = d.fwd_queue
       /\ SamePtr(p, d) /\ SameFlags(p, d) /\ SameSock(p, d)
  BY <1>12, <1>13, AdjustList
<1> HIDE DEF p
<1>15. /\ p.last = x /\ p.curr = y /\ SameFlags(p, k) /\ SameSock(p, k)
       /\ Without(p.fwd_queue, q, R)
  BY <1>9, <1>12, <1>13, <1>14 DEF SamePtr, SameFlags, SameSock
<1>16. /\ p.resend = c.resend /\ p.qforwd = c.qforwd /\ p.unsched = c.unsched /\ p.phase = k.phase
  BY <1>15 DEF Popping, SameFlags
<1>17. /\ Fewer(p, c, R) /\ SockInv(p)
       /\ \/ p.phase = c.phase
          \/ c.phase = "up" /\ p.phase = "stolen"
          \/ c.phase = "closed" /\ p.phase = "dropped"
  <2>1. CASE k.phase = c.phase /\ k.msg = c.sib /\ k.wire = c.wire /\ k.tx = c.tx
    <3>1. p.msg = c.sib /\ p.sib = NoReq /\ p.wire = c.wire /\ p.tx = c.tx /\ p.phase = c.phase
      BY <2>1, <1>15, <1>16 DEF SameSock, Popping
    <3>2. /\ Elems(Flight(p)) = Elems(Flight(c)) \ {c.msg}
          /\ Elems(Front(p)) = Elems(Front(c)) \ {c.msg}
          /\ \A a, b : Before(Flight(p), a, b) => Before(Flight(c), a, b)
      BY <3>1, <1>14, PopFlight
    <3>3. Fewer(p, c, R)  BY <3>2 DEF Fewer
    <3>4. SockInv(p)  BY <3>1, <1>2 DEF SockInv
    <3> QED  BY <3>1, <3>3, <3>4
  <2>2. CASE /\ c.sib = NoReq /\ k.msg = NoReq /\ k.wire = <<>> /\ k.tx = <<>>
             /\ \/ c.phase = "up" /\ k.phase = "stolen"
                \/ c.phase = "closed" /\ k.phase = "dropped"
    <3>1. p.msg = NoReq /\ p.sib = NoReq /\ p.wire = <<>> /\ p.tx = <<>>
      BY <2>2, <1>15 DEF SameSock, Popping
    <3>2. Front(p) = <<>> /\ Flight(p) = <<>>  BY <3>1 DEF Front, Flight, Some
    <3>3. p.phase \in {"stolen", "dropped"}  BY <2>2, <1>16
    <3>4. Fewer(p, c, R)  BY <3>2, <3>3, NoElem DEF Fewer
    <3>5. SockInv(p)  BY <3>1, <3>2, <3>3 DEF SockInv
    <3> QED  BY <2>2, <1>16, <3>4, <3>5
  <2> QED  BY <2>1, <2>2 DEF Popping
<1>18. /\ BaseInv(p, nips) /\ RetryInv(p, nips)
       /\ UpTo(p.fwd_queue, p.last) = UpTo(q, c.last) \ R
  <2>1. R \in SUBSET Elems(c.fwd_queue) /\ Without(p.fwd_queue, c.fwd_queue, R)  BY <1>4, <1>15
  <2>2. Moved(p.last, c.last, c.fwd_queue, R) /\ Moved(p.curr, c.curr, c.fwd_queue, R)
    BY <1>6, <1>15
  <2>3. c.curr = c.last => p.curr = p.last  BY <1>7, <1>15
  <2> HIDE DEF R
  <2> QED  BY <1>2, <1>14, <1>16, <1>17, <2>1, <2>2, <2>3, ShrinkInv
<1>19. Probing(p) => p.curr = NoReq
  <2> SUFFICES ASSUME Probing(p) PROVE p.curr = NoReq
    OBVIOUS
  <2>1. Probing(c) /\ c.phase # "dead"  BY <1>16 DEF Probing
  <2>2. UpTo(q, c.curr) \subseteq {c.curr}  BY <2>1, <1>2 DEF PtrInv
  <2> QED  BY <2>2, <1>4, <1>8, <1>15
<1>20. Elems(p.fwd_queue) = Elems(q) \ R  BY <1>15 DEF Without
<1> QED  BY <1>1, <1>4, <1>14, <1>15, <1>16, <1>18, <1>19, <1>20 DEF ConnInv

\* tfw_http_popreq(): and the ones that wait are forwarded.
LEMMA PopReqGood ==
    ASSUME NEW k, NEW r, NEW fwd_unsent \in BOOLEAN, NEW res, NEW res2,
           retries \in [Reqs -> 0..MaxRefwd],
           LET p == Unlink(k, r)
           IN  /\ p \in ConnType /\ ConnInv(p, nips) /\ (Probing(p) => p.curr = NoReq)
               /\ p.phase \in Active \cup {"stolen", "closed", "dropped"}
               /\ fwd_unsent => Answers(p, res) /\ (Probing(p) => Answers(p, res2))
    PROVE  LET p == Unlink(k, r)
               u == PopReq(k, r, fwd_unsent, res, res2)
           IN  Good(p, u) /\ Quiet(p, u) /\ ConnInv(u.k, nips)
<1> DEFINE p == Unlink(k, r)
           u == PopReq(k, r, fwd_unsent, res, res2)
<1>1. u = CASE ~fwd_unsent -> Nothing(p)
            [] fwd_unsent /\ p.resend -> ReschedIfBusy(FwdRepair(p, res, res2))
            [] fwd_unsent /\ ~p.resend /\ NeedFwd(p) -> ReschedIfBusy(FwdUnsent(p, res))
            [] OTHER -> Nothing(p)
  BY DEF PopReq
<1>2. /\ p \in ConnType /\ ConnInv(p, nips) /\ (Probing(p) => p.curr = NoReq)
      /\ p.phase \in Active \cup {"stolen", "closed", "dropped"}
      /\ fwd_unsent => Answers(p, res) /\ (Probing(p) => Answers(p, res2))
  OBVIOUS
<1> HIDE DEF p, u
<1>3. p.phase \notin {"dead", "init", "gone"}  BY <1>2 DEF Active
<1>4. CASE u = Nothing(p)
  <2>1. Nothing(p).k = p  BY DEF Nothing, Section
  <2>2. Good(p, Nothing(p)) /\ Quiet(p, Nothing(p))  BY <1>2, NothingGood
  <2> QED  BY <1>2, <1>4, <2>1, <2>2 DEF p, u
<1>5. CASE fwd_unsent /\ p.resend
  <2> DEFINE s == FwdRepair(p, res, res2)
  <2>1. u = ReschedIfBusy(s)  BY <1>1, <1>5
  <2>2. /\ Good(p, s) /\ Quiet(p, s) /\ s.cut = {} /\ ConnInv(s.k, nips)
        /\ s.ret = "ebusy" => s.k.curr = NoReq /\ s.k.last = NoReq
    BY <1>2, <1>5, FwdRepairGood
  <2> HIDE DEF s
  <2>3. s.k.phase # "init"  BY <1>3, <2>2 DEF Good
  <2>4. Good(p, ReschedIfBusy(s)) /\ Quiet(p, ReschedIfBusy(s)) /\ ConnInv(ReschedIfBusy(s).k, nips)
    BY <2>2, <2>3, ReschedIfBusyGood
  <2> QED  BY <2>1, <2>4 DEF p, u
<1>6. CASE fwd_unsent /\ ~p.resend /\ NeedFwd(p)
  <2> DEFINE s == FwdUnsent(p, res)
  <2>1. u = ReschedIfBusy(s)  BY <1>1, <1>6
  <2>2. p.last \notin nips /\ ~Drained(p) /\ ~Probing(p)
    BY <1>6 DEF NeedFwd, OnHold, Probing
  <2>3. p.curr = p.last  BY <1>2, <1>3, <2>2 DEF ConnInv, BaseInv, PtrInv
  <2>4. /\ Good(p, s) /\ Quiet(p, s) /\ s.cut = {} /\ ConnInv(s.k, nips) /\ s.k.curr = s.k.last
        /\ s.ret = "ebusy" => s.k.last = NoReq
    BY <1>2, <1>3, <1>6, <2>2, <2>3, FwdUnsentInv
  <2> HIDE DEF s
  <2>5. s.k.phase # "init" /\ (s.ret = "ebusy" => s.k.curr = NoReq /\ s.k.last = NoReq)
    BY <1>3, <2>4 DEF Good
  <2>6. Good(p, ReschedIfBusy(s)) /\ Quiet(p, ReschedIfBusy(s)) /\ ConnInv(ReschedIfBusy(s).k, nips)
    BY <2>4, <2>5, ReschedIfBusyGood
  <2> QED  BY <2>1, <2>6 DEF p, u
<1> QED  BY <1>1, <1>4, <1>5, <1>6

-----------------------------------------------------------------------------
(* Steps of the socket. *)

\* What is in flight: the front, then what the socket holds.
LEMMA FlightFacts ==
    ASSUME NEW k \in ConnType
    PROVE  /\ Front(k) \in Seq(Reqs) /\ k.tx \in Seq(Reqs) /\ Flight(k) \in Seq(Reqs)
           /\ Elems(Flight(k)) = Elems(Front(k)) \cup Elems(k.tx)
           /\ \A a, b : Before(Flight(k), a, b) <=>
                 \/ Before(Front(k), a, b) \/ Before(k.tx, a, b)
                 \/ a \in Elems(Front(k)) /\ b \in Elems(k.tx)
<1>1. Front(k) \in Seq(Reqs) /\ k.tx \in Seq(Reqs)
  BY DEF Front, ConnType, Some, ReqOrNone
<1>2. Flight(k) = Front(k) \o k.tx  BY DEF Flight
<1> DEFINE f == Front(k)
           t == k.tx
<1>3. f \in Seq(Reqs) /\ t \in Seq(Reqs)  BY <1>1
<1> HIDE DEF f, t
<1>4. /\ f \o t \in Seq(Reqs) /\ Elems(f \o t) = Elems(f) \cup Elems(t)
      /\ \A a, b : Before(f \o t, a, b) <=>
            Before(f, a, b) \/ Before(t, a, b) \/ (a \in Elems(f) /\ b \in Elems(t))
  BY <1>3, ConcatBefore
<1> QED  BY <1>1, <1>2, <1>4 DEF f, t

\* The front: the requests of the two responses, then the ones on the wire.
LEMMA FrontFacts ==
    ASSUME NEW k \in ConnType
    PROVE  LET m == Some(k.msg) \o Some(k.sib)
           IN  /\ m \in Seq(Reqs) /\ k.wire \in Seq(Reqs)
               /\ Elems(Front(k)) = Elems(m) \cup Elems(k.wire)
               /\ Elems(m) = {k.msg, k.sib} \ {NoReq}
               /\ \A a, b : Before(Front(k), a, b) <=>
                    \/ Before(m, a, b) \/ Before(k.wire, a, b)
                    \/ a \in Elems(m) /\ b \in Elems(k.wire)
               /\ \A a, b : Before(m, a, b) <=>
                    a = k.msg /\ b = k.sib /\ k.msg # NoReq /\ k.sib # NoReq
<1> DEFINE x == Some(k.msg)
           y == Some(k.sib)
           m == x \o y
           w == k.wire
<1>1. /\ k.msg \in Reqs \cup {NoReq} /\ k.sib \in Reqs \cup {NoReq} /\ w \in Seq(Reqs)
  BY DEF ConnType, ReqOrNone
<1>2. /\ x \in Seq(Reqs) /\ Elems(x) = {k.msg} \ {NoReq} /\ \A a, b : ~Before(x, a, b)
  BY <1>1, OneElem, NoElem, ReqsAssumption DEF Some
<1>3. /\ y \in Seq(Reqs) /\ Elems(y) = {k.sib} \ {NoReq} /\ \A a, b : ~Before(y, a, b)
  BY <1>1, OneElem, NoElem, ReqsAssumption DEF Some
<1>4. Front(k) = m \o w  BY DEF Front
<1> HIDE DEF x, y
<1>5. /\ m \in Seq(Reqs) /\ Elems(m) = Elems(x) \cup Elems(y)
      /\ \A a, b : Before(m, a, b) <=>
            Before(x, a, b) \/ Before(y, a, b) \/ (a \in Elems(x) /\ b \in Elems(y))
  BY <1>2, <1>3, ConcatBefore
<1> HIDE DEF m, w
<1>6. /\ Elems(m \o w) = Elems(m) \cup Elems(w)
      /\ \A a, b : Before(m \o w, a, b) <=>
            Before(m, a, b) \/ Before(w, a, b) \/ (a \in Elems(m) /\ b \in Elems(w))
  BY <1>1, <1>5, ConcatBefore
<1>7. \A a, b : Before(m, a, b) <=> a = k.msg /\ b = k.sib /\ k.msg # NoReq /\ k.sib # NoReq
  BY <1>2, <1>3, <1>5
<1>8. Elems(m) = {k.msg, k.sib} \ {NoReq}  BY <1>2, <1>3, <1>5
<1> QED  BY <1>1, <1>4, <1>5, <1>6, <1>7, <1>8 DEF m, w, x, y

\* The connection d is k with less in flight.
Shorter(d, k) ==
    /\ Elems(Flight(d)) \subseteq Elems(Flight(k))
    /\ \A a, b \in Reqs : Before(Flight(d), a, b) => Before(Flight(k), a, b)
    /\ \A a, b \in Reqs : Before(d.fwd_queue, a, b) /\ b \in Elems(Front(d)) => a \in Elems(Front(d))
    /\ d.phase \in {"finish", "up"} => Elems(Flight(k)) \subseteq Elems(Flight(d))

\* Only the socket's state and the flag of an upgrade are changed.
LEMMA SockStep ==
    ASSUME NEW k \in ConnType, ConnInv(k, nips), NEW d \in ConnType,
           SameList(d, k), SamePtr(d, k), d.resend = k.resend, d.qforwd = k.qforwd,
           k.phase \notin {"dead", "init"}, d.phase \notin {"dead", "init"},
           d.phase \in {"finish", "up"} => k.phase \in {"finish", "up"},
           d.phase \in Active \cup {"stolen"} /\ Probing(d) => ~d.unsched,
           SockInv(d), Shorter(d, k)
    PROVE  ConnInv(d, nips)
<1>1. Probing(d) <=> Probing(k)  BY DEF Probing
<1>2. /\ d.fwd_queue = k.fwd_queue /\ d.last = k.last /\ d.curr = k.curr
      /\ ListInv(k, nips) /\ PtrInv(k) /\ FlightInv(k) /\ NipInv(k, nips) /\ RetryInv(k, nips)
  BY DEF SameList, SamePtr, ConnInv, BaseInv
<1>3. ListInv(d, nips)  BY <1>2 DEF SameList, ListInv
<1>4. PtrInv(d)  BY <1>1, <1>2 DEF PtrInv
<1>5. FlightInv(d)
  <2>1. \A a, b \in Reqs : Before(Flight(d), a, b) => Before(d.fwd_queue, a, b)
    BY <1>2 DEF FlightInv, Shorter
  <2>2. Elems(Flight(d)) \subseteq UpTo(d.fwd_queue, d.curr)
    BY <1>2 DEF FlightInv, Shorter
  <2>3. d.phase \in {"finish", "up"} => UpTo(d.fwd_queue, d.curr) \subseteq Elems(Flight(d))
    BY <1>2 DEF FlightInv, Shorter
  <2> QED  BY <2>1, <2>2, <2>3 DEF FlightInv, Shorter
<1>6. NipInv(d, nips) /\ RetryInv(d, nips)  BY <1>1, <1>2 DEF NipInv, RetryInv
<1> QED  BY <1>3, <1>4, <1>5, <1>6 DEF ConnInv, BaseInv

\* A flight with the same front and no more to send.
LEMMA SameFront ==
    ASSUME NEW k \in ConnType, ConnInv(k, nips), NEW d \in ConnType, d.fwd_queue = k.fwd_queue,
           Elems(Front(d)) = Elems(Front(k)),
           \A a, b : Before(Front(d), a, b) => Before(Front(k), a, b),
           d.tx = k.tx \/ (d.tx = <<>> /\ d.phase \notin {"finish", "up"})
    PROVE  Shorter(d, k)
<1>1. FlightInv(k)  BY DEF ConnInv, BaseInv
<1>2. /\ Elems(Flight(k)) = Elems(Front(k)) \cup Elems(k.tx)
      /\ \A a, b : Before(Flight(k), a, b) <=>
            \/ Before(Front(k), a, b) \/ Before(k.tx, a, b)
            \/ a \in Elems(Front(k)) /\ b \in Elems(k.tx)
  BY FlightFacts
<1>3. /\ Elems(Flight(d)) = Elems(Front(d)) \cup Elems(d.tx)
      /\ \A a, b : Before(Flight(d), a, b) <=>
            \/ Before(Front(d), a, b) \/ Before(d.tx, a, b)
            \/ a \in Elems(Front(d)) /\ b \in Elems(d.tx)
  BY FlightFacts
<1>4. \A a, b \in Reqs : Before(k.fwd_queue, a, b) /\ b \in Elems(Front(k)) => a \in Elems(Front(k))
  BY <1>1 DEF FlightInv
<1>5. CASE d.tx = k.tx
  BY <1>2, <1>3, <1>4, <1>5 DEF Shorter
<1>6. CASE d.tx = <<>> /\ d.phase \notin {"finish", "up"}
  <2>1. Elems(d.tx) = {} /\ \A a, b : ~Before(d.tx, a, b)  BY <1>6, NoElem
  <2> QED  BY <1>2, <1>3, <1>4, <1>6, <2>1 DEF Shorter
<1> QED  BY <1>5, <1>6

\* tfw_http_on_tcp_entail_req(): the request is put into TCP.
LEMMA TransmitInv ==
    ASSUME NEW k \in ConnType, ConnInv(k, nips), k.tx # <<>>, k.phase \in Active
    PROVE  LET d == Transmit([k EXCEPT !.tx = Tail(@)], k.tx[1])
           IN  /\ d \in ConnType /\ ConnInv(d, nips)
               /\ SameList(d, k) /\ SamePtr(d, k) /\ SameFlags(d, k)
<1> DEFINE r == k.tx[1]
           t == Tail(k.tx)
           w == IF k.phase = "up" THEN Append(k.wire, r) ELSE k.wire
           d == Transmit([k EXCEPT !.tx = Tail(@)], k.tx[1])
           q == k.fwd_queue
<1>1. /\ k.tx \in Seq(Reqs) /\ k.wire \in Seq(Reqs) /\ q \in Seq(Reqs) /\ NoDup(q)
      /\ FlightInv(k) /\ SockInv(k) /\ PtrInv(k)
  BY DEF ConnType, ConnInv, BaseInv, ListInv
<1>2. /\ r \in Reqs /\ t \in Seq(Reqs) /\ Elems(k.tx) = {r} \cup Elems(t)
      /\ \A a, b : Before(k.tx, a, b) <=> Before(t, a, b) \/ (a = r /\ b \in Elems(t))
  BY <1>1, TailBefore
<1>3. d = [k EXCEPT !.tx = t, !.wire = w]  BY DEF Transmit, ConnType
<1>4. w \in Seq(Reqs)  BY <1>1, <1>2, AppendBefore
<1>5. /\ k.phase = "up" =>
           /\ Elems(w) = Elems(k.wire) \cup {r}
           /\ \A a, b : Before(w, a, b) <=> Before(k.wire, a, b) \/ (a \in Elems(k.wire) /\ b = r)
      /\ k.phase # "up" => w = k.wire
  BY <1>1, <1>2, AppendBefore
<1> HIDE DEF d, w, r, t
<1>6. /\ d \in ConnType /\ SameList(d, k) /\ SamePtr(d, k) /\ SameFlags(d, k)
      /\ d.tx = t /\ d.wire = w /\ d.msg = k.msg /\ d.sib = k.sib
  BY <1>2, <1>3, <1>4 DEF ConnType, SameList, SamePtr, SameFlags
<1> DEFINE m == Some(k.msg) \o Some(k.sib)
<1>7. /\ Elems(Front(k)) = Elems(m) \cup Elems(k.wire)
      /\ \A a, b : Before(Front(k), a, b) <=>
            Before(m, a, b) \/ Before(k.wire, a, b) \/ (a \in Elems(m) /\ b \in Elems(k.wire))
  BY FrontFacts
<1>8. /\ Elems(Front(d)) = Elems(m) \cup Elems(w)
      /\ \A a, b : Before(Front(d), a, b) <=>
            Before(m, a, b) \/ Before(w, a, b) \/ (a \in Elems(m) /\ b \in Elems(w))
  BY <1>6, FrontFacts
<1> HIDE DEF m
<1>9. /\ Elems(Flight(k)) = Elems(Front(k)) \cup Elems(k.tx)
      /\ \A a, b : Before(Flight(k), a, b) <=>
            \/ Before(Front(k), a, b) \/ Before(k.tx, a, b)
            \/ a \in Elems(Front(k)) /\ b \in Elems(k.tx)
  BY FlightFacts
<1>10. /\ Elems(Flight(d)) = Elems(Front(d)) \cup Elems(t)
       /\ \A a, b : Before(Flight(d), a, b) <=>
             \/ Before(Front(d), a, b) \/ Before(t, a, b)
             \/ a \in Elems(Front(d)) /\ b \in Elems(t)
  BY <1>6, FlightFacts
<1>11. /\ d.fwd_queue = q /\ d.phase = k.phase /\ d.resend = k.resend /\ d.qforwd = k.qforwd
       /\ d.unsched = k.unsched
  BY <1>6 DEF SameList, SameFlags
<1>12. Shorter(d, k)
  <2>1. CASE k.phase = "up"
    <3>1. /\ Elems(Front(d)) = Elems(Front(k)) \cup {r}
          /\ \A a, b : Before(Front(d), a, b) <=>
                Before(Front(k), a, b) \/ (a \in Elems(Front(k)) /\ b = r)
      BY <2>1, <1>5, <1>7, <1>8
    <3>2. Elems(Flight(d)) = Elems(Flight(k))  BY <3>1, <1>2, <1>9, <1>10
    <3>3. \A a, b : Before(Flight(d), a, b) => Before(Flight(k), a, b)
      BY <3>1, <1>2, <1>9, <1>10
    <3>4. ASSUME NEW a \in Reqs, NEW b \in Reqs, Before(q, a, b), b \in Elems(Front(d))
          PROVE  a \in Elems(Front(d))
      <4>1. CASE b \in Elems(Front(k))
        BY <3>1, <3>4, <4>1, <1>1 DEF FlightInv
      <4>2. CASE b = r
        <5>1. r \in UpTo(q, k.curr)  BY <1>1, <1>2, <1>9 DEF FlightInv
        <5>2. a \in UpTo(q, k.curr)  BY <5>1, <4>2, <3>4, <1>1, UpToFacts
        <5>3. a \in Elems(Flight(k))  BY <5>2, <2>1, <1>1 DEF FlightInv
        <5>4. a \in Elems(t) => Before(q, r, a)  BY <1>1, <1>2, <1>9 DEF FlightInv
        <5>5. ~Before(q, r, a) \/ ~Before(q, a, r)  BY <1>1, BeforeOrder
        <5> QED  BY <3>1, <3>4, <4>2, <5>3, <5>4, <5>5, <1>2, <1>9
      <4> QED  BY <4>1, <4>2, <3>1, <3>4
    <3> QED  BY <3>2, <3>3, <3>4, <1>11 DEF Shorter
  <2>2. CASE k.phase # "up"
    <3>1. /\ Elems(Front(d)) = Elems(Front(k))
          /\ \A a, b : Before(Front(d), a, b) <=> Before(Front(k), a, b)
      BY <2>2, <1>5, <1>7, <1>8
    <3>2. Elems(Flight(d)) \subseteq Elems(Flight(k))  BY <3>1, <1>2, <1>9, <1>10
    <3>3. \A a, b : Before(Flight(d), a, b) => Before(Flight(k), a, b)
      BY <3>1, <1>2, <1>9, <1>10
    <3>4. \A a, b \in Reqs : Before(q, a, b) /\ b \in Elems(Front(d)) => a \in Elems(Front(d))
      BY <3>1, <1>1 DEF FlightInv
    <3>5. d.phase \notin {"finish", "up"}  BY <2>2, <1>11 DEF Active
    <3> QED  BY <3>2, <3>3, <3>4, <3>5, <1>11 DEF Shorter
  <2> QED  BY <2>1, <2>2
<1>13. SockInv(d)
  <2>1. d.phase \in {"closing", "stopped"} => d.wire = <<>>
    BY <1>1, <1>5, <1>6, <1>11 DEF SockInv
  <2>2. d.phase \in Active /\ (d.msg = NoReq => d.sib = NoReq)  BY <1>1, <1>6, <1>11 DEF SockInv
  <2> QED  BY <2>1, <2>2 DEF SockInv, Active
<1>14. d.phase \in Active \cup {"stolen"} /\ Probing(d) => ~d.unsched
  BY <1>1, <1>11 DEF PtrInv, Probing
<1>15. k.phase \notin {"dead", "init"}  BY DEF Active
<1>16. ConnInv(d, nips)  BY <1>6, <1>11, <1>12, <1>13, <1>14, <1>15, SockStep
<1> QED  BY <1>6, <1>16 DEF d

\* tfw_http_on_tcp_entail_req(): the request of a client that is gone is dropped.
LEMMA EntailDropGood ==
    ASSUME NEW k \in ConnType, ConnInv(k, nips), k.tx # <<>>, k.phase \in Active
    PROVE  LET r == k.tx[1]
               t == [k EXCEPT !.tx = Tail(@)]
               u == Section([Delist(t, {r}, {}) EXCEPT
                              !.last = IF @ = r THEN MsgSentPrev(k, r) ELSE @,
                              !.curr = IF @ = r THEN MsgSentPrev(k, r) ELSE @],
                            {r}, {}, {}, "ok", "none")
           IN  Good(k, u) /\ ConnInv(u.k, nips) /\ u.bug = "none"
<1> DEFINE q == k.fwd_queue
           r == k.tx[1]
           R == {r}
           x == Tail(k.tx)
           t == [k EXCEPT !.tx = x]
           d == Delist(t, R, {})
           y == IF k.last = r THEN MsgSentPrev(k, r) ELSE k.last
           z == IF k.curr = r THEN MsgSentPrev(k, r) ELSE k.curr
           e == [d EXCEPT !.last = y, !.curr = z]
           u == Section(e, R, {}, {}, "ok", "none")
<1>1. /\ k.tx \in Seq(Reqs) /\ q \in Seq(Reqs) /\ NoDup(q) /\ ListInv(k, nips)
      /\ FlightInv(k) /\ SockInv(k) /\ PtrInv(k) /\ BaseInv(k, nips) /\ RetryInv(k, nips)
      /\ k.last \in Elems(q) \cup {NoReq}
  BY DEF ConnType, ConnInv, BaseInv, ListInv, PtrInv
<1>2. k.curr \in Elems(q) \cup {NoReq}  BY <1>1 DEF PtrInv, UpTo
<1>3. /\ r \in Reqs /\ x \in Seq(Reqs) /\ Elems(k.tx) = {r} \cup Elems(x)
      /\ \A a, b : Before(k.tx, a, b) <=> Before(x, a, b) \/ (a = r /\ b \in Elems(x))
  BY <1>1, TailBefore
<1>4. /\ Elems(Flight(k)) = Elems(Front(k)) \cup Elems(k.tx)
      /\ \A a, b : Before(Flight(k), a, b) <=>
            \/ Before(Front(k), a, b) \/ Before(k.tx, a, b)
            \/ a \in Elems(Front(k)) /\ b \in Elems(k.tx)
  BY FlightFacts
<1>5. r \in Elems(q)  BY <1>1, <1>3, <1>4 DEF FlightInv, UpTo
<1>6. r \notin Elems(Front(k)) /\ r \notin Elems(x)
  <2>1. ~Before(q, r, r)  BY <1>1, BeforeOrder
  <2>2. ~Before(Flight(k), r, r)  BY <2>1, <1>1, <1>3 DEF FlightInv
  <2> QED  BY <2>2, <1>3, <1>4
<1>7. Moved(y, k.last, q, R) /\ Moved(z, k.curr, q, R)  BY <1>1, <1>2, <1>5, MovedPrev
<1>8. k.curr = k.last => z = y  OBVIOUS
<1> HIDE DEF x, y, z
<1>9. t \in ConnType /\ SameList(t, k) /\ SamePtr(t, k) /\ SameFlags(t, k) /\ t.tx = x
      /\ t.wire = k.wire /\ t.msg = k.msg /\ t.sib = k.sib
  BY <1>3 DEF ConnType, SameList, SamePtr, SameFlags
<1> HIDE DEF t, r
<1>10. t.fwd_queue = q /\ ListInv(t, nips)  BY <1>1, <1>9 DEF SameList, ListInv
<1>11. R \in SUBSET Elems(t.fwd_queue) /\ {} \in SUBSET Reqs /\ {} \cap nips = {}  BY <1>5, <1>10
<1>12. d \in ConnType /\ SamePtr(d, t) /\ SameFlags(d, t) /\ SameSock(d, t)
  BY <1>9, <1>11, DelistFields
<1>13. ListInv(d, nips) /\ Without(d.fwd_queue, q, R)  BY <1>9, <1>10, <1>11, DelistList
<1>14. u = Section([d EXCEPT !.last = IF d.last = r THEN MsgSentPrev(k, r) ELSE d.last,
                             !.curr = IF d.curr = r THEN MsgSentPrev(k, r) ELSE d.curr],
                   R, {}, {}, "ok", "none")
  <2>1. d.last = k.last /\ d.curr = k.curr  BY <1>9, <1>12 DEF SamePtr
  <2> QED  BY <2>1 DEF y, z
<1> HIDE DEF d
<1>15. /\ e \in ConnType /\ e.last = y /\ e.curr = z /\ SameList(e, d) /\ SameFlags(e, d)
       /\ SameSock(e, d)
  <2>1. y \in ReqOrNone /\ z \in ReqOrNone
    BY <1>1, <1>7, BeforeElems DEF Moved, ReqOrNone
  <2> QED  BY <2>1, <1>12 DEF ConnType, SameList, SameFlags, SameSock
<1> HIDE DEF e
<1>16. /\ e.resend = k.resend /\ e.qforwd = k.qforwd /\ e.unsched = k.unsched /\ e.phase = k.phase
       /\ e.tx = x /\ e.wire = k.wire /\ e.msg = k.msg /\ e.sib = k.sib
  BY <1>9, <1>12, <1>15 DEF SameFlags, SameSock
<1>17. ListInv(e, nips) /\ Without(e.fwd_queue, q, R)  BY <1>13, <1>15 DEF SameList, ListInv
<1>18. Front(e) = Front(k)  BY <1>16 DEF Front
<1>19. /\ Elems(Flight(e)) = Elems(Front(k)) \cup Elems(x)
       /\ \A a, b : Before(Flight(e), a, b) <=>
             \/ Before(Front(k), a, b) \/ Before(x, a, b)
             \/ a \in Elems(Front(k)) /\ b \in Elems(x)
  BY <1>15, <1>16, <1>18, FlightFacts
<1>20. Fewer(e, k, R)
  <2>1. Elems(Flight(e)) = Elems(Flight(k)) \ R  BY <1>3, <1>4, <1>6, <1>19
  <2>2. \A a, b : Before(Flight(e), a, b) => Before(Flight(k), a, b)  BY <1>3, <1>4, <1>19
  <2>3. Elems(Front(e)) = Elems(Front(k)) \ R  BY <1>6, <1>18
  <2> QED  BY <2>1, <2>2, <2>3 DEF Fewer
<1>21. SockInv(e)  BY <1>1, <1>16, <1>18 DEF SockInv, Active
<1>22. /\ BaseInv(e, nips) /\ RetryInv(e, nips)
       /\ UpTo(e.fwd_queue, e.last) = UpTo(q, k.last) \ R
  <2>1. R \in SUBSET Elems(k.fwd_queue) /\ Without(e.fwd_queue, k.fwd_queue, R)  BY <1>5, <1>17
  <2>2. Moved(e.last, k.last, k.fwd_queue, R) /\ Moved(e.curr, k.curr, k.fwd_queue, R)
    BY <1>7, <1>15
  <2>3. k.curr = k.last => e.curr = e.last  BY <1>8, <1>15
  <2> HIDE DEF R
  <2> QED  BY <1>1, <1>15, <1>16, <1>17, <1>20, <1>21, <2>1, <2>2, <2>3, ShrinkInv
<1>23. /\ u.k = e /\ u.gone = R /\ u.cut = {} /\ u.tried = {} /\ u.sent = {} /\ u.bug = "none"
       /\ IsSection(u)
  BY DEF Section, IsSection
<1> HIDE DEF u
<1>24. Elems(e.fwd_queue) = Elems(q) \ R  BY <1>17 DEF Without
<1>25. Good(k, u)
  <2>1. Once(k, u)  BY <1>22, <1>23 DEF Once
  <2> QED  BY <1>5, <1>15, <1>16, <1>23, <1>24, <2>1 DEF Good
<1>26. Good(k, u) /\ ConnInv(u.k, nips) /\ u.bug = "none"  BY <1>22, <1>23, <1>25 DEF ConnInv
<1> QED  BY <1>14, <1>26 DEF d, t, x, r

\* tfw_http_resp_pair() finds the request that the backend answers.
LEMMA RespPairRight ==
    ASSUME NEW k \in ConnType, ConnInv(k, nips), k.wire # <<>>, k.sib = NoReq
    PROVE  RespPair(k) = k.wire[1] /\ k.wire[1] \in Reqs
<1> DEFINE q == k.fwd_queue
           w == k.wire[1]
           x == Tail(k.wire)
           S == {i \in DOMAIN q : /\ q[i] \notin {k.msg, k.sib}
                                  /\ \A j \in 1..(i - 1) : q[j] # k.curr}
<1>1. /\ k.wire \in Seq(Reqs) /\ q \in Seq(Reqs) /\ NoDup(q) /\ FlightInv(k)
  BY DEF ConnType, ConnInv, BaseInv, ListInv
<1>2. /\ w \in Reqs /\ Elems(k.wire) = {w} \cup Elems(x)
      /\ \A a, b : Before(k.wire, a, b) <=> Before(x, a, b) \/ (a = w /\ b \in Elems(x))
  BY <1>1, TailBefore
<1> HIDE DEF w, x
<1> DEFINE m == Some(k.msg) \o Some(k.sib)
<1>3. /\ Elems(Front(k)) = Elems(m) \cup Elems(k.wire)
      /\ Elems(m) = {k.msg, k.sib} \ {NoReq}
      /\ \A a, b : Before(Front(k), a, b) <=>
            Before(m, a, b) \/ Before(k.wire, a, b) \/ (a \in Elems(m) /\ b \in Elems(k.wire))
  BY FrontFacts
<1> HIDE DEF m
<1>4. /\ Elems(Front(k)) \subseteq Elems(Flight(k))
      /\ \A a, b : Before(Front(k), a, b) => Before(Flight(k), a, b)
  BY FlightFacts
<1>5. /\ w \in UpTo(q, k.curr)
      /\ \A a, b \in Reqs : Before(Front(k), a, b) => Before(q, a, b)
      /\ \A a, b \in Reqs : Before(q, a, b) /\ b \in Elems(Front(k)) => a \in Elems(Front(k))
  BY <1>1, <1>2, <1>3, <1>4 DEF FlightInv
<1>6. /\ \A a, b : ~(Before(q, a, b) /\ Before(q, b, a)) /\ ~Before(q, a, a)
      /\ Elems(q) \subseteq Reqs
  BY <1>1, BeforeOrder, BeforeElems
<1>7. k.curr # NoReq  BY <1>1, <1>5, UpToFacts
<1>8. w # k.msg /\ w # NoReq
  <2>1. k.msg = w => k.msg \in Elems(m)  BY <1>2, <1>3, ReqsAssumption
  <2>2. k.msg = w => Before(Front(k), w, w)  BY <2>1, <1>2, <1>3
  <2> QED  BY <2>2, <1>2, <1>5, <1>6, ReqsAssumption
<1>9. PICK i \in DOMAIN q : q[i] = w  BY <1>5 DEF UpTo, Elems
<1>10. DOMAIN q = 1..Len(q) /\ Len(q) \in Nat  BY <1>1
<1>11. i \in S
  <2>1. q[i] \notin {k.msg, k.sib}  BY <1>8, <1>9
  <2>2. ASSUME NEW j \in 1..(i - 1), q[j] = k.curr PROVE FALSE
    <3>1. j \in DOMAIN q /\ j < i  BY <1>9, <1>10
    <3>2. Before(q, k.curr, w)  BY <2>2, <3>1, <1>9 DEF Before
    <3>3. w = k.curr \/ Before(q, w, k.curr)  BY <1>5 DEF UpTo
    <3> QED  BY <3>2, <3>3, <1>6
  <2> QED  BY <2>1, <2>2, <1>9
<1>12. ASSUME NEW j \in S PROVE i <= j
  <2> SUFFICES ASSUME j < i PROVE FALSE
    BY <1>9, <1>10
  <2>1. Before(q, q[j], w)  BY <1>9 DEF Before
  <2>2. q[j] \in Elems(q)  BY DEF Elems
  <2>3. q[j] \in Elems(Front(k))  BY <2>1, <2>2, <1>2, <1>3, <1>5, <1>6
  <2>4. q[j] \notin Elems(m)  BY <1>3
  <2>5. q[j] # w  BY <2>1, <1>6
  <2>6. q[j] \in Elems(x)  BY <2>3, <2>4, <2>5, <1>2, <1>3
  <2>7. Before(q, w, q[j])  BY <2>2, <2>6, <1>2, <1>3, <1>5, <1>6
  <2> QED  BY <2>1, <2>7, <1>6
<1>13. (CHOOSE j \in S : \A n \in S : j <= n) = i
  <2> DEFINE g == CHOOSE j \in S : \A n \in S : j <= n
  <2>1. g \in S /\ \A n \in S : g <= n  BY <1>11, <1>12
  <2>2. g \in Nat /\ i \in Nat  BY <2>1, <1>9, <1>10
  <2> HIDE DEF g
  <2>3. g <= i /\ i <= g  BY <2>1, <1>11, <1>12
  <2>4. g = i  BY <2>2, <2>3
  <2> QED  BY <2>4 DEF g
<1>14. RespPair(k) = q[CHOOSE j \in S : \A n \in S : j <= n]
  <2>1. S # {}  BY <1>11
  <2> QED  BY <2>1, <1>7 DEF RespPair
<1> QED  BY <1>2, <1>9, <1>13, <1>14 DEF w

\* The response is paired: what was first on the wire is being received.
LEMMA PairedInv ==
    ASSUME NEW k \in ConnType, ConnInv(k, nips), k.phase \in {"up", "closed"}, k.wire # <<>>,
           k.sib = NoReq, NEW d \in ConnType,
           SameList(d, k), SamePtr(d, k), SameFlags(d, k), d.tx = k.tx, d.wire = Tail(k.wire),
           \/ k.msg = NoReq /\ d.msg = k.wire[1] /\ d.sib = NoReq
           \/ k.msg # NoReq /\ d.msg = k.msg /\ d.sib = k.wire[1]
    PROVE  ConnInv(d, nips)
<1> DEFINE w == k.wire[1]
           x == Tail(k.wire)
<1>1. k.wire \in Seq(Reqs) /\ SockInv(k) /\ PtrInv(k)  BY DEF ConnType, ConnInv, BaseInv
<1>2. /\ w \in Reqs /\ Elems(k.wire) = {w} \cup Elems(x)
      /\ \A a, b : Before(k.wire, a, b) <=> Before(x, a, b) \/ (a = w /\ b \in Elems(x))
  BY <1>1, TailBefore
<1> HIDE DEF w, x
<1>3. w # NoReq /\ d.wire = x
      /\ \/ k.msg = NoReq /\ d.msg = w /\ d.sib = NoReq
         \/ k.msg # NoReq /\ d.msg = k.msg /\ d.sib = w
  BY <1>2, ReqsAssumption DEF w, x
<1> DEFINE m == Some(k.msg) \o Some(k.sib)
           n == Some(d.msg) \o Some(d.sib)
<1>4. /\ Elems(Front(k)) = Elems(m) \cup Elems(k.wire)
      /\ Elems(m) = {k.msg, k.sib} \ {NoReq}
      /\ \A a, b : Before(Front(k), a, b) <=>
            Before(m, a, b) \/ Before(k.wire, a, b) \/ (a \in Elems(m) /\ b \in Elems(k.wire))
  BY FrontFacts
<1>5. /\ Elems(Front(d)) = Elems(n) \cup Elems(x)
      /\ Elems(n) = {d.msg, d.sib} \ {NoReq}
      /\ \A a, b : Before(Front(d), a, b) <=>
            Before(n, a, b) \/ Before(x, a, b) \/ (a \in Elems(n) /\ b \in Elems(x))
      /\ \A a, b : Before(n, a, b) <=> a = d.msg /\ b = d.sib /\ d.msg # NoReq /\ d.sib # NoReq
  BY <1>3, FrontFacts
<1> HIDE DEF m, n
<1>6. Elems(Front(d)) = Elems(Front(k))  BY <1>2, <1>3, <1>4, <1>5
<1>7. \A a, b : Before(Front(d), a, b) => Before(Front(k), a, b)
  BY <1>2, <1>3, <1>4, <1>5
<1>8. /\ d.fwd_queue = k.fwd_queue /\ d.phase = k.phase /\ d.resend = k.resend
      /\ d.qforwd = k.qforwd /\ d.unsched = k.unsched
  BY DEF SameList, SameFlags
<1>9. Shorter(d, k)  BY <1>6, <1>7, <1>8, SameFront
<1>10. SockInv(d)  BY <1>1, <1>3, <1>8 DEF SockInv
<1>11. d.phase \in Active \cup {"stolen"} /\ Probing(d) => ~d.unsched
  BY <1>1, <1>8 DEF PtrInv, Probing
<1> QED  BY <1>8, <1>9, <1>10, <1>11, SockStep

\* ss_tcp_data_ready() after an error: what is received later is dropped.
LEMMA StopInv ==
    ASSUME NEW k \in ConnType, ConnInv(k, nips), k.phase \in {"up", "closed"}, NEW d \in ConnType,
           SameList(d, k), SamePtr(d, k), d.resend = k.resend, d.qforwd = k.qforwd,
           d.unsched => k.unsched, d.tx = k.tx, d.wire = <<>>,
           d.msg \in {NoReq, k.msg}, d.sib = NoReq,
           IF k.phase = "up" THEN d.phase \in {"closing", "stopped"} ELSE d.phase = k.phase
    PROVE  ConnInv(d, nips)
<1>1. /\ SockInv(k) /\ PtrInv(k) /\ d.fwd_queue = k.fwd_queue
      /\ k.fwd_queue \in Seq(Reqs) /\ NoDup(k.fwd_queue)
  BY DEF ConnType, ConnInv, BaseInv, ListInv, SameList
<1> DEFINE m == Some(k.msg) \o Some(k.sib)
           n == Some(d.msg) \o Some(d.sib)
<1>2. Elems(Front(k)) = Elems(m) \cup Elems(k.wire) /\ Elems(m) = {k.msg, k.sib} \ {NoReq}
  BY FrontFacts
<1>3. /\ Elems(Front(d)) = Elems(n) \cup Elems(d.wire)
      /\ Elems(n) = {d.msg, d.sib} \ {NoReq}
      /\ \A a, b : Before(Front(d), a, b) <=>
            Before(n, a, b) \/ Before(d.wire, a, b) \/ (a \in Elems(n) /\ b \in Elems(d.wire))
      /\ \A a, b : Before(n, a, b) <=> a = d.msg /\ b = d.sib /\ d.msg # NoReq /\ d.sib # NoReq
  BY FrontFacts
<1> HIDE DEF m, n
<1>4. Elems(d.wire) = {} /\ \A a, b : ~Before(d.wire, a, b)  BY NoElem
<1>5. /\ Elems(Front(d)) = {d.msg} \ {NoReq} /\ \A a, b : ~Before(Front(d), a, b)
  BY <1>3, <1>4
<1>6. Elems(Front(d)) \subseteq Elems(Front(k))  BY <1>2, <1>5
<1>7. /\ Elems(Flight(k)) = Elems(Front(k)) \cup Elems(k.tx)
      /\ \A a, b : Before(Flight(k), a, b) <=>
            \/ Before(Front(k), a, b) \/ Before(k.tx, a, b)
            \/ a \in Elems(Front(k)) /\ b \in Elems(k.tx)
  BY FlightFacts
<1>8. /\ Elems(Flight(d)) = Elems(Front(d)) \cup Elems(k.tx)
      /\ \A a, b : Before(Flight(d), a, b) <=>
            \/ Before(Front(d), a, b) \/ Before(k.tx, a, b)
            \/ a \in Elems(Front(d)) /\ b \in Elems(k.tx)
  BY FlightFacts
<1>9. d.phase \notin {"finish", "up", "dead", "init"}  OBVIOUS
<1>10. ASSUME NEW a \in Reqs, NEW b \in Reqs, Before(d.fwd_queue, a, b), b \in Elems(Front(d))
       PROVE  a \in Elems(Front(d))
  <2>1. b = k.msg /\ k.msg # NoReq  BY <1>5, <1>10
  <2>2. UpTo(k.fwd_queue, k.msg) = {k.msg}  BY <2>1, MsgFirst
  <2>3. a \in Elems(k.fwd_queue)  BY <1>1, <1>10, BeforeElems
  <2>4. a = b  BY <1>1, <1>10, <2>1, <2>2, <2>3 DEF UpTo
  <2> QED  BY <2>4, <1>10
<1>11. Shorter(d, k)
  <2>1. Elems(Flight(d)) \subseteq Elems(Flight(k))  BY <1>6, <1>7, <1>8
  <2>2. \A a, b : Before(Flight(d), a, b) => Before(Flight(k), a, b)  BY <1>5, <1>6, <1>7, <1>8
  <2> QED  BY <2>1, <2>2, <1>9, <1>10 DEF Shorter
<1>12. SockInv(d)
  <2>1. d.phase = "closed" => d.tx = <<>>  BY <1>1 DEF SockInv
  <2>2. d.phase \in {"closed", "closing", "stopped"}  OBVIOUS
  <2> QED  BY <2>1, <2>2 DEF SockInv
<1>13. d.phase \in Active \cup {"stolen"} /\ Probing(d) => ~d.unsched
  <2>1. d.phase \in Active \cup {"stolen"} => k.phase \in Active  BY DEF Active
  <2> QED  BY <2>1, <1>1 DEF PtrInv, Probing
<1> QED  BY <1>9, <1>11, <1>12, <1>13, SockStep

\* The socket was closed: what it did not send is lost.
LEMMA CloseInv ==
    ASSUME NEW k \in ConnType, ConnInv(k, nips), k.phase \in Active
    PROVE  LET d == [k EXCEPT !.phase = "closed", !.tx = <<>>]
           IN  /\ d \in ConnType /\ ConnInv(d, nips) /\ SameList(d, k) /\ SamePtr(d, k)
               /\ d.resend = k.resend /\ d.phase = "closed"
<1> DEFINE d == [k EXCEPT !.phase = "closed", !.tx = <<>>]
<1>1. /\ d \in ConnType /\ SameList(d, k) /\ SamePtr(d, k) /\ d.resend = k.resend
      /\ d.qforwd = k.qforwd /\ d.unsched = k.unsched /\ d.phase = "closed" /\ d.tx = <<>>
      /\ d.wire = k.wire /\ d.msg = k.msg /\ d.sib = k.sib
  <2>1. <<>> \in Seq(Reqs)  BY NoElem
  <2> QED  BY <2>1 DEF ConnType, Phases, SameList, SamePtr
<1> HIDE DEF d
<1>2. SockInv(k)  BY DEF ConnInv, BaseInv
<1>3. Front(d) = Front(k) /\ d.fwd_queue = k.fwd_queue  BY <1>1 DEF Front, SameList
<1>4. Shorter(d, k)  BY <1>1, <1>3, SameFront
<1>5. SockInv(d)  BY <1>1, <1>2 DEF SockInv
<1>6. d.phase \notin Active \cup {"stolen"} /\ k.phase \notin {"dead", "init"}
  BY <1>1 DEF Active
<1>7. ConnInv(d, nips)  BY <1>1, <1>4, <1>5, <1>6, SockStep
<1> QED  BY <1>1, <1>7 DEF d

\* tfw_http_conn_drop(): the response that is being received is freed.
LEMMA DropInv ==
    ASSUME NEW k \in ConnType, ConnInv(k, nips), k.phase = "closed", k.sib = NoReq
    PROVE  LET d == [k EXCEPT !.phase = "dropped", !.msg = NoReq, !.wire = <<>>]
           IN  /\ d \in ConnType /\ ConnInv(d, nips) /\ SameList(d, k) /\ SamePtr(d, k)
               /\ d.resend = k.resend /\ d.qforwd = k.qforwd /\ d.unsched = k.unsched
               /\ d.phase = "dropped" /\ d.msg = NoReq /\ d.sib = NoReq /\ d.wire = <<>>
               /\ d.tx = <<>>
<1> DEFINE d == [k EXCEPT !.phase = "dropped", !.msg = NoReq, !.wire = <<>>]
<1>0. SockInv(k)  BY DEF ConnInv, BaseInv
<1>1. /\ d \in ConnType /\ SameList(d, k) /\ SamePtr(d, k) /\ d.resend = k.resend
      /\ d.qforwd = k.qforwd /\ d.unsched = k.unsched /\ d.phase = "dropped" /\ d.tx = k.tx
      /\ d.wire = <<>> /\ d.msg = NoReq /\ d.sib = NoReq
  <2>1. <<>> \in Seq(Reqs) /\ NoReq \in ReqOrNone  BY NoElem DEF ReqOrNone
  <2> QED  BY <2>1 DEF ConnType, Phases, SameList, SamePtr
<1> HIDE DEF d
<1>2. d.tx = <<>>  BY <1>0, <1>1 DEF SockInv
<1>3. Front(d) = <<>>  BY <1>1 DEF Front, Some
<1>4. Flight(d) = <<>>  BY <1>2, <1>3 DEF Flight
<1>5. Shorter(d, k)  BY <1>1, <1>3, <1>4, NoElem DEF Shorter
<1>6. SockInv(d)  BY <1>1, <1>3, <1>4 DEF SockInv
<1>7. d.phase \notin Active \cup {"stolen"}  BY <1>1 DEF Active
<1>8. ConnInv(d, nips)  BY <1>1, <1>5, <1>6, <1>7, SockStep
<1> QED  BY <1>1, <1>2, <1>8 DEF d

\* TFW_CONN_B_UNSCHED is cleared.
LEMMA UnschedInv ==
    ASSUME NEW k \in ConnType, ConnInv(k, nips), k.phase \notin {"dead", "init"},
           NEW b \in BOOLEAN, b => k.unsched
    PROVE  LET d == [k EXCEPT !.unsched = b]
           IN  /\ d \in ConnType /\ ConnInv(d, nips) /\ SameList(d, k) /\ SamePtr(d, k)
               /\ d.resend = k.resend /\ d.phase = k.phase
<1> DEFINE d == [k EXCEPT !.unsched = b]
<1>1. /\ d \in ConnType /\ SameList(d, k) /\ SamePtr(d, k) /\ d.resend = k.resend
      /\ d.qforwd = k.qforwd /\ d.unsched = b /\ d.phase = k.phase /\ d.tx = k.tx
      /\ d.wire = k.wire /\ d.msg = k.msg /\ d.sib = k.sib
  BY DEF ConnType, SameList, SamePtr
<1> HIDE DEF d
<1>2. SockInv(k) /\ PtrInv(k)  BY DEF ConnInv, BaseInv
<1>3. Front(d) = Front(k) /\ d.fwd_queue = k.fwd_queue  BY <1>1 DEF Front, SameList
<1>4. Shorter(d, k)  BY <1>1, <1>3, SameFront
<1>5. SockInv(d)  BY <1>1, <1>2, <1>3 DEF SockInv, Flight
<1>6. d.phase \in Active \cup {"stolen"} /\ Probing(d) => ~d.unsched
  BY <1>1, <1>2 DEF PtrInv, Probing
<1>7. ConnInv(d, nips)  BY <1>1, <1>4, <1>5, <1>6, SockStep
<1> QED  BY <1>1, <1>7 DEF d

\* The connection is established and is no websocket.
LEMMA FinishInv ==
    ASSUME NEW k \in ConnType, ConnInv(k, nips), k.phase = "finish"
    PROVE  LET d == [k EXCEPT !.phase = "up", !.recns = 0, !.unsched = FALSE]
           IN  /\ d \in ConnType /\ ConnInv(d, nips) /\ SameList(d, k) /\ SamePtr(d, k)
               /\ d.resend = k.resend /\ d.phase = "up"
<1> DEFINE d == [k EXCEPT !.phase = "up", !.recns = 0, !.unsched = FALSE]
<1>1. /\ d \in ConnType /\ SameList(d, k) /\ SamePtr(d, k) /\ d.resend = k.resend
      /\ d.qforwd = k.qforwd /\ d.unsched = FALSE /\ d.phase = "up" /\ d.tx = k.tx
      /\ d.wire = k.wire /\ d.msg = k.msg /\ d.sib = k.sib
  BY DEF ConnType, Phases, SameList, SamePtr
<1> HIDE DEF d
<1>2. SockInv(k)  BY DEF ConnInv, BaseInv
<1>3. Front(d) = Front(k) /\ d.fwd_queue = k.fwd_queue  BY <1>1 DEF Front, SameList
<1>4. Shorter(d, k)  BY <1>1, <1>3, SameFront
<1>5. SockInv(d)  BY <1>1, <1>2 DEF SockInv
<1>6. ConnInv(d, nips)  BY <1>1, <1>4, <1>5, SockStep
<1> QED  BY <1>1, <1>6 DEF d

\* tfw_http_conn_init()
LEMMA ConnectInv ==
    ASSUME NEW k \in ConnType, ConnInv(k, nips), k.phase = "dead"
    PROVE  LET d == IF k.fwd_queue = <<>> THEN [k EXCEPT !.phase = "finish"]
                    ELSE [k EXCEPT !.phase = "init", !.curr = NoReq, !.resend = TRUE]
           IN  /\ d \in ConnType /\ ConnInv(d, nips) /\ SameList(d, k) /\ d.last = k.last
<1> DEFINE d == IF k.fwd_queue = <<>> THEN [k EXCEPT !.phase = "finish"]
                ELSE [k EXCEPT !.phase = "init", !.curr = NoReq, !.resend = TRUE]
           q == k.fwd_queue
<1>1. /\ q \in Seq(Reqs) /\ NoDup(q) /\ ListInv(k, nips) /\ PtrInv(k) /\ SockInv(k)
      /\ NipInv(k, nips) /\ ~k.resend /\ ~k.qforwd /\ Flight(k) = <<>>
  BY DEF ConnType, ConnInv, BaseInv, ListInv, PtrInv, SockInv
<1>2. /\ d \in ConnType /\ SameList(d, k) /\ d.last = k.last /\ SameSock(d, k)
      /\ d.qforwd = k.qforwd
  BY DEF ConnType, Phases, ReqOrNone, SameList, SameSock
<1>3. /\ q = <<>> => d.phase = "finish" /\ d.curr = k.curr /\ ~d.resend
      /\ q # <<>> => d.phase = "init" /\ d.curr = NoReq /\ d.resend
  BY <1>1 DEF ConnType
<1> HIDE DEF d
<1>4. q = <<>> => k.last = NoReq /\ k.curr = NoReq
  <2>1. q = <<>> => Elems(q) = {}  BY NoElem
  <2> QED  BY <2>1, <1>1 DEF PtrInv, UpTo
<1>5. d.curr = NoReq /\ UpTo(q, NoReq) = {} /\ d.fwd_queue = q
  BY <1>1, <1>2, <1>3, <1>4, UpToFacts DEF SameList
<1>6. Probing(d) <=> d.phase = "init"  BY <1>1, <1>2, <1>3 DEF Probing
<1>7. d.phase \in {"finish", "init"}  BY <1>3
<1>8. ListInv(d, nips)  BY <1>1, <1>2 DEF SameList, ListInv
<1>9. PtrInv(d)
  <2>1. d.phase = "finish" => d.last = NoReq  BY <1>2, <1>3, <1>4
  <2> QED  BY <1>1, <1>2, <1>5, <1>6, <1>7, <2>1 DEF PtrInv, Active
<1>10. Front(d) = Front(k) /\ Flight(d) = <<>>  BY <1>1, <1>2 DEF Front, Flight, SameSock
<1>11. Elems(Front(k)) = {} /\ Front(k) = <<>>
  <2>1. Elems(Flight(k)) = Elems(Front(k)) \cup Elems(k.tx) /\ Front(k) \in Seq(Reqs)
    BY FlightFacts
  <2>2. Elems(Front(k)) = {}  BY <2>1, <1>1, NoElem
  <2> QED  BY <2>1, <2>2, BeforeElems
<1>12. FlightInv(d)  BY <1>5, <1>10, <1>11, NoElem DEF FlightInv
<1>13. SockInv(d)  BY <1>1, <1>2, <1>7, <1>10, <1>11 DEF SockInv, SameSock
<1>14. NipInv(d, nips)  BY <1>1, <1>2, <1>5 DEF NipInv
<1>15. RetryInv(d, nips)  BY <1>6 DEF RetryInv
<1> QED  BY <1>2, <1>8, <1>9, <1>12, <1>13, <1>14, <1>15 DEF ConnInv, BaseInv, d

\* A connection about to be repaired by tfw_http_conn_repair().
LEMMA RepairStart ==
    ASSUME NEW k \in ConnType, ConnInv(k, nips), k.phase = "init"
    PROVE  LET d == [k EXCEPT !.phase = "finish"]
           IN  /\ d \in ConnType /\ BaseInv(d, nips) /\ Probing(d) /\ d.curr = NoReq
               /\ d.phase = "finish" /\ SameList(d, k) /\ d.last = k.last
<1> DEFINE d == [k EXCEPT !.phase = "finish"]
           q == k.fwd_queue
<1>1. /\ q \in Seq(Reqs) /\ NoDup(q) /\ ListInv(k, nips) /\ PtrInv(k) /\ SockInv(k)
      /\ NipInv(k, nips) /\ Probing(k) /\ k.curr = NoReq /\ FlightInv(k)
  BY DEF ConnType, ConnInv, BaseInv, ListInv, PtrInv
<1>2. /\ d \in ConnType /\ SameList(d, k) /\ SamePtr(d, k) /\ SameSock(d, k)
      /\ d.qforwd = k.qforwd /\ d.resend = k.resend /\ d.phase = "finish"
  BY DEF ConnType, Phases, SameList, SamePtr, SameSock
<1> HIDE DEF d
<1>3. Probing(d) /\ d.curr = NoReq /\ d.last = k.last /\ d.fwd_queue = q
  BY <1>1, <1>2 DEF Probing, SamePtr, SameList
<1>4. UpTo(q, NoReq) = {}  BY <1>1, UpToFacts
<1>5. ListInv(d, nips)  BY <1>1, <1>2 DEF SameList, ListInv
<1>6. PtrInv(d)  BY <1>1, <1>2, <1>3, <1>4 DEF PtrInv, Active
<1>7. Front(k) = <<>> /\ Flight(k) = <<>>  BY <1>1, NoFlight
<1>8. Front(d) = <<>> /\ Flight(d) = <<>>  BY <1>2, <1>7 DEF Front, Flight, SameSock
<1>9. FlightInv(d)  BY <1>3, <1>4, <1>8, NoElem DEF FlightInv
<1>10. SockInv(d)  BY <1>1, <1>2, <1>8 DEF SockInv, SameSock
<1>11. NipInv(d, nips)  BY <1>1, <1>3 DEF NipInv
<1> QED  BY <1>2, <1>3, <1>5, <1>6, <1>9, <1>10, <1>11 DEF BaseInv, d

-----------------------------------------------------------------------------
(* Steps of the whole system. *)

\* What section u leaves of the requests it found with connection k.
Accounts(k, u) ==
    /\ u.k \in ConnType
    /\ u.gone \cup u.cut \subseteq Elems(k.fwd_queue) /\ u.gone \cap u.cut = {}
    /\ Elems(u.k.fwd_queue) = Elems(k.fwd_queue) \ (u.gone \cup u.cut)
    /\ u.sent \cup u.tried \subseteq Elems(k.fwd_queue)
    /\ \A r \in u.tried : r \in u.gone \/ retries[r] < MaxRefwd
    /\ Once(k, u)

\* The section of a connection accounts for all its requests.
LEMMA GoodAccounts ==
    ASSUME NEW k, NEW u, Good(k, u)
    PROVE  Accounts(k, u)
BY DEF Good, Accounts

\* The flags or the socket of the connection are changed after section u.
LEMMA SwapAccounts ==
    ASSUME NEW k, NEW u, Accounts(k, u), IsSection(u), NEW d \in ConnType,
           d.fwd_queue = u.k.fwd_queue, d.last = u.k.last
    PROVE  LET t == [u EXCEPT !.k = d]
           IN  Accounts(k, t) /\ t.k = d /\ t.bug = u.bug
<1> DEFINE t == [u EXCEPT !.k = d]
<1>1. t = [k |-> d, gone |-> u.gone, cut |-> u.cut, tried |-> u.tried, sent |-> u.sent,
           ret |-> u.ret, bug |-> u.bug]
  BY DEF IsSection
<1> HIDE DEF t
<1>2. /\ t.k = d /\ t.gone = u.gone /\ t.cut = u.cut /\ t.tried = u.tried /\ t.sent = u.sent
      /\ t.bug = u.bug
  BY <1>1
<1>3. Accounts(k, t)  BY <1>2 DEF Accounts, Once
<1> QED  BY <1>2, <1>3 DEF t

\* Requests that are finished are not non-idempotent any more.
LEMMA FewerNips ==
    ASSUME NEW k, NEW N, NEW M, ConnInv(k, N), M \subseteq N,
           Elems(k.fwd_queue) \cap Upgrade \subseteq M
    PROVE  ConnInv(k, M)
<1>1. ListInv(k, M)  BY DEF ConnInv, BaseInv, ListInv
<1>2. NipInv(k, M)  BY DEF ConnInv, BaseInv, NipInv
<1>3. RetryInv(k, M)  BY DEF ConnInv, RetryInv
<1> QED  BY <1>1, <1>2, <1>3 DEF ConnInv, BaseInv

\* What Move does to the fields of the requests.
LEMMA MoveFacts ==
    ASSUME TypeOK, NEW next \in [Reqs -> Statuses], NEW tried, NEW sent,
           NEW pk \in [Reqs -> Conns \cup {NoConn}], Move(next, tried, sent, pk),
           \A r \in Reqs : r \in tried => next[r] \in Finished \/ retries[r] < MaxRefwd
    PROVE  /\ status' = next
           /\ pick' \in [Reqs -> Conns \cup {NoConn}]
           /\ \A r \in Reqs : pick'[r] = IF next[r] \in {"picked", "repicked"} THEN pk[r] ELSE NoConn
           /\ retries' \in [Reqs -> 0..MaxRefwd] /\ sends' \in [Reqs -> Nat]
           /\ \A r \in Reqs : next[r] \notin Finished =>
                 sends'[r] = IF r \in sent THEN sends[r] + 1 ELSE sends[r]
           /\ nips' = {r \in nips : next[r] \notin Finished}
           /\ nips' \subseteq NonIdemp /\ dropped' \subseteq Droppable /\ late' \subseteq Expirable
<1> DEFINE over == {r \in Reqs : next[r] \in Finished}
<1>1. /\ status' = next
      /\ pick' = [r \in Reqs |-> IF next[r] \in {"picked", "repicked"} THEN pk[r] ELSE NoConn]
      /\ retries' = [r \in Reqs |-> IF r \in over THEN 0
                                    ELSE IF r \in tried THEN retries[r] + 1 ELSE retries[r]]
      /\ sends' = [r \in Reqs |-> IF r \in over THEN 0
                                  ELSE IF r \in sent THEN sends[r] + 1 ELSE sends[r]]
      /\ nips' = nips \ over /\ dropped' = dropped \ over /\ late' = late \ over
  BY DEF Move
<1>2. /\ retries \in [Reqs -> 0..MaxRefwd] /\ sends \in [Reqs -> Nat] /\ nips \subseteq Reqs
      /\ nips \subseteq NonIdemp /\ dropped \subseteq Droppable /\ late \subseteq Expirable
  BY KindsAssumption DEF TypeOK
<1>3. pick' \in [Reqs -> Conns \cup {NoConn}]  BY <1>1
<1>4. retries' \in [Reqs -> 0..MaxRefwd]
  <2>1. ASSUME NEW r \in Reqs
        PROVE  (IF r \in over THEN 0
                ELSE IF r \in tried THEN retries[r] + 1 ELSE retries[r]) \in 0..MaxRefwd
    <3>1. retries[r] \in 0..MaxRefwd /\ MaxRefwd \in Nat  BY <1>2, LimitsAssumption
    <3>2. r \in tried => r \in over \/ retries[r] < MaxRefwd  OBVIOUS
    <3> HIDE DEF over
    <3> QED  BY <3>1, <3>2
  <2> QED  BY <2>1, <1>1
<1>5. sends' \in [Reqs -> Nat]
  <2>1. ASSUME NEW r \in Reqs
        PROVE  (IF r \in over THEN 0 ELSE IF r \in sent THEN sends[r] + 1 ELSE sends[r]) \in Nat
    <3>1. sends[r] \in Nat  BY <1>2
    <3> HIDE DEF over
    <3> QED  BY <3>1
  <2> QED  BY <2>1, <1>1
<1>6. \A r \in Reqs : next[r] \notin Finished =>
         sends'[r] = IF r \in sent THEN sends[r] + 1 ELSE sends[r]
  BY <1>1
<1>7. nips' = {r \in nips : next[r] \notin Finished}  BY <1>1, <1>2
<1>8. nips' \subseteq NonIdemp /\ dropped' \subseteq Droppable /\ late' \subseteq Expirable
  BY <1>1, <1>2
<1>9. \A r \in Reqs : pick'[r] = IF next[r] \in {"picked", "repicked"} THEN pk[r] ELSE NoConn
  BY <1>1
<1> QED  BY <1>1, <1>3, <1>4, <1>5, <1>6, <1>7, <1>8, <1>9

\* A section that began with k, of connection c, after the step itself moved
\* requests to the statuses st: what k has not of the queue is finished, what
\* it has more comes from the scheduler.
Begins(c, k, st) ==
    /\ st \in [Reqs -> Statuses]
    /\ \A r \in Elems(k.fwd_queue) :
          /\ r \in Reqs /\ st[r] = "queued"
          /\ r \in Elems(conn[c].fwd_queue) \/ status[r] \in {"picked", "repicked"}
    /\ \A r \in Elems(conn[c].fwd_queue) \ Elems(k.fwd_queue) : st[r] \in Finished
    /\ \A r \in Reqs \ (Elems(k.fwd_queue) \cup Elems(conn[c].fwd_queue)) :
          st[r] = status[r] \/ (status[r] = "repicked" /\ st[r] = "retry")
    /\ \A r \in UpTo(conn[c].fwd_queue, conn[c].last) \cap nips :
          r \in UpTo(k.fwd_queue, k.last) \/ st[r] \in Finished

\* The connection of section u may be used by those who hold a reference of c.
Usable(c, u, st) ==
    \A r \in Reqs : pick[r] = c /\ st[r] \in {"picked", "repicked"} =>
        ~u.k.resend /\ u.k.phase \notin {"dead", "init", "gone"}

\* The assertions that a section may fail.
Asserted(u) ==
    \/ u.bug = "none"
    \/ u.bug = "treatnip_nip" /\ u.k.unsched
    \/ u.bug = "null_sk" /\ u.k.phase = "stolen"

\* A section of a connection keeps the invariant.
LEMMA LeaveInv ==
    ASSUME IInv, NEW c \in Conns, NEW k, NEW u, NEW st, Begins(c, k, st), Accounts(k, u),
           ConnInv(u.k, nips), Usable(c, u, st), Asserted(u), Leave(c, u, st)
    PROVE  IInv'
<1> DEFINE next == [r \in Reqs |-> CASE r \in u.gone -> Fate(r)
                                     [] r \in u.cut -> "resched"
                                     [] OTHER -> st[r]]
           Q == Elems(k.fwd_queue)
           C == Elems(conn[c].fwd_queue)
<1>1. /\ conn' = [conn EXCEPT ![c] = u.k] /\ bug' = u.bug
      /\ Move(next, u.tried, u.sent, pick)
  BY DEF Leave
<1>2. /\ TypeOK /\ OwnInv /\ SentInv
      /\ \A r \in Reqs : PickInv(r)
      /\ \A d \in Conns : ConnInv(conn[d], nips)
  BY DEF IInv
<1>3. st \in [Reqs -> Statuses]  BY DEF Begins
<1>4. /\ \A r \in Q : r \in Reqs /\ st[r] = "queued" /\ (r \in C \/ status[r] \in {"picked", "repicked"})
      /\ \A r \in C \ Q : st[r] \in Finished
      /\ \A r \in Reqs \ (Q \cup C) :
            st[r] = status[r] \/ (status[r] = "repicked" /\ st[r] = "retry")
  BY DEF Begins
<1>5. /\ u.k \in ConnType /\ u.gone \cup u.cut \subseteq Q /\ u.gone \cap u.cut = {}
      /\ Elems(u.k.fwd_queue) = Q \ (u.gone \cup u.cut)
      /\ u.sent \cup u.tried \subseteq Q
      /\ \A r \in u.tried : r \in u.gone \/ retries[r] < MaxRefwd
      /\ Once(k, u)
  BY DEF Accounts
<1>6. \A r \in Reqs : /\ r \in u.gone => next[r] \in {"freed", "error"}
                      /\ r \in u.cut => next[r] = "resched"
                      /\ r \notin u.gone \cup u.cut => next[r] = st[r]
  BY <1>5 DEF Fate
<1>7. next \in [Reqs -> Statuses]
  <2>1. ASSUME NEW r \in Reqs PROVE next[r] \in Statuses
    <3>1. st[r] \in Statuses  BY <1>3
    <3> QED  BY <1>6, <3>1 DEF Statuses, Finished
  <2>2. next = [r \in Reqs |-> next[r]]  OBVIOUS
  <2> QED  BY <2>1, <2>2
<1> HIDE DEF next
<1>8. \A r \in Reqs : r \in u.tried => next[r] \in Finished \/ retries[r] < MaxRefwd
  BY <1>5, <1>6 DEF Finished
<1>9. pick \in [Reqs -> Conns \cup {NoConn}] /\ conn \in [Conns -> ConnType]
      /\ status \in [Reqs -> Statuses] /\ nips \subseteq Reqs /\ sends \in [Reqs -> Nat]
  BY <1>2, KindsAssumption DEF TypeOK
<1>10. /\ status' = next
       /\ pick' \in [Reqs -> Conns \cup {NoConn}]
       /\ \A r \in Reqs : pick'[r] = IF next[r] \in {"picked", "repicked"} THEN pick[r] ELSE NoConn
       /\ retries' \in [Reqs -> 0..MaxRefwd] /\ sends' \in [Reqs -> Nat]
       /\ \A r \in Reqs : next[r] \notin Finished =>
             sends'[r] = IF r \in u.sent THEN sends[r] + 1 ELSE sends[r]
       /\ nips' = {r \in nips : next[r] \notin Finished}
       /\ nips' \subseteq NonIdemp /\ dropped' \subseteq Droppable /\ late' \subseteq Expirable
  BY <1>1, <1>2, <1>7, <1>8, <1>9, MoveFacts
<1>11. conn' \in [Conns -> ConnType] /\ conn'[c] = u.k /\ \A d \in Conns : d # c => conn'[d] = conn[d]
  BY <1>1, <1>5, <1>9
<1>12. TypeOK'
  <2>1. bug' \in Asserts  BY <1>1 DEF Asserted, Asserts
  <2> QED  BY <1>7, <1>10, <1>11, <2>1 DEF TypeOK
<1>13. AssertionsHold'
  BY <1>1, <1>11 DEF Asserted, AssertionsHold, TreatNipAssertion, SocketAssertion
<1>14. \A r \in Reqs : /\ status[r] = "queued" <=> \E d \in Conns : r \in Elems(conn[d].fwd_queue)
                       /\ \A d, e \in Conns : r \in Elems(conn[d].fwd_queue) \cap Elems(conn[e].fwd_queue)
                             => d = e
  BY <1>2 DEF OwnInv
<1>15. C \subseteq Reqs
  <2>1. conn[c].fwd_queue \in Seq(Reqs)  BY <1>9 DEF ConnType
  <2> QED  BY <2>1, BeforeElems
<1>16. ASSUME NEW r \in Reqs
       PROVE  /\ r \in Q => \A d \in Conns : d # c => r \notin Elems(conn[d].fwd_queue)
              /\ r \in C => \A d \in Conns : d # c => r \notin Elems(conn[d].fwd_queue)
              /\ next[r] = "queued" <=> \E d \in Conns : r \in Elems(conn'[d].fwd_queue)
  <2>1. r \in C => status[r] = "queued" /\ \A d \in Conns : d # c => r \notin Elems(conn[d].fwd_queue)
    BY <1>14
  <2>2. r \in Q => \A d \in Conns : d # c => r \notin Elems(conn[d].fwd_queue)
    <3>1. CASE r \in C
      BY <2>1, <3>1
    <3>2. CASE r \notin C
      <4>1. r \in Q => status[r] # "queued"  BY <1>4, <3>2
      <4> QED  BY <4>1, <1>14
    <3> QED  BY <3>1, <3>2
  <2> DEFINE K == Elems(u.k.fwd_queue)
  <2>3. (\E d \in Conns : r \in Elems(conn'[d].fwd_queue)) <=>
           r \in K \/ \E d \in Conns : d # c /\ r \in Elems(conn[d].fwd_queue)
    BY <1>11
  <2>4. CASE r \in Q
    <3>1. st[r] = "queued" /\ (r \in K <=> r \notin u.gone \cup u.cut)  BY <1>4, <1>5, <2>4
    <3>2. next[r] = "queued" <=> r \notin u.gone \cup u.cut  BY <1>6, <3>1
    <3> QED  BY <2>1, <2>2, <2>3, <2>4, <3>1, <3>2
  <2>5. CASE r \notin Q
    <3>1. next[r] = st[r] /\ r \notin K  BY <1>5, <1>6, <2>5
    <3>2. CASE r \in C
      <4>1. next[r] # "queued"  BY <1>4, <2>5, <3>1, <3>2 DEF Finished
      <4> QED  BY <2>1, <2>2, <2>3, <3>1, <3>2, <4>1
    <3>3. CASE r \notin C
      <4>1. next[r] = "queued" <=> status[r] = "queued"  BY <1>4, <2>5, <3>1, <3>3
      <4>2. status[r] = "queued" <=> \E d \in Conns : r \in Elems(conn[d].fwd_queue)  BY <1>14
      <4>3. status[r] = "queued" <=> \E d \in Conns : d # c /\ r \in Elems(conn[d].fwd_queue)
        BY <4>2, <3>3
      <4> QED  BY <2>1, <2>2, <2>3, <3>1, <3>3, <4>1, <4>3
    <3> QED  BY <3>2, <3>3
  <2> QED  BY <2>1, <2>2, <2>4, <2>5
<1>17. OwnInv'
  <2> SUFFICES ASSUME NEW r \in Reqs
               PROVE  /\ status'[r] = "queued" <=> \E d \in Conns : r \in Elems(conn'[d].fwd_queue)
                      /\ \A d, e \in Conns :
                            r \in Elems(conn'[d].fwd_queue) \cap Elems(conn'[e].fwd_queue) => d = e
    BY DEF OwnInv
  <2>1. status'[r] = "queued" <=> \E d \in Conns : r \in Elems(conn'[d].fwd_queue)
    BY <1>10, <1>16
  <2>2. ASSUME NEW d \in Conns, NEW e \in Conns,
               r \in Elems(conn'[d].fwd_queue) \cap Elems(conn'[e].fwd_queue)
        PROVE  d = e
    <3>1. r \in Elems(conn'[c].fwd_queue) => r \in Q  BY <1>5, <1>11
    <3>2. r \in Q => \A g \in Conns : g # c => r \notin Elems(conn[g].fwd_queue)  BY <1>16
    <3> QED  BY <2>2, <3>1, <3>2, <1>11, <1>14
  <2> QED  BY <2>1, <2>2
<1>18. ASSUME NEW r \in Reqs PROVE PickInv(r)'
  <2>1. status[r] \in {"picked", "repicked"} <=> pick[r] # NoConn  BY <1>2 DEF PickInv
  <2>2. pick[r] # NoConn => ~conn[pick[r]].resend /\ conn[pick[r]].phase \notin {"dead", "init", "gone"}
    BY <1>2 DEF PickInv
  <2>3. next[r] \in {"picked", "repicked"} =>
           st[r] \in {"picked", "repicked"} /\ status[r] \in {"picked", "repicked"}
    <3> SUFFICES ASSUME next[r] \in {"picked", "repicked"}
                 PROVE  st[r] \in {"picked", "repicked"} /\ status[r] \in {"picked", "repicked"}
      OBVIOUS
    <3>1. r \notin u.gone \cup u.cut /\ next[r] = st[r]  BY <1>6
    <3>2. r \notin Q /\ r \notin C  BY <1>4, <3>1 DEF Finished
    <3> QED  BY <1>4, <3>1, <3>2
  <2>4. pick'[r] = IF next[r] \in {"picked", "repicked"} THEN pick[r] ELSE NoConn  BY <1>10
  <2>5. status'[r] = next[r]  BY <1>10
  <2>6. status'[r] \in {"picked", "repicked"} <=> pick'[r] # NoConn
    BY <2>1, <2>3, <2>4, <2>5
  <2>7. ASSUME pick'[r] # NoConn
        PROVE  ~conn'[pick'[r]].resend /\ conn'[pick'[r]].phase \notin {"dead", "init", "gone"}
    <3>1. pick'[r] = pick[r] /\ next[r] \in {"picked", "repicked"} /\ pick[r] \in Conns
      BY <2>4, <2>7, <1>9
    <3>2. CASE pick[r] = c
      BY <3>1, <3>2, <2>3, <1>11 DEF Usable
    <3>3. CASE pick[r] # c
      BY <3>1, <3>3, <2>2, <2>7, <1>11
    <3> QED  BY <3>2, <3>3
  <2> QED  BY <2>6, <2>7 DEF PickInv
<1>19. \A r \in Upgrade : Pending(r)' => r \in nips'
  <2> SUFFICES ASSUME NEW r \in Upgrade, next[r] \notin Finished PROVE r \in nips'
    BY <1>10 DEF Pending
  <2>1. r \in Reqs  BY KindsAssumption
  <2>2. status[r] \notin Finished
    <3>1. CASE r \in C
      BY <3>1, <2>1, <1>14 DEF Finished
    <3>2. CASE r \in Q
      BY <3>1, <3>2, <1>4 DEF Finished
    <3>3. CASE r \notin Q /\ r \notin C
      <4>1. next[r] = st[r]  BY <1>5, <1>6, <2>1, <3>3
      <4> QED  BY <4>1, <3>3, <2>1, <1>4 DEF Finished
    <3> QED  BY <3>1, <3>2, <3>3
  <2>3. r \in nips  BY <2>2, <1>2 DEF SentInv, Pending
  <2> QED  BY <2>3, <1>10
<1>20. ASSUME ~RetryNip, NEW r \in nips'
       PROVE  /\ sends'[r] <= 1
              /\ sends'[r] = 1 =>
                   \/ status'[r] = "resched"
                   \/ \E d \in Conns : r \in UpTo(conn'[d].fwd_queue, conn'[d].last)
  <2>1. r \in nips /\ r \in Reqs /\ next[r] \notin Finished  BY <1>9, <1>10
  <2>2. /\ sends[r] <= 1 /\ sends[r] \in Nat
        /\ sends[r] = 1 =>
             \/ status[r] = "resched"
             \/ \E d \in Conns : r \in UpTo(conn[d].fwd_queue, conn[d].last)
    BY <1>2, <1>9, <1>20, <2>1 DEF SentInv
  <2>3. sends'[r] = IF r \in u.sent THEN sends[r] + 1 ELSE sends[r]  BY <1>10, <2>1
  <2> DEFINE U == UpTo(k.fwd_queue, k.last)
             W == UpTo(u.k.fwd_queue, u.k.last)
             V == UpTo(conn[c].fwd_queue, conn[c].last)
  <2>4. u.sent \cap nips \cap U = {} /\ (u.sent \cup U) \cap nips \subseteq W \cup u.gone \cup u.cut
    BY <1>5, <1>20 DEF Once
  <2>5. r \in V => r \in U
    <3>1. r \in V => r \in U \/ st[r] \in Finished  BY <2>1 DEF Begins
    <3>2. st[r] \in Finished => r \notin Q  BY <1>4 DEF Finished
    <3>3. st[r] \in Finished => next[r] \in Finished  BY <3>2, <1>5, <1>6, <2>1
    <3> QED  BY <3>1, <3>3, <2>1
  <2>6. r \in W => \E d \in Conns : r \in UpTo(conn'[d].fwd_queue, conn'[d].last)
    BY <1>11
  <2>7. r \notin u.gone /\ (r \in u.cut => status'[r] = "resched")
    BY <1>6, <1>10, <2>1 DEF Finished
  <2>8. \A d \in Conns : UpTo(conn[d].fwd_queue, conn[d].last) \subseteq Elems(conn[d].fwd_queue)
    BY DEF UpTo
  <2> HIDE DEF U, W, V, Q, C
  <2>9. CASE r \in u.sent
    <3>1. r \notin U /\ r \in W \cup u.cut /\ r \in Q  BY <2>1, <2>4, <2>7, <2>9, <1>5
    <3>2. sends[r] # 1
      <4>1. status[r] # "resched"  BY <3>1, <2>1, <1>4, <1>14 DEF C
      <4>2. ASSUME NEW d \in Conns, r \in UpTo(conn[d].fwd_queue, conn[d].last) PROVE FALSE
        <5>1. d # c  BY <2>5, <3>1, <4>2 DEF V
        <5>2. r \notin Elems(conn[d].fwd_queue)  BY <1>16, <2>1, <3>1, <5>1
        <5> QED  BY <5>2, <4>2, <2>8
      <4> QED  BY <4>1, <4>2, <2>2
    <3>3. sends[r] = 0  BY <3>2, <2>2
    <3>4. sends'[r] = 1  BY <3>3, <2>3, <2>9
    <3> QED  BY <3>1, <3>4, <2>6, <2>7
  <2>10. CASE r \notin u.sent
    <3>1. sends'[r] = sends[r]  BY <2>3, <2>10
    <3>2. ASSUME sends[r] = 1
          PROVE  \/ status'[r] = "resched"
                 \/ \E d \in Conns : r \in UpTo(conn'[d].fwd_queue, conn'[d].last)
      <4>1. CASE status[r] = "resched"
        <5>1. r \notin C /\ r \notin Q  BY <4>1, <2>1, <1>4, <1>14 DEF C
        <5>2. st[r] = "resched"  BY <5>1, <4>1, <2>1, <1>4
        <5>3. next[r] = "resched"  BY <5>1, <5>2, <2>1, <1>5, <1>6
        <5> QED  BY <5>3, <1>10
      <4>2. ASSUME NEW d \in Conns, r \in UpTo(conn[d].fwd_queue, conn[d].last)
            PROVE  \/ status'[r] = "resched"
                   \/ \E e \in Conns : r \in UpTo(conn'[e].fwd_queue, conn'[e].last)
        <5>1. CASE d # c
          BY <5>1, <4>2, <1>11
        <5>2. CASE d = c
          <6>1. r \in U  BY <4>2, <5>2, <2>5 DEF V
          <6>2. r \in W \cup u.cut  BY <6>1, <2>1, <2>4, <2>7
          <6> QED  BY <6>2, <2>6, <2>7
        <5> QED  BY <5>1, <5>2
      <4> QED  BY <3>2, <4>1, <4>2, <2>2
    <3> QED  BY <3>1, <3>2, <2>2
  <2> QED  BY <2>9, <2>10
<1>21. SentInv'  BY <1>19, <1>20 DEF SentInv
<1>22. ASSUME NEW d \in Conns PROVE ConnInv(conn'[d], nips')
  <2>1. ConnInv(conn'[d], nips)
    <3>1. CASE d = c
      BY <3>1, <1>11
    <3>2. CASE d # c
      BY <3>2, <1>2, <1>11
    <3> QED  BY <3>1, <3>2
  <2>2. Elems(conn'[d].fwd_queue) \cap Upgrade \subseteq nips'
    <3> SUFFICES ASSUME NEW r \in Elems(conn'[d].fwd_queue), r \in Upgrade PROVE r \in nips'
      OBVIOUS
    <3>1. r \in Reqs  BY KindsAssumption
    <3>2. status'[r] = "queued"  BY <3>1, <1>10, <1>16
    <3> QED  BY <3>2, <1>19 DEF Pending, Finished
  <2>3. nips' \subseteq nips  BY <1>10
  <2> QED  BY <2>1, <2>2, <2>3, FewerNips
<1> QED  BY <1>12, <1>13, <1>17, <1>18, <1>21, <1>22 DEF IInv

\* A request that is in no queue moves.
LEMMA MoveReqInv ==
    ASSUME IInv, NEW r \in Reqs, status[r] \in {"new", "resched", "retry"},
           NEW st \in {"picked", "repicked", "retry", "freed", "error"},
           NEW tried, tried \subseteq {r}, r \in tried => st \in Finished \/ retries[r] < MaxRefwd,
           NEW pk \in [Reqs -> Conns \cup {NoConn}], \A x \in Reqs : x # r => pk[x] = pick[x],
           st \in {"picked", "repicked"} =>
             /\ pk[r] \in Conns /\ ~conn[pk[r]].resend
             /\ conn[pk[r]].phase \notin {"dead", "init", "gone"},
           status[r] = "resched" /\ r \in nips /\ ~RetryNip => st \in Finished,
           MoveReq(r, st, tried, pk)
    PROVE  IInv'
<1> DEFINE next == [status EXCEPT ![r] = st]
<1>1. Move(next, tried, {}, pk) /\ conn' = conn /\ bug' = bug  BY DEF MoveReq
<1>2. /\ TypeOK /\ OwnInv /\ SentInv /\ AssertionsHold
      /\ \A x \in Reqs : PickInv(x)
      /\ \A d \in Conns : ConnInv(conn[d], nips)
  BY DEF IInv
<1>3. /\ status \in [Reqs -> Statuses] /\ pick \in [Reqs -> Conns \cup {NoConn}]
      /\ nips \subseteq Reqs /\ sends \in [Reqs -> Nat] /\ conn \in [Conns -> ConnType]
      /\ bug \in Asserts
  BY <1>2, KindsAssumption DEF TypeOK
<1>4. next \in [Reqs -> Statuses]  BY <1>3 DEF Statuses, Finished
<1>5. next[r] = st /\ \A x \in Reqs : x # r => next[x] = status[x]  BY <1>3
<1> HIDE DEF next
<1>6. \A x \in Reqs : x \in tried => next[x] \in Finished \/ retries[x] < MaxRefwd
  BY <1>5
<1>7. /\ status' = next
      /\ pick' \in [Reqs -> Conns \cup {NoConn}]
      /\ \A x \in Reqs : pick'[x] = IF next[x] \in {"picked", "repicked"} THEN pk[x] ELSE NoConn
      /\ retries' \in [Reqs -> 0..MaxRefwd] /\ sends' \in [Reqs -> Nat]
      /\ \A x \in Reqs : next[x] \notin Finished =>
            sends'[x] = IF x \in {} THEN sends[x] + 1 ELSE sends[x]
      /\ nips' = {x \in nips : next[x] \notin Finished}
      /\ nips' \subseteq NonIdemp /\ dropped' \subseteq Droppable /\ late' \subseteq Expirable
  BY <1>1, <1>2, <1>4, <1>6, MoveFacts
<1>8. TypeOK'  BY <1>1, <1>3, <1>4, <1>7 DEF TypeOK
<1>9. AssertionsHold'
  BY <1>1, <1>2 DEF AssertionsHold, TreatNipAssertion, SocketAssertion
<1>10. \A x \in Reqs : next[x] = "queued" <=> status[x] = "queued"  BY <1>5
<1>11. OwnInv'  BY <1>1, <1>2, <1>7, <1>10 DEF OwnInv
<1>12. ASSUME NEW x \in Reqs PROVE PickInv(x)'
  <2>1. /\ status[x] \in {"picked", "repicked"} <=> pick[x] # NoConn
        /\ pick[x] # NoConn => ~conn[pick[x]].resend /\ conn[pick[x]].phase \notin {"dead", "init", "gone"}
    BY <1>2 DEF PickInv
  <2>2. pick'[x] = (IF next[x] \in {"picked", "repicked"} THEN pk[x] ELSE NoConn) /\ status'[x] = next[x]
    BY <1>7
  <2>3. CASE x = r
    <3>1. st \in {"picked", "repicked"} => pk[r] # NoConn  BY ConnsAssumption
    <3> QED  BY <2>2, <2>3, <3>1, <1>1, <1>5 DEF PickInv
  <2>4. CASE x # r
    BY <2>1, <2>2, <2>4, <1>1, <1>5 DEF PickInv
  <2> QED  BY <2>3, <2>4
<1>13. \A x \in Upgrade : Pending(x)' => x \in nips'
  <2> SUFFICES ASSUME NEW x \in Upgrade, next[x] \notin Finished PROVE x \in nips'
    BY <1>7 DEF Pending
  <2>1. x \in Reqs  BY KindsAssumption
  <2>2. status[x] \notin Finished  BY <2>1, <1>5 DEF Finished
  <2> QED  BY <2>2, <1>2, <1>7 DEF SentInv, Pending
<1>14. ASSUME ~RetryNip, NEW x \in nips'
       PROVE  /\ sends'[x] <= 1
              /\ sends'[x] = 1 =>
                   \/ status'[x] = "resched"
                   \/ \E d \in Conns : x \in UpTo(conn'[d].fwd_queue, conn'[d].last)
  <2>1. x \in nips /\ x \in Reqs /\ next[x] \notin Finished  BY <1>3, <1>7
  <2>2. /\ sends[x] <= 1
        /\ sends[x] = 1 =>
             \/ status[x] = "resched"
             \/ \E d \in Conns : x \in UpTo(conn[d].fwd_queue, conn[d].last)
    BY <1>2, <1>14, <2>1 DEF SentInv
  <2>3. sends'[x] = sends[x] /\ status'[x] = next[x]  BY <1>7, <2>1
  <2>4. x = r => status[x] # "resched"  BY <1>5, <1>14, <2>1
  <2> QED  BY <2>2, <2>3, <2>4, <2>1, <1>1, <1>5
<1>15. SentInv'  BY <1>13, <1>14 DEF SentInv
<1>16. ASSUME NEW d \in Conns PROVE ConnInv(conn'[d], nips')
  <2>1. ConnInv(conn[d], nips) /\ conn'[d] = conn[d] /\ nips' \subseteq nips  BY <1>1, <1>2, <1>7
  <2>2. Elems(conn'[d].fwd_queue) \cap Upgrade \subseteq nips'
    <3> SUFFICES ASSUME NEW x \in Elems(conn'[d].fwd_queue), x \in Upgrade PROVE x \in nips'
      OBVIOUS
    <3>1. x \in Reqs  BY KindsAssumption
    <3>2. status'[x] = "queued"  BY <3>1, <1>11 DEF OwnInv
    <3> QED  BY <3>2, <1>13 DEF Pending, Finished
  <2> QED  BY <2>1, <2>2, FewerNips
<1> QED  BY <1>8, <1>9, <1>11, <1>12, <1>15, <1>16 DEF IInv

-----------------------------------------------------------------------------
\* What the invariant says of one connection.
LEMMA ConnFacts ==
    ASSUME IInv, NEW c \in Conns
    PROVE  /\ conn[c] \in ConnType /\ ConnInv(conn[c], nips)
           /\ nips \subseteq Reqs /\ retries \in [Reqs -> 0..MaxRefwd]
           /\ status \in [Reqs -> Statuses]
           /\ Elems(conn[c].fwd_queue) \subseteq Reqs
           /\ \A r \in Elems(conn[c].fwd_queue) : status[r] = "queued"
<1>1. /\ conn[c] \in ConnType /\ ConnInv(conn[c], nips)
      /\ nips \subseteq Reqs /\ retries \in [Reqs -> 0..MaxRefwd] /\ status \in [Reqs -> Statuses]
  BY KindsAssumption DEF IInv, TypeOK
<1>2. Elems(conn[c].fwd_queue) \subseteq Reqs  BY <1>1, BeforeElems DEF ConnType
<1> QED  BY <1>1, <1>2 DEF IInv, OwnInv

\* The step itself moves nothing.
LEMMA BeginsSame ==
    ASSUME IInv, NEW c \in Conns, NEW k, k.fwd_queue = conn[c].fwd_queue, k.last = conn[c].last
    PROVE  Begins(c, k, status)
BY ConnFacts DEF Begins

\* The step itself finishes a request of the queue.
LEMMA BeginsPop ==
    ASSUME IInv, NEW c \in Conns, NEW r \in Elems(conn[c].fwd_queue), NEW f \in Finished, NEW k,
           Elems(k.fwd_queue) = Elems(conn[c].fwd_queue) \ {r},
           UpTo(k.fwd_queue, k.last) = UpTo(conn[c].fwd_queue, conn[c].last) \ {r}
    PROVE  Begins(c, k, [status EXCEPT ![r] = f])
<1> DEFINE st == [status EXCEPT ![r] = f]
<1>1. /\ status \in [Reqs -> Statuses] /\ Elems(conn[c].fwd_queue) \subseteq Reqs
      /\ \A x \in Elems(conn[c].fwd_queue) : status[x] = "queued"
  BY ConnFacts
<1>2. st \in [Reqs -> Statuses]  BY <1>1 DEF Statuses
<1>3. st[r] = f /\ \A x \in Reqs : x # r => st[x] = status[x]  BY <1>1
<1> HIDE DEF st
<1>4. Begins(c, k, st)  BY <1>1, <1>2, <1>3 DEF Begins, UpTo
<1> QED  BY <1>4 DEF st

\* The step itself puts a request into the queue.
LEMMA BeginsEnlist ==
    ASSUME IInv, NEW c \in Conns, NEW r \in Reqs, status[r] \in {"picked", "repicked"}, NEW k,
           Elems(k.fwd_queue) = Elems(conn[c].fwd_queue) \cup {r},
           UpTo(k.fwd_queue, k.last) = UpTo(conn[c].fwd_queue, conn[c].last)
    PROVE  Begins(c, k, [status EXCEPT ![r] = "queued"])
<1> DEFINE st == [status EXCEPT ![r] = "queued"]
<1>1. /\ status \in [Reqs -> Statuses] /\ Elems(conn[c].fwd_queue) \subseteq Reqs
      /\ \A x \in Elems(conn[c].fwd_queue) : status[x] = "queued"
  BY ConnFacts
<1>2. st \in [Reqs -> Statuses]  BY <1>1 DEF Statuses
<1>3. st[r] = "queued" /\ \A x \in Reqs : x # r => st[x] = status[x]  BY <1>1
<1> HIDE DEF st
<1>4. Begins(c, k, st)  BY <1>1, <1>2, <1>3 DEF Begins
<1> QED  BY <1>4 DEF st

\* The step itself takes a request back to the re-scheduler.
LEMMA BeginsBack ==
    ASSUME IInv, NEW c \in Conns, NEW r \in Reqs, status[r] = "repicked"
    PROVE  Begins(c, conn[c], [status EXCEPT ![r] = "retry"])
<1> DEFINE st == [status EXCEPT ![r] = "retry"]
<1>1. /\ status \in [Reqs -> Statuses] /\ Elems(conn[c].fwd_queue) \subseteq Reqs
      /\ \A x \in Elems(conn[c].fwd_queue) : status[x] = "queued"
  BY ConnFacts
<1>2. st \in [Reqs -> Statuses]  BY <1>1 DEF Statuses
<1>3. st[r] = "retry" /\ \A x \in Reqs : x # r => st[x] = status[x]  BY <1>1
<1> HIDE DEF st
<1>4. Begins(c, conn[c], st)  BY <1>1, <1>2, <1>3 DEF Begins
<1> QED  BY <1>4 DEF st

\* Who holds a reference finds the connection as it was picked.
LEMMA StillUsable ==
    ASSUME IInv, NEW c \in Conns, NEW u, NEW st,
           \/ conn[c].phase \in {"dead", "init", "gone"}
           \/ Unreferenced(c)
           \/ /\ u.k.resend => conn[c].resend
              /\ u.k.phase \notin {"dead", "init", "gone"}
    PROVE  Usable(c, u, st)
<1> SUFFICES ASSUME NEW r \in Reqs, pick[r] = c
             PROVE  ~u.k.resend /\ u.k.phase \notin {"dead", "init", "gone"}
  BY DEF Usable
<1>1. pick[r] # NoConn  BY ConnsAssumption
<1>2. ~conn[c].resend /\ conn[c].phase \notin {"dead", "init", "gone"}
  BY <1>1 DEF IInv, PickInv
<1> QED  BY <1>2 DEF Unreferenced

\* ss_send() fails for a closed socket, and only for that.
LEMMA OutcomesAnswer ==
    ASSUME NEW k, NEW res \in Outcomes(k), NEW d,
           d.phase \in {"closed", "dropped"} <=> k.phase \in {"closed", "dropped"}
    PROVE  Answers(d, res)
<1>1. CASE k.phase \in {"closed", "dropped"}
  <2>1. res = [r \in Reqs |-> "ebadf"]  BY <1>1 DEF Outcomes
  <2> QED  BY <1>1, <2>1 DEF Answers, Codes
<1>2. CASE k.phase \notin {"closed", "dropped"}
  <2>1. res \in [Reqs -> {"ok", "ebusy", "err"}]  BY <1>2 DEF Outcomes
  <2>2. \A r \in Reqs : res[r] \in {"ok", "ebusy", "err"}  BY <2>1
  <2>3. res \in [Reqs -> Codes]  BY <2>1 DEF Codes
  <2> QED  BY <1>2, <2>2, <2>3 DEF Answers
<1> QED  BY <1>1, <1>2

-----------------------------------------------------------------------------
(* The steps of a request that is in no queue. *)

\* An evicted request is over.
LEMMA FateFinished ==
    ASSUME NEW r
    PROVE  Fate(r) \in {"freed", "error"} /\ Fate(r) \in Finished
BY DEF Fate, Finished

\* An answered request is over.
LEMMA AnswerFinished ==
    ASSUME NEW r
    PROVE  Answer(r) \in Finished
BY DEF Answer, Finished

\* A connection the scheduler finds suitable is not being repaired.
LEMMA PickedUsable ==
    ASSUME IInv, NEW r \in Reqs, NEW c \in Conns, Live(conn[c]), Suitable(conn[c])
    PROVE  LET pk == [pick EXCEPT ![r] = c]
           IN  /\ pk \in [Reqs -> Conns \cup {NoConn}] /\ \A x \in Reqs : x # r => pk[x] = pick[x]
               /\ pk[r] \in Conns /\ ~conn[pk[r]].resend
               /\ conn[pk[r]].phase \notin {"dead", "init", "gone"}
<1>1. pick \in [Reqs -> Conns \cup {NoConn}]  BY DEF IInv, TypeOK
<1>2. ~conn[c].resend  BY DEF Suitable
<1>3. conn[c].phase \notin {"dead", "gone"}  BY DEF Live, Active
<1>4. conn[c].phase # "init"
  <2>1. PtrInv(conn[c])  BY DEF IInv, ConnInv, BaseInv
  <2> QED  BY <2>1, <1>2 DEF PtrInv, Probing
<1> QED  BY <1>1, <1>2, <1>3, <1>4

\* The types of two fields of the requests.
LEMMA PickTyped ==
    ASSUME IInv
    PROVE  pick \in [Reqs -> Conns \cup {NoConn}] /\ retries \in [Reqs -> 0..MaxRefwd]
BY DEF IInv, TypeOK

\* The scheduler returns a connection for a new or a re-scheduled request.
LEMMA PickKeeps ==
    ASSUME IInv, NEW r \in Reqs, NEW c \in Conns, Pick(r, c) \/ ReschedPick(r, c)
    PROVE  IInv'
<1> DEFINE pk == [pick EXCEPT ![r] = c]
<1>1. Live(conn[c]) /\ Suitable(conn[c])  BY DEF Pick, ReschedPick
<1>2. /\ pk \in [Reqs -> Conns \cup {NoConn}] /\ \A x \in Reqs : x # r => pk[x] = pick[x]
      /\ pk[r] \in Conns /\ ~conn[pk[r]].resend
      /\ conn[pk[r]].phase \notin {"dead", "init", "gone"}
  BY <1>1, PickedUsable
<1>3. \/ status[r] = "new" /\ MoveReq(r, "picked", {}, pk)
      \/ status[r] = "retry" /\ retries[r] < MaxRefwd /\ MoveReq(r, "repicked", {r}, pk)
  BY DEF Pick, ReschedPick
<1> HIDE DEF pk
<1>4. CASE status[r] = "new" /\ MoveReq(r, "picked", {}, pk)
  BY <1>2, <1>4, MoveReqInv
<1>5. CASE status[r] = "retry" /\ retries[r] < MaxRefwd /\ MoveReq(r, "repicked", {r}, pk)
  BY <1>2, <1>5, MoveReqInv
<1> QED  BY <1>3, <1>4, <1>5

\* The request is given up.
LEMMA GiveUpKeeps ==
    ASSUME IInv, NEW r \in Reqs, NoServer(r) \/ ReschedEvict(r) \/ ReschedNoServer(r)
    PROVE  IInv'
<1>1. Fate(r) \in {"freed", "error"} /\ Fate(r) \in Finished  BY FateFinished
<1>2. pick \in [Reqs -> Conns \cup {NoConn}]  BY PickTyped
<1>3. /\ status[r] \in {"new", "retry"}
      /\ MoveReq(r, Fate(r), {}, pick) \/ MoveReq(r, Fate(r), {r}, pick)
  BY DEF NoServer, ReschedEvict, ReschedNoServer
<1>4. PICK tried : tried \in {{}, {r}} /\ MoveReq(r, Fate(r), tried, pick)
  BY <1>3
<1>5. PICK f : f = Fate(r)  OBVIOUS
<1>6. /\ f \in {"picked", "repicked", "retry", "freed", "error"} /\ f \in Finished
      /\ f \notin {"picked", "repicked"} /\ MoveReq(r, f, tried, pick)
  BY <1>1, <1>4, <1>5
<1> QED  BY <1>2, <1>3, <1>4, <1>6, MoveReqInv

\* tfw_http_fwdq_resched() takes a request off its list.
LEMMA ReschedKeeps ==
    ASSUME IInv, NEW r \in Reqs, Resched(r)
    PROVE  IInv'
<1>1. PICK f : f = IF r \in Stale \/ (r \in nips /\ ~RetryNip) THEN Fate(r) ELSE "retry"
  OBVIOUS
<1>2. status[r] = "resched" /\ MoveReq(r, f, {}, pick)  BY <1>1 DEF Resched
<1>3. f \in {"freed", "error", "retry"} /\ (r \in nips /\ ~RetryNip => f \in Finished)
  BY <1>1, FateFinished
<1>4. pick \in [Reqs -> Conns \cup {NoConn}]  BY PickTyped
<1>5. f \in {"picked", "repicked", "retry", "freed", "error"} /\ f \notin {"picked", "repicked"}
  BY <1>3
<1> QED  BY <1>2, <1>3, <1>4, <1>5, MoveReqInv

\* The client disconnects, the request gets old.
LEMMA StaleKeeps ==
    ASSUME IInv, NEW r \in Reqs, ClientDrop(r) \/ Expire(r)
    PROVE  IInv'
<1>1. /\ conn' = conn /\ status' = status /\ pick' = pick /\ nips' = nips /\ retries' = retries
      /\ sends' = sends /\ bug' = bug
  BY DEF ClientDrop, Expire
<1>2. /\ TypeOK /\ AssertionsHold /\ OwnInv /\ SentInv
      /\ \A x \in Reqs : PickInv(x)
      /\ \A c \in Conns : ConnInv(conn[c], nips)
  BY DEF IInv
<1>3. dropped' \subseteq Droppable /\ late' \subseteq Expirable
  BY <1>2 DEF ClientDrop, Expire, TypeOK
<1>4. TypeOK'  BY <1>1, <1>2, <1>3 DEF TypeOK
<1>5. AssertionsHold'  BY <1>1, <1>2 DEF AssertionsHold, TreatNipAssertion, SocketAssertion
<1>6. OwnInv'  BY <1>1, <1>2 DEF OwnInv
<1>7. SentInv'  BY <1>1, <1>2 DEF SentInv, Pending
<1>8. ASSUME NEW x \in Reqs PROVE PickInv(x)'
  BY <1>1, <1>2 DEF PickInv
<1>9. ASSUME NEW c \in Conns PROVE ConnInv(conn'[c], nips')
  BY <1>1, <1>2
<1> QED  BY <1>4, <1>5, <1>6, <1>7, <1>8, <1>9 DEF IInv

\* The next request of the client makes this one idempotent.
LEMMA FollowKeeps ==
    ASSUME IInv, NEW r \in Reqs, Follow(r)
    PROVE  IInv'
<1>1. /\ conn' = conn /\ status' = status /\ pick' = pick /\ nips' = nips \ {r} /\ retries' = retries
      /\ sends' = sends /\ bug' = bug /\ dropped' = dropped /\ late' = late /\ r \notin Upgrade
  BY DEF Follow
<1>2. /\ TypeOK /\ AssertionsHold /\ OwnInv /\ SentInv
      /\ \A x \in Reqs : PickInv(x)
      /\ \A c \in Conns : ConnInv(conn[c], nips)
  BY DEF IInv
<1>3. TypeOK'  BY <1>1, <1>2 DEF TypeOK
<1>4. AssertionsHold'  BY <1>1, <1>2 DEF AssertionsHold, TreatNipAssertion, SocketAssertion
<1>5. OwnInv'  BY <1>1, <1>2 DEF OwnInv
<1>6. SentInv'  BY <1>1, <1>2 DEF SentInv, Pending
<1>7. ASSUME NEW x \in Reqs PROVE PickInv(x)'
  BY <1>1, <1>2 DEF PickInv
<1>8. ASSUME NEW c \in Conns PROVE ConnInv(conn'[c], nips')
  <2>1. ConnInv(conn[c], nips) /\ nips' \subseteq nips  BY <1>1, <1>2
  <2>2. Elems(conn[c].fwd_queue) \cap Upgrade \subseteq nips'
    <3>1. Elems(conn[c].fwd_queue) \cap Upgrade \subseteq nips
      BY <2>1 DEF ConnInv, BaseInv, NipInv
    <3> QED  BY <3>1, <1>1
  <2>3. ConnInv(conn[c], nips')  BY <2>1, <2>2, FewerNips
  <2> QED  BY <2>3, <1>1
<1> QED  BY <1>3, <1>4, <1>5, <1>6, <1>7, <1>8 DEF IInv

-----------------------------------------------------------------------------
(* Forwarding a scheduled request. *)

\* A request that was not sent is taken back from the queue.
LEMMA TakeBackInv ==
    ASSUME NEW k \in ConnType, ConnInv(k, nips), k.curr = k.last,
           NEW r \in Elems(k.fwd_queue), r \notin UpTo(k.fwd_queue, k.last)
    PROVE  LET e == Delist(k, {r}, {})
           IN  /\ e \in ConnType /\ ConnInv(e, nips)
               /\ Elems(e.fwd_queue) = Elems(k.fwd_queue) \ {r}
               /\ UpTo(e.fwd_queue, e.last) = UpTo(k.fwd_queue, k.last)
               /\ e.phase = k.phase /\ e.resend = k.resend
<1> DEFINE R == {r}
           e == Delist(k, R, {})
<1>1. /\ BaseInv(k, nips) /\ RetryInv(k, nips) /\ ListInv(k, nips) /\ FlightInv(k) /\ SockInv(k)
      /\ NoDup(k.fwd_queue) /\ k.fwd_queue \in Seq(Reqs) /\ PtrInv(k)
  BY DEF ConnInv, BaseInv, ListInv, ConnType
<1>2. R \in SUBSET Elems(k.fwd_queue) /\ {} \in SUBSET Reqs /\ {} \cap nips = {}  OBVIOUS
<1>3. e \in ConnType /\ SamePtr(e, k) /\ SameFlags(e, k) /\ SameSock(e, k)
  BY <1>2, DelistFields
<1>4. ListInv(e, nips) /\ Without(e.fwd_queue, k.fwd_queue, R)  BY <1>1, <1>2, DelistList
<1> HIDE DEF e
<1>5. k.last \in Elems(k.fwd_queue) \cup {NoReq} /\ r # k.last
  <2>1. k.last \in Elems(k.fwd_queue) => k.last \in UpTo(k.fwd_queue, k.last)  BY <1>1, UpToFacts
  <2> QED  BY <2>1, <1>1 DEF PtrInv
<1>6. Moved(e.last, k.last, k.fwd_queue, R) /\ Moved(e.curr, k.curr, k.fwd_queue, R)
  <2>1. e.last = k.last /\ e.curr = k.last  BY <1>3 DEF SamePtr
  <2>2. Moved(k.last, k.last, k.fwd_queue, R)
    <3>1. k.last # r => k.last \in (Elems(k.fwd_queue) \ R) \cup {NoReq}  BY <1>5
    <3> QED  BY <3>1, <1>5 DEF Moved
  <2> QED  BY <2>1, <2>2
<1>7. k.curr = k.last => e.curr = e.last  BY <1>3 DEF SamePtr
<1>8. Flight(e) = Flight(k) /\ Front(e) = Front(k)
  BY <1>3 DEF SameSock, Flight, Front
<1>9. r \notin Elems(Flight(k))  BY <1>1 DEF FlightInv
<1>10. Elems(Front(k)) \subseteq Elems(Flight(k))  BY FlightFacts
<1>11. Fewer(e, k, R)  BY <1>8, <1>9, <1>10 DEF Fewer
<1>12. SockInv(e)  BY <1>1, <1>3, <1>8 DEF SockInv, SameFlags, SameSock
<1>13. e.resend = k.resend /\ e.qforwd = k.qforwd /\ e.unsched = k.unsched /\ e.phase = k.phase
  BY <1>3 DEF SameFlags
<1> HIDE DEF R
<1>14. /\ BaseInv(e, nips) /\ RetryInv(e, nips)
       /\ UpTo(e.fwd_queue, e.last) = UpTo(k.fwd_queue, k.last) \ R
  BY <1>1, <1>2, <1>3, <1>4, <1>6, <1>7, <1>11, <1>12, <1>13, ShrinkInv
<1>15. UpTo(e.fwd_queue, e.last) = UpTo(k.fwd_queue, k.last)  BY <1>14 DEF R
<1>16. Elems(e.fwd_queue) = Elems(k.fwd_queue) \ {r}  BY <1>4 DEF Without, R
<1>17. e \in ConnType /\ ConnInv(e, nips)  BY <1>3, <1>14 DEF ConnInv
<1> QED  BY <1>13, <1>15, <1>16, <1>17 DEF e, R

\* The request is at the end of the queue of the connection it was scheduled to.
LEMMA EnlistFacts ==
    ASSUME IInv, NEW r \in Reqs, status[r] \in {"picked", "repicked"}
    PROVE  LET c == pick[r]
               k == Enlist(conn[c], r)
           IN  /\ c \in Conns /\ k \in ConnType /\ ConnInv(k, nips) /\ k.curr = k.last
               /\ ~Drained(k) /\ ~Probing(k) /\ k.phase \notin {"dead", "init", "gone"}
               /\ k.resend = FALSE
               /\ r \notin Elems(conn[c].fwd_queue) /\ r \in Elems(k.fwd_queue)
               /\ Elems(k.fwd_queue) = Elems(conn[c].fwd_queue) \cup {r}
               /\ UpTo(k.fwd_queue, k.last) = UpTo(conn[c].fwd_queue, conn[c].last)
               /\ r \notin UpTo(k.fwd_queue, k.last)
               /\ \A x \in Elems(k.fwd_queue) : ~Before(k.fwd_queue, r, x)
<1> DEFINE c == pick[r]
           k == Enlist(conn[c], r)
           q == conn[c].fwd_queue
<1>1. pick[r] # NoConn /\ ~conn[c].resend /\ conn[c].phase \notin {"dead", "init", "gone"}
  BY DEF IInv, PickInv
<1>2. c \in Conns  BY <1>1, PickTyped
<1>3. /\ conn[c] \in ConnType /\ ConnInv(conn[c], nips)
      /\ \A x \in Elems(q) : status[x] = "queued"
  BY <1>2, ConnFacts
<1>4. r \notin Elems(q)  BY <1>3
<1>5. r \in Upgrade => r \in nips  BY DEF IInv, SentInv, Pending, Finished
<1> HIDE DEF c
<1>6. /\ k \in ConnType /\ ConnInv(k, nips)
      /\ SamePtr(k, conn[c]) /\ SameFlags(k, conn[c]) /\ SameSock(k, conn[c])
      /\ Elems(k.fwd_queue) = Elems(q) \cup {r}
      /\ UpTo(k.fwd_queue, k.last) = UpTo(q, conn[c].last)
      /\ \A a \in Elems(q) : Before(k.fwd_queue, a, r)
      /\ ~Drained(k)
  BY <1>3, <1>4, <1>5, EnlistInv
<1> HIDE DEF k
<1>7. k.resend = FALSE /\ k.phase \notin {"dead", "init", "gone"}
  <2>1. k.resend \in BOOLEAN  BY <1>6 DEF ConnType
  <2> QED  BY <2>1, <1>1, <1>6 DEF SameFlags
<1>8. ~Probing(k) /\ k.curr = k.last
  <2>1. PtrInv(k)  BY <1>6 DEF ConnInv, BaseInv
  <2> QED  BY <2>1, <1>7 DEF PtrInv, Probing
<1>9. r \notin UpTo(k.fwd_queue, k.last)
  <2>1. UpTo(q, conn[c].last) \subseteq Elems(q)  BY DEF UpTo
  <2> QED  BY <2>1, <1>4, <1>6
<1>10. \A x \in Elems(k.fwd_queue) : ~Before(k.fwd_queue, r, x)
  <2>1. k.fwd_queue \in Seq(Reqs) /\ NoDup(k.fwd_queue)
    BY <1>6 DEF ConnType, ConnInv, BaseInv, ListInv
  <2>2. \A a, b : ~(Before(k.fwd_queue, a, b) /\ Before(k.fwd_queue, b, a)) /\ ~Before(k.fwd_queue, a, a)
    BY <2>1, BeforeOrder
  <2> QED  BY <2>2, <1>6
<1> QED  BY <1>2, <1>4, <1>6, <1>7, <1>8, <1>9, <1>10 DEF k, c

\* The section of tfw_http_req_fwd(), and what it leaves if the queue is busy.
LEMMA ForwardGood ==
    ASSUME NEW k \in ConnType, ConnInv(k, nips), k.curr = k.last,
           ~Drained(k), ~Probing(k), k.phase \notin {"dead", "init", "gone"},
           NEW res, Answers(k, res)
    PROVE  LET u == IF OnHold(k) THEN Nothing(k) ELSE FwdUnsent(k, res)
           IN  /\ Good(k, u) /\ Quiet(k, u) /\ u.cut = {} /\ ConnInv(u.k, nips)
               /\ u.k.curr = u.k.last /\ ~Probing(u.k) /\ u.tried = {}
               /\ u.ret = "ebusy" => u.k.last = NoReq
               /\ OnHold(k) \/ u.ret = "ebusy" =>
                    /\ u.sent = {}
                    /\ \/ u.gone = {} /\ u.k = k
                       \/ u.k.last = NoReq /\ Ahead(k.fwd_queue, u.gone)
<1> DEFINE u == IF OnHold(k) THEN Nothing(k) ELSE FwdUnsent(k, res)
<1>1. CASE OnHold(k)
  <2>1. u = Nothing(k)  BY <1>1
  <2>2. Good(k, u) /\ Quiet(k, u) /\ u.cut = {}  BY <2>1, NothingGood
  <2>3. u.k = k /\ u.gone = {} /\ u.tried = {} /\ u.sent = {} /\ u.ret = "ok"
    BY <2>1 DEF Nothing, Section
  <2> HIDE DEF u
  <2>4. ConnInv(u.k, nips) /\ u.k.curr = u.k.last /\ ~Probing(u.k)  BY <2>3
  <2>5. u.ret # "ebusy"  BY <2>3
  <2> QED  BY <2>2, <2>3, <2>4, <2>5 DEF u
<1>2. CASE ~OnHold(k)
  <2>1. u = FwdUnsent(k, res)  BY <1>2
  <2>2. k.last \notin nips  BY <1>2 DEF OnHold
  <2>3. /\ Good(k, u) /\ Quiet(k, u) /\ u.cut = {}
        /\ ConnInv(u.k, nips) /\ u.k.curr = u.k.last /\ ~Probing(u.k)
        /\ u.ret = "ebusy" => u.k.last = NoReq /\ u.sent = {} /\ Ahead(k.fwd_queue, u.gone)
        /\ u.tried = {}
    BY <2>1, <2>2, FwdUnsentInv
  <2> HIDE DEF u
  <2> QED  BY <1>2, <2>3 DEF u
<1> QED  BY <1>1, <1>2

\* tfw_http_req_fwd_resched()
LEMMA FwdReschedKeeps ==
    ASSUME IInv, NEW r \in Reqs, FwdResched(r)
    PROVE  IInv'
<1> DEFINE c == pick[r]
           k == Enlist(conn[c], r)
           st == [status EXCEPT ![r] = "queued"]
<1>1. status[r] = "picked"  BY DEF FwdResched
<1>2. PICK res \in Outcomes(k) :
         LET u == IF OnHold(k) THEN Nothing(k) ELSE FwdUnsent(k, res) IN
         Leave(c, IF u.ret = "ebusy" THEN CutOff(u) ELSE u, st)
  BY DEF FwdResched
<1> DEFINE u == IF OnHold(k) THEN Nothing(k) ELSE FwdUnsent(k, res)
           s == IF u.ret = "ebusy" THEN CutOff(u) ELSE u
<1>3. Leave(c, s, st)  BY <1>2
<1>4. /\ c \in Conns /\ k \in ConnType /\ ConnInv(k, nips) /\ k.curr = k.last
      /\ ~Drained(k) /\ ~Probing(k) /\ k.phase \notin {"dead", "init", "gone"}
      /\ k.resend = FALSE
      /\ Elems(k.fwd_queue) = Elems(conn[c].fwd_queue) \cup {r}
      /\ UpTo(k.fwd_queue, k.last) = UpTo(conn[c].fwd_queue, conn[c].last)
  BY <1>1, EnlistFacts
<1>5. Answers(k, res)  BY OutcomesAnswer
<1> HIDE DEF c, k
<1>6. /\ Good(k, u) /\ Quiet(k, u) /\ u.cut = {} /\ ConnInv(u.k, nips)
      /\ u.k.curr = u.k.last /\ ~Probing(u.k)
      /\ u.ret = "ebusy" => u.k.last = NoReq
  BY <1>4, <1>5, ForwardGood
<1> HIDE DEF u
<1>7. u.k \in ConnType /\ u.k.phase = k.phase /\ (u.k.resend => k.resend)  BY <1>6 DEF Good
<1>8. Good(k, s) /\ s.bug = u.bug /\ ConnInv(s.k, nips)
  <2>1. CASE u.ret = "ebusy"
    <3>1. s = CutOff(u)  BY <2>1
    <3>2. SockInv(u.k) /\ FlightInv(u.k) /\ NoDup(u.k.fwd_queue) /\ u.k.fwd_queue \in Seq(Reqs)
      BY <1>6, <1>7 DEF ConnInv, BaseInv, ListInv, ConnType
    <3>3. Flight(u.k) = <<>>  BY <2>1, <1>6, <1>7, <3>2, NoFlight
    <3>4. u.k.phase # "init" /\ u.k.phase # "dead"  BY <1>4, <1>7
    <3> QED  BY <3>1, <3>2, <3>3, <3>4, <1>6, CutOffGood
  <2>2. CASE u.ret # "ebusy"
    BY <2>2, <1>6
  <2> QED  BY <2>1, <2>2
<1> HIDE DEF s
<1>9. Accounts(k, s)  BY <1>8, GoodAccounts
<1>10. Begins(c, k, st)  BY <1>1, <1>4, BeginsEnlist
<1>11. Usable(c, s, st)
  <2>1. ~s.k.resend /\ s.k.phase \notin {"dead", "init", "gone"}  BY <1>4, <1>8 DEF Good
  <2> QED  BY <2>1, <1>4, StillUsable
<1>12. Asserted(s)
  <2>1. s.k.phase = k.phase  BY <1>8 DEF Good
  <2> QED  BY <2>1, <1>6, <1>8 DEF Quiet, Asserted
<1> HIDE DEF st
<1> QED  BY <1>3, <1>4, <1>8, <1>9, <1>10, <1>11, <1>12, LeaveInv

\* tfw_http_req_fwd() of a request that is scheduled again.
LEMMA FwdAgainKeeps ==
    ASSUME IInv, NEW r \in Reqs, FwdAgain(r)
    PROVE  IInv'
<1> DEFINE c == pick[r]
           k == Enlist(conn[c], r)
           st == [status EXCEPT ![r] = "queued"]
           back == [status EXCEPT ![r] = "retry"]
<1>1. status[r] = "repicked"  BY DEF FwdAgain
<1>2. PICK res \in Outcomes(k) :
         LET u == IF OnHold(k) THEN Nothing(k) ELSE FwdUnsent(k, res) IN
         IF OnHold(k) \/ u.ret = "ebusy"
         THEN Leave(c, [u EXCEPT !.k = Delist(@, {r}, {})], back)
         ELSE Leave(c, u, st)
  BY DEF FwdAgain
<1> DEFINE u == IF OnHold(k) THEN Nothing(k) ELSE FwdUnsent(k, res)
<1>3. IF OnHold(k) \/ u.ret = "ebusy"
      THEN Leave(c, [u EXCEPT !.k = Delist(@, {r}, {})], back)
      ELSE Leave(c, u, st)
  BY <1>2
<1>4. /\ c \in Conns /\ k \in ConnType /\ ConnInv(k, nips) /\ k.curr = k.last
      /\ ~Drained(k) /\ ~Probing(k) /\ k.phase \notin {"dead", "init", "gone"}
      /\ k.resend = FALSE
      /\ r \notin Elems(conn[c].fwd_queue) /\ r \in Elems(k.fwd_queue)
      /\ Elems(k.fwd_queue) = Elems(conn[c].fwd_queue) \cup {r}
      /\ UpTo(k.fwd_queue, k.last) = UpTo(conn[c].fwd_queue, conn[c].last)
      /\ r \notin UpTo(k.fwd_queue, k.last)
      /\ \A x \in Elems(k.fwd_queue) : ~Before(k.fwd_queue, r, x)
  BY <1>1, EnlistFacts
<1>5. Answers(k, res)  BY OutcomesAnswer
<1> HIDE DEF c, k
<1>6. /\ Good(k, u) /\ Quiet(k, u) /\ u.cut = {} /\ ConnInv(u.k, nips)
      /\ u.k.curr = u.k.last /\ ~Probing(u.k) /\ u.tried = {}
      /\ OnHold(k) \/ u.ret = "ebusy" =>
           /\ u.sent = {}
           /\ \/ u.gone = {} /\ u.k = k
              \/ u.k.last = NoReq /\ Ahead(k.fwd_queue, u.gone)
  BY <1>4, <1>5, ForwardGood
<1> HIDE DEF u
<1>7. /\ IsSection(u) /\ u.k \in ConnType /\ u.k.phase = k.phase /\ (u.k.resend => k.resend)
      /\ u.gone \subseteq Elems(k.fwd_queue)
      /\ Elems(u.k.fwd_queue) = Elems(k.fwd_queue) \ u.gone /\ Once(k, u)
  BY <1>6 DEF Good
<1>8. CASE ~(OnHold(k) \/ u.ret = "ebusy")
  <2>1. Leave(c, u, st)  BY <1>3, <1>8
  <2>2. Accounts(k, u)  BY <1>6, GoodAccounts
  <2>3. Begins(c, k, st)  BY <1>1, <1>4, BeginsEnlist
  <2>4. Usable(c, u, st)
    <3>1. ~u.k.resend /\ u.k.phase \notin {"dead", "init", "gone"}  BY <1>4, <1>7
    <3> QED  BY <3>1, <1>4, StillUsable
  <2>5. Asserted(u)  BY <1>6, <1>7 DEF Quiet, Asserted
  <2> HIDE DEF st
  <2> QED  BY <2>1, <2>2, <2>3, <2>4, <2>5, <1>4, <1>6, LeaveInv
<1>9. CASE OnHold(k) \/ u.ret = "ebusy"
  <2> DEFINE e == Delist(u.k, {r}, {})
             t == [u EXCEPT !.k = e]
  <2>1. Leave(c, t, back)
    <3>1. [u EXCEPT !.k = Delist(@, {r}, {})] = t  BY <1>7 DEF IsSection
    <3> QED  BY <3>1, <1>3, <1>9
  <2>2. u.sent = {} /\ (\/ u.gone = {} /\ u.k = k
                        \/ u.k.last = NoReq /\ Ahead(k.fwd_queue, u.gone))
    BY <1>6, <1>9
  <2>3. r \notin u.gone
    <3>1. CASE u.gone = {}
      BY <3>1
    <3>2. CASE Ahead(k.fwd_queue, u.gone)
      BY <3>2, <1>4 DEF Ahead
    <3> QED  BY <2>2, <3>1, <3>2
  <2>4. r \in Elems(u.k.fwd_queue)  BY <2>3, <1>4, <1>7
  <2>5. r \notin UpTo(u.k.fwd_queue, u.k.last)
    <3>1. CASE u.k = k
      BY <3>1, <1>4
    <3>2. CASE u.k.last = NoReq
      <4>1. u.k.fwd_queue \in Seq(Reqs) /\ NoDup(u.k.fwd_queue)
        BY <1>6, <1>7 DEF ConnType, ConnInv, BaseInv, ListInv
      <4>2. UpTo(u.k.fwd_queue, NoReq) = {}  BY <4>1, UpToFacts
      <4> QED  BY <3>2, <4>2
    <3> QED  BY <2>2, <3>1, <3>2
  <2>6. /\ e \in ConnType /\ ConnInv(e, nips)
        /\ Elems(e.fwd_queue) = Elems(u.k.fwd_queue) \ {r}
        /\ UpTo(e.fwd_queue, e.last) = UpTo(u.k.fwd_queue, u.k.last)
        /\ e.phase = u.k.phase /\ e.resend = u.k.resend
    BY <1>6, <1>7, <2>4, <2>5, TakeBackInv
  <2> HIDE DEF e
  <2>7. /\ t.k = e /\ t.gone = u.gone /\ t.cut = {} /\ t.tried = {} /\ t.sent = {}
        /\ t.bug = u.bug
    BY <1>6, <1>7, <2>2 DEF IsSection
  <2> HIDE DEF t
  <2>8. Accounts(conn[c], t)
    <3>1. t.gone \cup t.cut \subseteq Elems(conn[c].fwd_queue) /\ t.gone \cap t.cut = {}
      BY <1>4, <1>7, <2>3, <2>7
    <3>2. Elems(t.k.fwd_queue) = Elems(conn[c].fwd_queue) \ (t.gone \cup t.cut)
      BY <1>4, <1>7, <2>6, <2>7
    <3>3. Once(conn[c], t)  BY <1>4, <1>7, <2>2, <2>6, <2>7, <1>6 DEF Once
    <3> QED  BY <3>1, <3>2, <3>3, <2>6, <2>7 DEF Accounts
  <2>9. Begins(c, conn[c], back)  BY <1>1, <1>4, BeginsBack
  <2>10. Usable(c, t, back)
    <3>1. ~t.k.resend /\ t.k.phase \notin {"dead", "init", "gone"}  BY <1>4, <1>7, <2>6, <2>7
    <3> QED  BY <3>1, <1>4, StillUsable
  <2>11. Asserted(t)  BY <1>6, <1>7, <2>6, <2>7 DEF Quiet, Asserted
  <2>12. ConnInv(t.k, nips)  BY <2>6, <2>7
  <2> HIDE DEF back
  <2> QED  BY <2>1, <2>8, <2>9, <2>10, <2>11, <2>12, <1>4, LeaveInv
<1> QED  BY <1>8, <1>9

-----------------------------------------------------------------------------
(* The steps of a connection. *)

\* A section that begins with the connection as it is.
LEMMA SectionKeeps ==
    ASSUME IInv, NEW c \in Conns, NEW k, k.fwd_queue = conn[c].fwd_queue, k.last = conn[c].last,
           NEW u, Good(k, u), ConnInv(u.k, nips), Asserted(u),
           \/ conn[c].phase \in {"dead", "init", "gone"}
           \/ Unreferenced(c)
           \/ /\ u.k.resend => conn[c].resend
              /\ u.k.phase \notin {"dead", "init", "gone"},
           Leave(c, u, status)
    PROVE  IInv'
<1>1. Begins(c, k, status)  BY BeginsSame
<1>2. Accounts(k, u)  BY GoodAccounts
<1>3. Usable(c, u, status)  BY StillUsable
<1> QED  BY <1>1, <1>2, <1>3, LeaveInv

\* A step that moves no request.
LEMMA NothingKeeps ==
    ASSUME IInv, NEW c \in Conns, NEW d \in ConnType, ConnInv(d, nips),
           d.fwd_queue = conn[c].fwd_queue, d.last = conn[c].last,
           \/ conn[c].phase \in {"dead", "init", "gone"}
           \/ Unreferenced(c)
           \/ /\ d.resend => conn[c].resend
              /\ d.phase \notin {"dead", "init", "gone"},
           Leave(c, Nothing(d), status)
    PROVE  IInv'
<1> DEFINE u == Nothing(d)
<1>1. Good(d, u)  BY NothingGood
<1>2. u.k = d /\ u.bug = "none"  BY DEF Nothing, Section
<1> HIDE DEF u
<1>3. ConnInv(u.k, nips) /\ Asserted(u)  BY <1>2 DEF Asserted
<1>4. Leave(c, u, status)  BY DEF u
<1> QED  BY <1>1, <1>2, <1>3, <1>4, SectionKeeps

\* tfw_http_on_tcp_entail_req()
LEMMA EntailKeeps ==
    ASSUME IInv, NEW c \in Conns, Entail(c)
    PROVE  IInv'
<1> DEFINE k == conn[c]
           r == k.tx[1]
           t == [k EXCEPT !.tx = Tail(@)]
           d == Transmit(t, r)
           u == Section([Delist(t, {r}, {}) EXCEPT
                           !.last = IF @ = r THEN MsgSentPrev(k, r) ELSE @,
                           !.curr = IF @ = r THEN MsgSentPrev(k, r) ELSE @],
                        {r}, {}, {}, "ok", "none")
<1>1. k.tx # <<>> /\ k.phase \in Active  BY DEF Entail
<1>2. Leave(c, IF r \notin dropped THEN Nothing(d) ELSE u, status)  BY DEF Entail
<1>3. k \in ConnType /\ ConnInv(k, nips)  BY ConnFacts
<1>4. CASE r \notin dropped
  <2>1. Leave(c, Nothing(d), status)  BY <1>2, <1>4
  <2>2. /\ d \in ConnType /\ ConnInv(d, nips)
        /\ SameList(d, k) /\ SamePtr(d, k) /\ SameFlags(d, k)
    BY <1>1, <1>3, TransmitInv
  <2> HIDE DEF d
  <2>3. /\ d.fwd_queue = conn[c].fwd_queue /\ d.last = conn[c].last
        /\ d.resend = conn[c].resend /\ d.phase \notin {"dead", "init", "gone"}
    BY <2>2, <1>1 DEF SameList, SamePtr, SameFlags, Active
  <2> QED  BY <2>1, <2>2, <2>3, NothingKeeps
<1>5. CASE r \in dropped
  <2>1. Leave(c, u, status)  BY <1>2, <1>5
  <2>2. Good(k, u) /\ ConnInv(u.k, nips) /\ u.bug = "none"  BY <1>1, <1>3, EntailDropGood
  <2> HIDE DEF u
  <2>3. (u.k.resend => conn[c].resend) /\ u.k.phase \notin {"dead", "init", "gone"}
    BY <2>2, <1>1 DEF Good, Active
  <2>4. Asserted(u)  BY <2>2 DEF Asserted
  <2> QED  BY <2>1, <2>2, <2>3, <2>4, SectionKeeps
<1> QED  BY <1>4, <1>5

\* A response is paired with its request.
LEMMA RespStartKeeps ==
    ASSUME IInv, NEW c \in Conns, RespStart(c) \/ RespSibling(c)
    PROVE  IInv'
<1> DEFINE k == conn[c]
           r == RespPair(k)
<1>1. k.phase \in {"up", "closed"} /\ k.wire # <<>>  BY DEF RespStart, RespSibling
<1>2. k \in ConnType /\ ConnInv(k, nips)  BY ConnFacts
<1>3. k.sib = NoReq
  <2>1. SockInv(k)  BY <1>2 DEF ConnInv, BaseInv
  <2> QED  BY <2>1 DEF RespStart, RespSibling, SockInv
<1>4. r = k.wire[1] /\ r \in Reqs /\ r # NoReq  BY <1>1, <1>2, <1>3, RespPairRight, ReqsAssumption
<1>5. PICK d : /\ \/ k.msg = NoReq /\ d = [k EXCEPT !.wire = Tail(@), !.msg = r]
                  \/ k.msg # NoReq /\ d = [k EXCEPT !.wire = Tail(@), !.sib = r]
               /\ Leave(c, Nothing(d), status)
  BY <1>4 DEF RespStart, RespSibling
<1> HIDE DEF r
<1>6. Tail(k.wire) \in Seq(Reqs)  BY <1>1, <1>2, TailBefore DEF ConnType
<1>7. /\ d \in ConnType /\ SameList(d, k) /\ SamePtr(d, k) /\ SameFlags(d, k)
      /\ d.tx = k.tx /\ d.wire = Tail(k.wire)
      /\ \/ k.msg = NoReq /\ d.msg = k.wire[1] /\ d.sib = NoReq
         \/ k.msg # NoReq /\ d.msg = k.msg /\ d.sib = k.wire[1]
  <2> DEFINE w == Tail(k.wire)
  <2> HIDE DEF w
  <2>0. r \in ReqOrNone /\ w \in Seq(Reqs)  BY <1>4, <1>6 DEF ReqOrNone, w
  <2>1. CASE k.msg = NoReq /\ d = [k EXCEPT !.wire = w, !.msg = r]
    <3>1. d \in ConnType  BY <2>0, <2>1, <1>2 DEF ConnType
    <3>2. SameList(d, k) /\ SamePtr(d, k) /\ SameFlags(d, k)
      BY <2>1, <1>2 DEF ConnType, SameList, SamePtr, SameFlags
    <3>3. d.tx = k.tx /\ d.wire = w /\ d.msg = r /\ d.sib = k.sib  BY <2>1, <1>2 DEF ConnType
    <3> QED  BY <3>1, <3>2, <3>3, <2>1, <1>3, <1>4 DEF w
  <2>2. CASE k.msg # NoReq /\ d = [k EXCEPT !.wire = w, !.sib = r]
    <3>1. d \in ConnType  BY <2>0, <2>2, <1>2 DEF ConnType
    <3>2. SameList(d, k) /\ SamePtr(d, k) /\ SameFlags(d, k)
      BY <2>2, <1>2 DEF ConnType, SameList, SamePtr, SameFlags
    <3>3. d.tx = k.tx /\ d.wire = w /\ d.msg = k.msg /\ d.sib = r  BY <2>2, <1>2 DEF ConnType
    <3> QED  BY <3>1, <3>2, <3>3, <2>2, <1>4 DEF w
  <2> QED  BY <2>1, <2>2, <1>5 DEF w
<1>8. ConnInv(d, nips)  BY <1>1, <1>2, <1>3, <1>7, PairedInv
<1>9. /\ d.fwd_queue = conn[c].fwd_queue /\ d.last = conn[c].last
      /\ d.resend = conn[c].resend /\ d.phase \notin {"dead", "init", "gone"}
  BY <1>1, <1>7 DEF SameList, SamePtr, SameFlags
<1> QED  BY <1>5, <1>7, <1>8, <1>9, NothingKeeps

\* The socket is closed.
LEMMA SockCloseKeeps ==
    ASSUME IInv, NEW c \in Conns, SockClose(c)
    PROVE  IInv'
<1> DEFINE k == conn[c]
           d == [k EXCEPT !.phase = "closed", !.tx = <<>>]
<1>1. k.phase \in Active /\ Leave(c, Nothing(d), status)  BY DEF SockClose
<1>2. k \in ConnType /\ ConnInv(k, nips)  BY ConnFacts
<1>3. /\ d \in ConnType /\ ConnInv(d, nips) /\ SameList(d, k) /\ SamePtr(d, k)
      /\ d.resend = k.resend /\ d.phase = "closed"
  BY <1>1, <1>2, CloseInv
<1> HIDE DEF d
<1>4. d.fwd_queue = conn[c].fwd_queue /\ d.last = conn[c].last  BY <1>3 DEF SameList, SamePtr
<1> QED  BY <1>1, <1>3, <1>4, NothingKeeps

\* The first hook of connection establishment, and a failed attempt.
LEMMA ConnectInitKeeps ==
    ASSUME IInv, NEW c \in Conns, ConnectInit(c)
    PROVE  IInv'
<1> DEFINE k == conn[c]
           d == IF k.fwd_queue = <<>> THEN [k EXCEPT !.phase = "finish"]
                ELSE [k EXCEPT !.phase = "init", !.curr = NoReq, !.resend = TRUE]
<1>1. k.phase = "dead" /\ Leave(c, Nothing(d), status)  BY DEF ConnectInit
<1>2. k \in ConnType /\ ConnInv(k, nips)  BY ConnFacts
<1>3. d \in ConnType /\ ConnInv(d, nips) /\ SameList(d, k) /\ d.last = k.last
  BY <1>1, <1>2, ConnectInv
<1> HIDE DEF d
<1>4. d.fwd_queue = conn[c].fwd_queue /\ d.last = conn[c].last  BY <1>3 DEF SameList
<1> QED  BY <1>1, <1>3, <1>4, NothingKeeps

\* tfw_srv_conn_release(), after a loss and after a failed attempt to connect.
LEMMA ConnReleaseKeeps ==
    ASSUME IInv, NEW c \in Conns, ConnRelease(c) \/ ConnectFail(c)
    PROVE  IInv'
<1> DEFINE k == conn[c]
           d == [ClearRestricted(k) EXCEPT !.phase = "dead", !.tx = <<>>]
           u == Release(k)
<1>1. /\ k.phase \in {"dropped", "stolen", "dead"} /\ Leave(c, u, status)
      /\ conn[c].phase \in {"dead", "init", "gone"} \/ Unreferenced(c)
  BY DEF ConnRelease, ConnectFail
<1>2. k \in ConnType /\ ConnInv(k, nips)  BY ConnFacts
<1>3. /\ d \in ConnType /\ SameList(d, k) /\ SamePtr(d, k) /\ d.phase = "dead"
      /\ Good(d, u) /\ u.bug = "none" /\ ConnInv(u.k, nips)
  BY <1>1, <1>2, ReleaseGood
<1> HIDE DEF d, u
<1>4. d.fwd_queue = conn[c].fwd_queue /\ d.last = conn[c].last  BY <1>3 DEF SameList, SamePtr
<1>5. Asserted(u)  BY <1>3 DEF Asserted
<1> QED  BY <1>1, <1>3, <1>4, <1>5, SectionKeeps

\* tfw_http_conn_repair() of a connection that is established again.
LEMMA ConnRepairKeeps ==
    ASSUME IInv, NEW c \in Conns, ConnRepair(c)
    PROVE  IInv'
<1> DEFINE k == conn[c]
           d == [k EXCEPT !.phase = "finish"]
<1>1. PICK res \in Outcomes(d) : k.phase = "init" /\ Leave(c, RepairLive(d, res), status)
  BY DEF ConnRepair
<1>2. k \in ConnType /\ ConnInv(k, nips) /\ nips \subseteq Reqs /\ retries \in [Reqs -> 0..MaxRefwd]
  BY ConnFacts
<1>3. /\ d \in ConnType /\ BaseInv(d, nips) /\ Probing(d) /\ d.curr = NoReq
      /\ d.phase = "finish" /\ SameList(d, k) /\ d.last = k.last
  BY <1>1, <1>2, RepairStart
<1>4. Answers(d, res)  BY OutcomesAnswer
<1> HIDE DEF d
<1> DEFINE u == RepairLive(d, res)
<1>5. /\ Good(d, u) /\ ConnInv(u.k, nips)
      /\ u.bug = "none" \/ (u.bug = "treatnip_nip" /\ u.k.unsched)
  BY <1>2, <1>3, <1>4, RepairLiveGood
<1>6. Leave(c, u, status)  BY <1>1
<1> HIDE DEF u
<1>7. d.fwd_queue = conn[c].fwd_queue /\ d.last = conn[c].last  BY <1>3 DEF SameList
<1>8. Asserted(u)  BY <1>5 DEF Asserted
<1> QED  BY <1>1, <1>5, <1>6, <1>7, <1>8, SectionKeeps

\* The connection is up; its websocket flag is cleared.
LEMMA ConnectFinishKeeps ==
    ASSUME IInv, bug = "none", NEW c \in Conns, ConnectFinish(c)
    PROVE  IInv'
<1> DEFINE k == conn[c]
           d == [k EXCEPT !.phase = "up", !.recns = 0, !.unsched = FALSE]
<1>1. /\ k.phase = "finish" /\ status' = status /\ pick' = pick /\ nips' = nips /\ retries' = retries
      /\ sends' = sends /\ bug' = bug /\ dropped' = dropped /\ late' = late
  BY DEF ConnectFinish
<1>2. /\ TypeOK /\ AssertionsHold /\ OwnInv /\ SentInv
      /\ \A x \in Reqs : PickInv(x)
      /\ \A b \in Conns : ConnInv(conn[b], nips)
  BY DEF IInv
<1>3. k \in ConnType /\ ConnInv(k, nips) /\ conn \in [Conns -> ConnType]
  BY ConnFacts DEF IInv, TypeOK
<1>4. /\ d \in ConnType /\ ConnInv(d, nips) /\ SameList(d, k) /\ SamePtr(d, k)
      /\ d.resend = k.resend /\ d.phase = "up"
  BY <1>1, <1>3, FinishInv
<1>5. conn' = [conn EXCEPT ![c] = d]  BY <1>3 DEF ConnectFinish, ConnType
<1> HIDE DEF d
<1>6. conn' \in [Conns -> ConnType] /\ conn'[c] = d /\ \A b \in Conns : b # c => conn'[b] = conn[b]
  BY <1>3, <1>4, <1>5
<1>7. \A b \in Conns : conn'[b].fwd_queue = conn[b].fwd_queue /\ conn'[b].last = conn[b].last
                       /\ conn'[b].resend = conn[b].resend
  BY <1>4, <1>6 DEF SameList, SamePtr
<1>8. TypeOK'  BY <1>1, <1>2, <1>6 DEF TypeOK
<1>9. OwnInv'  BY <1>1, <1>2, <1>7 DEF OwnInv
<1>10. SentInv'  BY <1>1, <1>2, <1>7 DEF SentInv, Pending
<1>11. ASSUME NEW x \in Reqs PROVE PickInv(x)'
  <2>1. /\ status[x] \in {"picked", "repicked"} <=> pick[x] # NoConn
        /\ pick[x] # NoConn => ~conn[pick[x]].resend /\ conn[pick[x]].phase \notin {"dead", "init", "gone"}
        /\ pick[x] \in Conns \cup {NoConn}
    BY <1>2 DEF PickInv, TypeOK
  <2> QED  BY <2>1, <1>1, <1>4, <1>6, <1>7 DEF PickInv
<1>12. ASSUME NEW b \in Conns PROVE ConnInv(conn'[b], nips')
  <2>1. CASE b = c
    BY <2>1, <1>1, <1>4, <1>6
  <2>2. CASE b # c
    BY <2>2, <1>1, <1>2, <1>6
  <2> QED  BY <2>1, <2>2
<1>13. AssertionsHold'  BY <1>1 DEF AssertionsHold
<1> QED  BY <1>8, <1>9, <1>10, <1>11, <1>12, <1>13 DEF IInv

-----------------------------------------------------------------------------
(* No section that forwards requests touches the responses. *)

\* The next response of connection k is paired with x, if it has begun.
Sib(k, x) == "sib" \in DOMAIN k /\ k.sib = x

\* The same of the connection of section u.
Sibs(u, x) == IsSection(u) /\ Sib(u.k, x)

\* The loop that sends requests.
LEMMA LoopSib ==
    ASSUME NEW x, NEW k, Sib(k, x), NEW s, NEW skip, NEW stop, NEW res
    PROVE  Sib(SendLoop(k, s, skip, stop, res).k, x)
<1>1. ASSUME NEW gone, NEW sent, NEW done, NEW code
      PROVE  Sib(LoopEnds(k, s, gone, sent, done, code).k, x)
  BY DEF LoopEnds, Delist, Sib
<1>2. ASSUME NEW out, NEW n, NEW code
      PROVE  Sib(LoopUpTo(k, s, skip, out, n, code).k, x)
  BY <1>1 DEF LoopUpTo
<1>3. ASSUME NEW out, NEW stops
      PROVE  Sib(LoopRun(k, s, skip, out, stops).k, x)
  BY <1>2 DEF LoopRun
<1> QED  BY <1>3 DEF SendLoop, LoopOver

\* tfw_http_conn_fwd_unsent()
LEMMA FwdUnsentSib ==
    ASSUME NEW x, NEW k, Sib(k, x), NEW res
    PROVE  Sibs(FwdUnsent(k, res), x)
<1> DEFINE l == SendLoop(k, UnsentPart(k), Stale, nips, res)
<1>1. Sib(l.k, x)  BY LoopSib
<1> HIDE DEF l
<1>2. Sib(Forwarded(k, l).k, x)  BY <1>1 DEF Forwarded, Section, Delist, Sib
<1>3. Sib(FwdUnsent(k, res).k, x)  BY <1>2 DEF FwdUnsent, Section, l
<1>4. IsSection(FwdUnsent(k, res))  BY DEF FwdUnsent, Forwarded, Section, IsSection
<1> QED  BY <1>3, <1>4 DEF Sibs

\* tfw_http_conn_resend()
LEMMA ResendSib ==
    ASSUME NEW x, NEW k, Sib(k, x), NEW first, NEW res
    PROVE  Sibs(Resend(k, first, res), x)
<1> DEFINE s == SentPart(k)
           skip == Stale \cup {r \in Elems(s) : retries[r] >= MaxRefwd}
           l == SendLoop(k, s, skip, IF first THEN Reqs ELSE {}, res)
<1>1. Sib(l.k, x)  BY LoopSib
<1> HIDE DEF l
<1>2. ASSUME NEW f, NEW g PROVE /\ Sib([l.k EXCEPT !.curr = f], x)
                               /\ Sib([l.k EXCEPT !.curr = f, !.last = g], x)
  BY <1>1 DEF Sib
<1>3. Sib(Resent(k, first, s, l).k, x)  BY <1>2 DEF Resent, Section
<1>4. Sib(Resend(k, first, res).k, x)  BY <1>3 DEF Resend, Nothing, Section, l
<1>5. IsSection(Resend(k, first, res))  BY DEF Resend, Resent, Nothing, Section, IsSection
<1> QED  BY <1>4, <1>5 DEF Sibs

\* tfw_srv_conn_reenable_if_done()
LEMMA ReenableSib ==
    ASSUME NEW x, NEW u, Sib(u.k, x)
    PROVE  Sibs(ThenReenable(u), x)
<1>1. Sib(ReenableIfDone(u.k).k, x)
  BY DEF ReenableIfDone, Nothing, Section, ClearRestricted, Sib
<1>2. ThenReenable(u).k = ReenableIfDone(u.k).k  BY DEF ThenReenable, Then
<1>3. IsSection(ThenReenable(u))
  <2> DEFINE v == Then(u, ReenableIfDone(u.k))
             w == [k |-> v.k, gone |-> v.gone, cut |-> v.cut, tried |-> v.tried, sent |-> v.sent,
                   ret |-> u.ret, bug |-> v.bug]
  <2>1. IsSection(v)  BY DEF Then, IsSection
  <2> HIDE DEF v
  <2>2. ThenReenable(u) = w  BY <2>1 DEF ThenReenable, IsSection, v
  <2>3. IsSection(w)  BY DEF IsSection
  <2> QED  BY <2>2, <2>3
<1> QED  BY <1>1, <1>2, <1>3 DEF Sibs

\* tfw_http_conn_fwd_repair()
LEMMA FwdRepairSib ==
    ASSUME NEW x, NEW k, Sib(k, x), NEW res, NEW res2
    PROVE  Sibs(FwdRepair(k, res, res2), x)
<1>1. ASSUME NEW d, Sib(d, x), NEW f PROVE Sibs(FwdRepairUnsent(d, f), x)
  <2> DEFINE u == IF NeedFwd(d) THEN FwdUnsent(d, f) ELSE Nothing(d)
  <2>1. Sib(u.k, x)
    <3>1. CASE NeedFwd(d)
      <4>1. u = FwdUnsent(d, f)  BY <3>1
      <4> QED  BY <4>1, <1>1, FwdUnsentSib DEF Sibs
    <3>2. CASE ~NeedFwd(d)
      BY <1>1, <3>2 DEF Nothing, Section
    <3> QED  BY <3>1, <3>2
  <2> HIDE DEF u
  <2>2. Sibs(ThenReenable(u), x)  BY <2>1, ReenableSib
  <2> QED  BY <2>2 DEF FwdRepairUnsent, u
<1>2. ASSUME NEW s, Sibs(s, x), NEW f PROVE Sibs(FwdRepairResent(s, f), x)
  <2> DEFINE d == [s.k EXCEPT !.qforwd = TRUE]
  <2>1. Sib(d, x)  BY <1>2 DEF Sib, Sibs
  <2> HIDE DEF d
  <2>2. Sibs(FwdRepairUnsent(d, f), x)  BY <2>1, <1>1
  <2>3. CASE s.ret = "ebadf"
    <3>1. FwdRepairResent(s, f) = [s EXCEPT !.ret = "ok"]  BY <2>3 DEF FwdRepairResent
    <3>2. [s EXCEPT !.ret = "ok"].k = s.k /\ IsSection([s EXCEPT !.ret = "ok"])
      BY <1>2 DEF Sibs, IsSection
    <3> QED  BY <3>1, <3>2, <1>2 DEF Sibs
  <2>4. CASE s.ret # "ebadf"
    <3>1. FwdRepairResent(s, f) = Then(s, FwdRepairUnsent(d, f))  BY <2>4 DEF FwdRepairResent, d
    <3>2. Then(s, FwdRepairUnsent(d, f)).k = FwdRepairUnsent(d, f).k
          /\ IsSection(Then(s, FwdRepairUnsent(d, f)))
      BY DEF Then, IsSection
    <3> QED  BY <3>1, <3>2, <2>2 DEF Sibs
  <2> QED  BY <2>3, <2>4
<1>3. Sibs(ReenableIfDone(k), x)
  BY DEF ReenableIfDone, Nothing, Section, ClearRestricted, Sib, Sibs, IsSection
<1>4. Sibs(FwdRepairUnsent(k, res), x)  BY <1>1
<1>5. Sibs(FwdRepairResent(Resend(k, FALSE, res), res2), x)  BY <1>2, ResendSib
<1>6. Sibs(Section(k, {}, {}, {}, "ok", "not_restricted"), x)  BY DEF Section, IsSection, Sibs
<1> QED  BY <1>3, <1>4, <1>5, <1>6 DEF FwdRepair

\* The queue is cut off.
LEMMA BusySib ==
    ASSUME NEW x, NEW s, Sibs(s, x)
    PROVE  Sib(ReschedIfBusy(s).k, x)
<1>1. CASE s.ret # "ebusy"
  BY <1>1 DEF ReschedIfBusy, Sibs
<1>2. CASE s.ret = "ebusy"
  <2>1. PICK b : ReschedIfBusy(s) = CutOff([s EXCEPT !.k = ClearRestricted(s.k), !.bug = b])
    BY <1>2 DEF ReschedIfBusy, IsSection, Sibs
  <2> DEFINE t == [s EXCEPT !.k = ClearRestricted(s.k), !.bug = b]
  <2>2. t.k = ClearRestricted(s.k) /\ "k" \in DOMAIN t  BY DEF IsSection, Sibs
  <2> HIDE DEF t
  <2>3. CutOff(t).k = FwdqReset(t.k)  BY <2>2 DEF CutOff
  <2>4. Sib(FwdqReset(t.k), x)  BY <2>2 DEF FwdqReset, ClearRestricted, Sib, Sibs
  <2> QED  BY <2>1, <2>3, <2>4 DEF t
<1> QED  BY <1>1, <1>2

\* tfw_http_popreq()
LEMMA PopReqSib ==
    ASSUME NEW x, NEW k, NEW r, Sib(Unlink(k, r), x), NEW fwd_unsent, NEW res, NEW res2
    PROVE  Sib(PopReq(k, r, fwd_unsent, res, res2).k, x)
<1> DEFINE p == Unlink(k, r)
<1> HIDE DEF p
<1>0. Sib(p, x)  BY DEF p
<1>1. Sib(Nothing(p).k, x)  BY <1>0 DEF Nothing, Section
<1>2. Sib(ReschedIfBusy(FwdRepair(p, res, res2)).k, x)  BY <1>0, FwdRepairSib, BusySib
<1>3. Sib(ReschedIfBusy(FwdUnsent(p, res)).k, x)  BY <1>0, FwdUnsentSib, BusySib
<1> QED  BY <1>1, <1>2, <1>3 DEF PopReq, p

-----------------------------------------------------------------------------
(* The request of a response leaves the queue. *)

\* A section that begins after the request of the response left the queue.
LEMMA PopKeeps ==
    ASSUME IInv, NEW c \in Conns, conn[c].msg # NoReq, conn[c].phase \in {"up", "closed"},
           NEW k \in ConnType, Popping(k, conn[c]), NEW f \in Finished, NEW t,
           Accounts(Unlink(k, conn[c].msg), t), ConnInv(t.k, nips), Asserted(t),
           t.k.resend => conn[c].resend, t.k.phase \notin {"dead", "init", "gone"},
           Leave(c, t, [status EXCEPT ![conn[c].msg] = f])
    PROVE  IInv'
<1> DEFINE r == conn[c].msg
           p == Unlink(k, r)
           st == [status EXCEPT ![r] = f]
<1>1. conn[c] \in ConnType /\ ConnInv(conn[c], nips)  BY ConnFacts
<1>2. /\ r \in Elems(conn[c].fwd_queue)
      /\ Elems(p.fwd_queue) = Elems(conn[c].fwd_queue) \ {r}
      /\ UpTo(p.fwd_queue, p.last) = UpTo(conn[c].fwd_queue, conn[c].last) \ {r}
  BY <1>1, UnlinkInv
<1>3. Accounts(p, t) /\ Leave(c, t, st)  OBVIOUS
<1> HIDE DEF p, r
<1>4. Begins(c, p, st)  BY <1>2, BeginsPop
<1>5. Usable(c, t, st)  BY StillUsable
<1> HIDE DEF st
<1> QED  BY <1>3, <1>4, <1>5, LeaveInv

\* What tfw_http_popreq(), section u, makes of connection c, which was p when
\* the request of the response had left.
Popped(c, k, p, u) ==
    /\ Accounts(p, u) /\ IsSection(u) /\ u.k \in ConnType
    /\ ConnInv(u.k, nips) /\ u.k.phase = k.phase /\ Quiet(k, u)
    /\ u.k.resend => conn[c].resend
    /\ u.k.sib = NoReq

\* tfw_http_popreq() with the requests behind it.
LEMMA PopSection ==
    ASSUME IInv, NEW c \in Conns, conn[c].msg # NoReq, conn[c].phase \in {"up", "closed"},
           NEW k \in ConnType, Popping(k, conn[c]), NEW fwd_unsent \in BOOLEAN,
           NEW res, NEW res2, Answers(k, res), Probing(conn[c]) => Answers(k, res2)
    PROVE  LET p == Unlink(k, conn[c].msg)
               u == PopReq(k, conn[c].msg, fwd_unsent, res, res2)
           IN  Popped(c, k, p, u)
<1> DEFINE r == conn[c].msg
           p == Unlink(k, r)
           u == PopReq(k, r, fwd_unsent, res, res2)
<1>1. conn[c] \in ConnType /\ ConnInv(conn[c], nips) /\ retries \in [Reqs -> 0..MaxRefwd]
  BY ConnFacts
<1>2. /\ p \in ConnType /\ ConnInv(p, nips) /\ p.phase = k.phase
      /\ p.resend = conn[c].resend /\ p.qforwd = conn[c].qforwd
      /\ SameSock(p, k) /\ (Probing(p) => p.curr = NoReq)
  BY <1>1, UnlinkInv
<1>3. k.phase \in {"up", "closed", "stolen", "dropped"} /\ k.sib = NoReq  BY DEF Popping
<1> HIDE DEF r
<1>4. /\ p \in ConnType /\ ConnInv(p, nips) /\ (Probing(p) => p.curr = NoReq)
      /\ p.phase \in Active \cup {"stolen", "closed", "dropped"}
      /\ fwd_unsent => Answers(p, res) /\ (Probing(p) => Answers(p, res2))
  <2>1. Answers(p, res)  BY <1>2 DEF Answers
  <2>2. Probing(p) => Answers(p, res2)  BY <1>2 DEF Answers, Probing
  <2> HIDE DEF p
  <2> QED  BY <2>1, <2>2, <1>2, <1>3 DEF Active
<1>5. Good(p, u) /\ Quiet(p, u) /\ ConnInv(u.k, nips)  BY <1>1, <1>4, PopReqGood
<1>6. u.k.sib = NoReq
  <2>1. Sib(p, NoReq)  BY <1>2, <1>3 DEF SameSock, Sib, ConnType
  <2>2. Sib(u.k, NoReq)  BY <2>1, PopReqSib
  <2> QED  BY <2>2 DEF Sib
<1> HIDE DEF p, u
<1>7. Accounts(p, u)  BY <1>5, GoodAccounts
<1>8. IsSection(u) /\ u.k \in ConnType /\ u.k.phase = k.phase /\ (u.k.resend => conn[c].resend)
  BY <1>2, <1>5 DEF Good
<1>9. Quiet(k, u)  BY <1>2, <1>5 DEF Quiet
<1>10. Popped(c, k, p, u)  BY <1>5, <1>6, <1>7, <1>8, <1>9 DEF Popped
<1> QED  BY <1>10 DEF p, u, r

\* tfw_http_resp_cache(): the response is complete, and may be blocked.
LEMMA RespDoneKeeps ==
    ASSUME IInv, NEW c \in Conns, RespDone(c)
    PROVE  IInv'
<1> DEFINE r == conn[c].msg
           k == [conn[c] EXCEPT !.msg = conn[c].sib, !.sib = NoReq]
<1>1. conn[c].phase \in {"up", "closed"} /\ r # NoReq  BY DEF RespDone
<1>2. PICK failed \in BOOLEAN, res \in Outcomes(conn[c]), res2 \in Outcomes2(conn[c]) :
         LET p == PopReq(k, r, TRUE, res, res2)
             d == [Stop(p.k, "closing") EXCEPT
                     !.msg = NoReq, !.unsched = @ /\ r \notin Upgrade]
         IN Leave(c, IF failed THEN [p EXCEPT !.k = d] ELSE p,
                  [status EXCEPT ![r] = Answer(r)])
  BY DEF RespDone
<1> DEFINE u == PopReq(k, r, TRUE, res, res2)
           d == [Stop(u.k, "closing") EXCEPT
                   !.msg = NoReq, !.unsched = @ /\ r \notin Upgrade]
           t == IF failed THEN [u EXCEPT !.k = d] ELSE u
<1>3. conn[c] \in ConnType /\ ConnInv(conn[c], nips)  BY ConnFacts
<1>4. k \in ConnType /\ Popping(k, conn[c]) /\ k.phase = conn[c].phase
  BY <1>3 DEF ConnType, ReqOrNone, Popping, SameList, SamePtr
<1>5. Answers(k, res)  BY <1>4, OutcomesAnswer
<1>6. Probing(conn[c]) => Answers(k, res2)
  <2>1. Probing(conn[c]) => res2 \in Outcomes(conn[c])  BY DEF Outcomes2, Probing
  <2> QED  BY <2>1, <1>4, OutcomesAnswer
<1>7. Answer(r) \in Finished  BY AnswerFinished
<1> HIDE DEF k
<1>8. /\ Accounts(Unlink(k, r), u) /\ IsSection(u) /\ u.k \in ConnType
      /\ ConnInv(u.k, nips) /\ u.k.phase = k.phase /\ Quiet(k, u)
      /\ u.k.resend => conn[c].resend
      /\ u.k.sib = NoReq
  <2>1. Popped(c, k, Unlink(k, r), u)
    <3> HIDE DEF d, t
    <3> QED  BY <1>1, <1>4, <1>5, <1>6, PopSection
  <2> QED  BY <2>1 DEF Popped
<1>9. Leave(c, t, [status EXCEPT ![r] = Answer(r)])  BY <1>2
<1> HIDE DEF u
<1>10. /\ Accounts(Unlink(k, r), t) /\ ConnInv(t.k, nips) /\ Asserted(t)
       /\ t.k.resend => conn[c].resend
       /\ t.k.phase \notin {"dead", "init", "gone"}
  <2>1. u.bug = "none"  BY <1>1, <1>4, <1>8 DEF Quiet
  <2>2. CASE ~failed
    <3>1. t = u  BY <2>2
    <3> QED  BY <3>1, <2>1, <1>1, <1>4, <1>8 DEF Asserted
  <2>3. CASE failed
    <3>0. t = [u EXCEPT !.k = d]  BY <2>3
    <3>1. /\ d \in ConnType /\ SameList(d, u.k) /\ SamePtr(d, u.k) /\ d.resend = u.k.resend
          /\ d.qforwd = u.k.qforwd /\ (d.unsched => u.k.unsched) /\ d.tx = u.k.tx /\ d.wire = <<>>
          /\ d.msg = NoReq /\ d.sib = u.k.sib
          /\ d.phase = (IF u.k.phase = "up" THEN "closing" ELSE u.k.phase)
      <4>1. <<>> \in Seq(Reqs) /\ "closing" \in Phases /\ NoReq \in ReqOrNone
        BY NoElem DEF Phases, ReqOrNone
      <4> QED  BY <4>1, <1>8 DEF Stop, ConnType, SameList, SamePtr
    <3> HIDE DEF d, t
    <3>2. ConnInv(d, nips)  BY <3>1, <1>1, <1>4, <1>8, StopInv
    <3>3. d.fwd_queue = u.k.fwd_queue /\ d.last = u.k.last  BY <3>1 DEF SameList, SamePtr
    <3>4. Accounts(Unlink(k, r), t) /\ t.k = d /\ t.bug = u.bug
      BY <1>8, <3>0, <3>1, <3>3, SwapAccounts
    <3> QED  BY <3>1, <3>2, <3>4, <2>1, <1>1, <1>4, <1>8 DEF Asserted
  <2> QED  BY <2>2, <2>3
<1> HIDE DEF t
<1> QED  BY <1>1, <1>4, <1>7, <1>9, <1>10, PopKeeps

\* The response to an upgrade: the socket goes to a websocket.
LEMMA RespUpgradeKeeps ==
    ASSUME IInv, NEW c \in Conns, RespUpgrade(c)
    PROVE  IInv'
<1> DEFINE r == conn[c].msg
           k == [conn[c] EXCEPT !.msg = NoReq, !.phase = "stolen", !.tx = <<>>, !.wire = <<>>]
<1>1. /\ conn[c].phase = "up" /\ conn[c].phase \in {"up", "closed"}
      /\ r \in Upgrade /\ conn[c].sib = NoReq /\ r # NoReq
  BY KindsAssumption, ReqsAssumption DEF RespUpgrade
<1>2. PICK failed \in BOOLEAN, res \in Outcomes(conn[c]), res2 \in Outcomes2(conn[c]) :
         LET p == PopReq(k, r, TRUE, res, res2)
         IN Leave(c, [p EXCEPT !.k.unsched = @ /\ ~failed], [status EXCEPT ![r] = Answer(r)])
  BY DEF RespUpgrade
<1> DEFINE u == PopReq(k, r, TRUE, res, res2)
           b == u.k.unsched /\ ~failed
           d == [u.k EXCEPT !.unsched = b]
           t == [u EXCEPT !.k = d]
<1>3. conn[c] \in ConnType /\ ConnInv(conn[c], nips)  BY ConnFacts
<1>4. k \in ConnType /\ Popping(k, conn[c]) /\ k.phase = "stolen"
  <2>1. <<>> \in Seq(Reqs) /\ "stolen" \in Phases /\ NoReq \in ReqOrNone
    BY NoElem DEF Phases, ReqOrNone
  <2>2. k \in ConnType  BY <2>1, <1>3 DEF ConnType
  <2>3. /\ SameList(k, conn[c]) /\ SamePtr(k, conn[c])
        /\ k.resend = conn[c].resend /\ k.qforwd = conn[c].qforwd /\ k.unsched = conn[c].unsched
        /\ k.phase = "stolen" /\ k.msg = NoReq /\ k.sib = conn[c].sib /\ k.wire = <<>> /\ k.tx = <<>>
    BY <1>3 DEF ConnType, SameList, SamePtr
  <2> HIDE DEF k
  <2> QED  BY <2>2, <2>3, <1>1 DEF Popping
<1>5. Answers(k, res)  BY <1>1, <1>4, OutcomesAnswer
<1>6. Probing(conn[c]) => Answers(k, res2)
  <2>1. Probing(conn[c]) => res2 \in Outcomes(conn[c])  BY DEF Outcomes2, Probing
  <2> QED  BY <2>1, <1>1, <1>4, OutcomesAnswer
<1>7. Answer(r) \in Finished  BY AnswerFinished
<1> HIDE DEF k
<1>8. /\ Accounts(Unlink(k, r), u) /\ IsSection(u) /\ u.k \in ConnType
      /\ ConnInv(u.k, nips) /\ u.k.phase = k.phase /\ Quiet(k, u)
      /\ u.k.resend => conn[c].resend
      /\ u.k.sib = NoReq
  <2>1. conn[c].msg # NoReq /\ conn[c].phase \in {"up", "closed"} /\ TRUE \in BOOLEAN  BY <1>1
  <2>2. k \in ConnType /\ Popping(k, conn[c])  BY <1>4
  <2>3. Popped(c, k, Unlink(k, r), u)
    <3> HIDE DEF b, d, t
    <3> QED  BY <2>1, <2>2, <1>5, <1>6, PopSection
  <2> QED  BY <2>3 DEF Popped
<1>9. Leave(c, t, [status EXCEPT ![r] = Answer(r)])
  <2>1. [u EXCEPT !.k.unsched = @ /\ ~failed] = t
    <3> HIDE DEF u
    <3> QED  BY <1>8 DEF IsSection, ConnType
  <2> QED  BY <2>1, <1>2
<1> HIDE DEF u
<1>10. b \in BOOLEAN /\ (b => u.k.unsched)  OBVIOUS
<1> HIDE DEF b
<1>11. /\ d \in ConnType /\ ConnInv(d, nips) /\ SameList(d, u.k) /\ SamePtr(d, u.k)
       /\ d.resend = u.k.resend /\ d.phase = u.k.phase
  <2>1. u.k.phase \notin {"dead", "init"}  BY <1>4, <1>8
  <2> QED  BY <2>1, <1>8, <1>10, UnschedInv
<1> HIDE DEF d
<1>12. d.fwd_queue = u.k.fwd_queue /\ d.last = u.k.last  BY <1>11 DEF SameList, SamePtr
<1>13. Accounts(Unlink(k, r), t) /\ t.k = d /\ t.bug = u.bug  BY <1>8, <1>11, <1>12, SwapAccounts
<1> HIDE DEF t
<1>14. Asserted(t)  BY <1>4, <1>8, <1>11, <1>13 DEF Quiet, Asserted
<1>15. ConnInv(t.k, nips) /\ (t.k.resend => conn[c].resend) /\ t.k.phase \notin {"dead", "init", "gone"}
  BY <1>4, <1>8, <1>11, <1>13
<1> QED  BY <1>1, <1>4, <1>7, <1>9, <1>13, <1>14, <1>15, PopKeeps

\* The websocket connection cannot be allocated.
LEMMA RespUpgradeNoMemKeeps ==
    ASSUME IInv, NEW c \in Conns, RespUpgradeNoMem(c)
    PROVE  IInv'
<1> DEFINE k == conn[c]
           d == [Stop(k, "closing") EXCEPT !.unsched = FALSE]
<1>1. k.phase = "up" /\ k.sib = NoReq /\ Leave(c, Nothing(d), status)  BY DEF RespUpgradeNoMem
<1>2. k \in ConnType /\ ConnInv(k, nips)  BY ConnFacts
<1>3. /\ d \in ConnType /\ SameList(d, k) /\ SamePtr(d, k) /\ d.resend = k.resend
      /\ d.qforwd = k.qforwd /\ d.unsched = FALSE /\ d.tx = k.tx /\ d.wire = <<>>
      /\ d.msg = k.msg /\ d.sib = k.sib /\ d.phase = "closing"
  <2>1. <<>> \in Seq(Reqs)  BY NoElem
  <2> QED  BY <2>1, <1>1, <1>2 DEF Stop, ConnType, Phases, SameList, SamePtr
<1> HIDE DEF d
<1>4. ConnInv(d, nips)  BY <1>1, <1>2, <1>3, StopInv
<1>5. d.fwd_queue = conn[c].fwd_queue /\ d.last = conn[c].last  BY <1>3 DEF SameList, SamePtr
<1> QED  BY <1>1, <1>3, <1>4, <1>5, NothingKeeps

\* The response cannot be parsed or is blocked.
LEMMA RespBadKeeps ==
    ASSUME IInv, NEW c \in Conns, RespBad(c)
    PROVE  IInv'
<1> DEFINE r == conn[c].msg
           k == [conn[c] EXCEPT !.msg = NoReq]
           p == Unlink(k, r)
<1>1. conn[c].phase \in {"up", "closed"} /\ r # NoReq /\ conn[c].sib = NoReq  BY DEF RespBad
<1>2. PopReq(k, r, FALSE, <<>>, <<>>).k = p  BY DEF PopReq, Nothing, Section
<1>3. PICK stale \in BOOLEAN :
         Leave(c, Nothing(
                 IF r \in HMonitor THEN p
                 ELSE [Stop(p, IF stale THEN "stopped" ELSE "closing") EXCEPT
                         !.unsched = @ /\ r \notin Upgrade]),
                 [status EXCEPT ![r] = IF stale THEN Answer(r) ELSE Fate(r)])
  BY <1>2 DEF RespBad
<1> DEFINE f == IF stale THEN Answer(r) ELSE Fate(r)
           d == IF r \in HMonitor THEN p
                ELSE [Stop(p, IF stale THEN "stopped" ELSE "closing") EXCEPT
                        !.unsched = @ /\ r \notin Upgrade]
           t == Nothing(d)
<1>4. Leave(c, t, [status EXCEPT ![r] = f]) /\ f \in Finished
  BY <1>3, AnswerFinished, FateFinished
<1>5. conn[c] \in ConnType /\ ConnInv(conn[c], nips)  BY ConnFacts
<1>6. k \in ConnType /\ Popping(k, conn[c]) /\ k.phase = conn[c].phase /\ k.sib = NoReq
  BY <1>1, <1>5 DEF ConnType, ReqOrNone, Popping, SameList, SamePtr
<1> HIDE DEF k
<1>7. /\ p \in ConnType /\ ConnInv(p, nips) /\ p.phase = k.phase
      /\ p.resend = conn[c].resend /\ SameSock(p, k)
  BY <1>1, <1>5, <1>6, UnlinkInv
<1> HIDE DEF p
<1>8. /\ d \in ConnType /\ ConnInv(d, nips) /\ SameList(d, p) /\ SamePtr(d, p)
      /\ d.resend = p.resend /\ d.phase \notin {"dead", "init", "gone"}
  <2>1. CASE r \in HMonitor
    <3>1. d = p  BY <2>1
    <3> QED  BY <3>1, <1>1, <1>6, <1>7 DEF SameList, SamePtr
  <2>2. CASE r \notin HMonitor
    <3>1. PICK ph \in {"stopped", "closing"} :
             d = [Stop(p, ph) EXCEPT !.unsched = @ /\ r \notin Upgrade]
      BY <2>2
    <3>2. /\ d \in ConnType /\ SameList(d, p) /\ SamePtr(d, p) /\ d.resend = p.resend
          /\ d.qforwd = p.qforwd /\ (d.unsched => p.unsched) /\ d.tx = p.tx /\ d.wire = <<>>
          /\ d.msg = p.msg /\ d.sib = p.sib
          /\ d.phase = (IF p.phase = "up" THEN ph ELSE p.phase)
      <4>1. <<>> \in Seq(Reqs) /\ ph \in Phases  BY NoElem DEF Phases
      <4> HIDE DEF d
      <4> QED  BY <3>1, <4>1, <1>7 DEF Stop, ConnType, SameList, SamePtr
    <3> HIDE DEF d
    <3>3. d.sib = NoReq  BY <3>2, <1>6, <1>7 DEF SameSock
    <3>4. ConnInv(d, nips)  BY <3>2, <3>3, <1>1, <1>6, <1>7, StopInv
    <3> QED  BY <3>2, <3>4, <1>1, <1>6, <1>7
  <2> QED  BY <2>1, <2>2
<1> HIDE DEF d, f
<1>9. Accounts(p, t) /\ t.k = d /\ t.bug = "none"
  <2>1. /\ t.k = d /\ t.gone = {} /\ t.cut = {} /\ t.tried = {} /\ t.sent = {} /\ t.bug = "none"
    BY DEF Nothing, Section
  <2> HIDE DEF t
  <2>2. d.fwd_queue = p.fwd_queue /\ d.last = p.last  BY <1>8 DEF SameList, SamePtr
  <2>3. Once(p, t)  BY <2>1, <2>2 DEF Once
  <2> QED  BY <2>1, <2>2, <2>3, <1>8 DEF Accounts
<1> HIDE DEF t
<1>10. /\ Accounts(Unlink(k, r), t) /\ ConnInv(t.k, nips) /\ Asserted(t)
       /\ t.k.resend => conn[c].resend
       /\ t.k.phase \notin {"dead", "init", "gone"}
  BY <1>7, <1>8, <1>9 DEF Asserted, p
<1> QED  BY <1>1, <1>4, <1>6, <1>10, PopKeeps

\* tfw_http_conn_drop(), with the response that ends with the connection.
LEMMA ConnDropKeeps ==
    ASSUME IInv, NEW c \in Conns, ConnDrop(c)
    PROVE  IInv'
<1> DEFINE r == conn[c].msg
           k == [conn[c] EXCEPT !.phase = "dropped", !.msg = NoReq, !.wire = <<>>]
<1>1. conn[c].phase = "closed" /\ conn[c].sib = NoReq  BY DEF ConnDrop
<1>2. conn[c] \in ConnType /\ ConnInv(conn[c], nips)  BY ConnFacts
<1>3. /\ k \in ConnType /\ ConnInv(k, nips) /\ SameList(k, conn[c]) /\ SamePtr(k, conn[c])
      /\ k.resend = conn[c].resend /\ k.qforwd = conn[c].qforwd /\ k.unsched = conn[c].unsched
      /\ k.phase = "dropped" /\ k.msg = NoReq /\ k.sib = NoReq /\ k.wire = <<>> /\ k.tx = <<>>
  BY <1>1, <1>2, DropInv
<1>4. CASE Leave(c, Nothing(k), status)
  <2> HIDE DEF k
  <2>1. k.fwd_queue = conn[c].fwd_queue /\ k.last = conn[c].last  BY <1>3 DEF SameList, SamePtr
  <2> QED  BY <2>1, <1>3, <1>4, NothingKeeps
<1>5. ASSUME r # NoReq, NEW res \in Outcomes(k), NEW fwd_unsent \in BOOLEAN,
             Leave(c, PopReq(k, r, fwd_unsent, res, res), [status EXCEPT ![r] = Answer(r)])
      PROVE  IInv'
  <2> DEFINE u == PopReq(k, r, fwd_unsent, res, res)
  <2>1. Answers(k, res)  BY OutcomesAnswer
  <2>2. Answer(r) \in Finished  BY AnswerFinished
  <2>3. Leave(c, u, [status EXCEPT ![r] = Answer(r)])  BY <1>5
  <2> HIDE DEF k
  <2>4. Popping(k, conn[c])  BY <1>1, <1>3 DEF Popping
  <2>5. /\ Accounts(Unlink(k, r), u) /\ ConnInv(u.k, nips) /\ u.k.phase = k.phase /\ Quiet(k, u)
        /\ u.k.resend => conn[c].resend
    <3>1. Popped(c, k, Unlink(k, r), u)  BY <1>1, <1>3, <1>5, <2>1, <2>4, PopSection
    <3> QED  BY <3>1 DEF Popped
  <2> HIDE DEF u
  <2>6. Asserted(u) /\ u.k.phase \notin {"dead", "init", "gone"}
    BY <1>3, <2>5 DEF Quiet, Asserted
  <2> QED  BY <1>1, <1>3, <1>5, <2>2, <2>3, <2>4, <2>5, <2>6, PopKeeps
<1> QED  BY <1>4, <1>5 DEF ConnDrop

\* tfw_http_conn_release() of a server that was removed: the queue is cut off.
LEMMA ReleaseRemovedKeeps ==
    ASSUME IInv, NEW c \in Conns, ReleaseRemoved(c)
    PROVE  IInv'
<1> DEFINE k == conn[c]
           d == [ClearRestricted(k) EXCEPT !.phase = "gone", !.tx = <<>>]
           s == Nothing(d)
           u == CutOff(s)
<1>1. k.phase \in {"dropped", "stolen"} /\ Unreferenced(c) /\ Leave(c, u, status)
  BY DEF ReleaseRemoved
<1>2. k \in ConnType /\ ConnInv(k, nips)  BY ConnFacts
<1>3. /\ d \in ConnType /\ d.phase = "gone" /\ SameList(d, k) /\ SamePtr(d, k)
      /\ d.resend = FALSE /\ d.qforwd = FALSE /\ Flight(d) = <<>> /\ SockInv(d)
  <2>1. k.phase \in {"dropped", "stolen", "dead"} /\ k.phase # "dead"  BY <1>1
  <2> QED  BY <1>2, <2>1, DeadInv
<1> HIDE DEF d
<1>4. Good(d, s) /\ s.cut = {} /\ s.k = d /\ s.bug = "none"  BY <1>3, NothingGood DEF Nothing, Section
<1> HIDE DEF s
<1>5. /\ Flight(s.k) = <<>> /\ SockInv(s.k) /\ ~Probing(s.k) /\ s.k.phase # "init"
      /\ s.k.phase # "dead" /\ s.k.fwd_queue \in Seq(Reqs) /\ NoDup(s.k.fwd_queue)
  <2>1. d.fwd_queue \in Seq(Reqs) /\ NoDup(d.fwd_queue)
    BY <1>2, <1>3 DEF ConnType, SameList, ConnInv, BaseInv, ListInv
  <2> QED  BY <2>1, <1>3, <1>4 DEF Probing
<1>6. Good(d, u) /\ ConnInv(u.k, nips) /\ u.bug = s.bug  BY <1>4, <1>5, CutOffGood
<1> HIDE DEF u
<1>7. d.fwd_queue = conn[c].fwd_queue /\ d.last = conn[c].last  BY <1>3 DEF SameList, SamePtr
<1>8. Asserted(u)  BY <1>4, <1>6 DEF Asserted
<1> QED  BY <1>1, <1>6, <1>7, <1>8, SectionKeeps

\* tfw_http_conn_release() when the system stops: the queue is freed.
LEMMA ReleaseStoppedKeeps ==
    ASSUME IInv, NEW c \in Conns, ReleaseStopped(c)
    PROVE  IInv'
<1> DEFINE k == conn[c]
           d == [FwdqReset(k) EXCEPT !.phase = "gone", !.tx = <<>>]
           u == Nothing(d)
           st == [r \in Reqs |-> IF r \in Elems(k.fwd_queue) THEN "freed" ELSE status[r]]
<1>0. <<>> \in Seq(Reqs) /\ Elems(<<>>) = {}  BY NoElem
<1>1. k.phase \in {"dropped", "stolen"} /\ Unreferenced(c) /\ Leave(c, u, st)
  BY DEF ReleaseStopped
<1>2. /\ k \in ConnType /\ ConnInv(k, nips) /\ status \in [Reqs -> Statuses]
      /\ Elems(k.fwd_queue) \subseteq Reqs
  BY ConnFacts
<1>3. /\ d \in ConnType /\ d.fwd_queue = <<>> /\ d.qsize = 0 /\ d.nip_queue = {} /\ d.hasnip = FALSE
      /\ d.last = NoReq /\ d.curr = NoReq /\ d.phase = "gone" /\ d.tx = <<>>
      /\ d.wire = k.wire /\ d.msg = k.msg /\ d.sib = k.sib
  <2>1. "gone" \in Phases /\ NoReq \in ReqOrNone  BY DEF Phases, ReqOrNone
  <2>2. d = [k EXCEPT !.fwd_queue = <<>>, !.qsize = 0, !.curr = NoReq, !.last = NoReq,
                      !.nip_queue = {}, !.hasnip = FALSE, !.phase = "gone", !.tx = <<>>]
    BY <1>2 DEF FwdqReset, ConnType
  <2> HIDE DEF d
  <2>3. 0 \in Int /\ {} \in SUBSET Reqs /\ FALSE \in BOOLEAN  OBVIOUS
  <2> QED  BY <1>0, <1>2, <2>1, <2>2, <2>3 DEF ConnType
<1> HIDE DEF d
<1>4. SockInv(k)  BY <1>2 DEF ConnInv, BaseInv
<1>5. Front(k) = <<>>
  <2>1. CASE k.phase = "stolen"
    BY <2>1, <1>4 DEF SockInv
  <2>2. CASE k.phase = "dropped"
    <3>1. Flight(k) = <<>>  BY <2>2, <1>4 DEF SockInv
    <3>2. Front(k) \in Seq(Reqs) /\ Elems(Flight(k)) = Elems(Front(k)) \cup Elems(k.tx)
      BY <1>2, FlightFacts
    <3>3. Elems(Front(k)) = {}  BY <3>1, <3>2, <1>0
    <3> QED  BY <3>2, <3>3, BeforeElems
  <2> QED  BY <1>1, <2>1, <2>2
<1>6. Front(d) = <<>>  BY <1>3, <1>5 DEF Front
<1>7. Flight(d) = <<>>  BY <1>3, <1>6 DEF Flight
<1>8. SockInv(d)  BY <1>3, <1>4, <1>6, <1>7 DEF SockInv
<1>9. ConnInv(d, nips)  BY <1>3, <1>7, <1>8, EmptyInv DEF Active
<1>10. /\ st \in [Reqs -> Statuses]
       /\ \A r \in Elems(k.fwd_queue) : st[r] \in Finished
       /\ \A r \in Reqs \ Elems(k.fwd_queue) : st[r] = status[r]
  BY <1>2 DEF Statuses, Finished
<1> HIDE DEF st
<1>11. Begins(c, d, st)  BY <1>0, <1>3, <1>10 DEF Begins, UpTo
<1>12. Good(d, u) /\ u.k = d /\ u.bug = "none"  BY <1>3, NothingGood DEF Nothing, Section
<1> HIDE DEF u
<1>13. Accounts(d, u)  BY <1>12, GoodAccounts
<1>14. Usable(c, u, st)  BY <1>1, StillUsable
<1>15. Asserted(u) /\ ConnInv(u.k, nips)  BY <1>9, <1>12 DEF Asserted
<1> QED  BY <1>1, <1>11, <1>13, <1>14, <1>15, LeaveInv

-----------------------------------------------------------------------------
(* The invariant. *)

\* No connection is established and no request has come.
LEMMA InitInv ==
    ASSUME Init
    PROVE  IInv
<1>0. <<>> \in Seq(Reqs) /\ Elems(<<>>) = {}  BY NoElem
<1>1. /\ conn = [c \in Conns |-> EmptyConn] /\ status = [r \in Reqs |-> "new"]
      /\ pick = [r \in Reqs |-> NoConn] /\ nips = NonIdemp /\ dropped = {} /\ late = {}
      /\ retries = [r \in Reqs |-> 0] /\ sends = [r \in Reqs |-> 0] /\ bug = "none"
  BY DEF Init
<1>2. EmptyConn \in ConnType
  BY <1>0 DEF EmptyConn, ConnType, ReqOrNone, Phases
<1>3. TypeOK
  <2>1. conn \in [Conns -> ConnType]  BY <1>1, <1>2
  <2>2. status \in [Reqs -> Statuses]  BY <1>1 DEF Statuses
  <2>3. retries \in [Reqs -> 0..MaxRefwd]  BY <1>1, LimitsAssumption
  <2>4. pick \in [Reqs -> Conns \cup {NoConn}] /\ sends \in [Reqs -> Nat] /\ bug \in Asserts
    BY <1>1 DEF Asserts
  <2> QED  BY <1>1, <2>1, <2>2, <2>3, <2>4 DEF TypeOK
<1>4. ConnInv(EmptyConn, nips)
  <2> DEFINE d == EmptyConn
  <2>1. /\ d.fwd_queue = <<>> /\ d.qsize = 0 /\ d.nip_queue = {} /\ d.hasnip = FALSE
        /\ d.last = NoReq /\ d.curr = NoReq /\ d.phase = "dead" /\ d.tx = <<>> /\ d.wire = <<>>
        /\ d.msg = NoReq /\ d.sib = NoReq /\ d.resend = FALSE /\ d.qforwd = FALSE
    BY DEF EmptyConn
  <2> HIDE DEF d
  <2>2. Flight(d) = <<>> /\ Front(d) = <<>>  BY <2>1 DEF Flight, Front, Some
  <2>3. SockInv(d)  BY <2>1, <2>2 DEF SockInv
  <2>4. d \in ConnType  BY <1>2 DEF d
  <2>5. ConnInv(d, nips)  BY <2>1, <2>2, <2>3, <2>4, EmptyInv DEF Active
  <2> QED  BY <2>5 DEF d
<1>5. \A c \in Conns : conn[c] = EmptyConn  BY <1>1
<1>6. AssertionsHold  BY <1>1 DEF AssertionsHold
<1>7. OwnInv
  <2>1. \A c \in Conns : Elems(conn[c].fwd_queue) = {}  BY <1>0, <1>5 DEF EmptyConn
  <2> QED  BY <2>1, <1>1 DEF OwnInv
<1>8. SentInv
  <2>1. NonIdemp \subseteq Reqs /\ Upgrade \subseteq NonIdemp  BY KindsAssumption
  <2>2. \A r \in nips : sends[r] = 0  BY <1>1, <2>1
  <2> QED  BY <2>1, <2>2, <1>1 DEF SentInv
<1>9. \A r \in Reqs : PickInv(r)  BY <1>1 DEF PickInv
<1> QED  BY <1>3, <1>4, <1>5, <1>6, <1>7, <1>8, <1>9 DEF IInv

\* The steps of a request.
LEMMA ReqStepKeeps ==
    ASSUME IInv, NEW r \in Reqs, ReqStep(r)
    PROVE  IInv'
<1>1. CASE NoServer(r) \/ ReschedEvict(r) \/ ReschedNoServer(r)
  BY <1>1, GiveUpKeeps
<1>2. CASE FwdResched(r)
  BY <1>2, FwdReschedKeeps
<1>3. CASE Resched(r)
  BY <1>3, ReschedKeeps
<1>4. CASE FwdAgain(r)
  BY <1>4, FwdAgainKeeps
<1>5. CASE ClientDrop(r) \/ Expire(r)
  BY <1>5, StaleKeeps
<1>6. CASE Follow(r)
  BY <1>6, FollowKeeps
<1>7. CASE \E c \in Conns : Pick(r, c) \/ ReschedPick(r, c)
  BY <1>7, PickKeeps
<1> QED  BY <1>1, <1>2, <1>3, <1>4, <1>5, <1>6, <1>7 DEF ReqStep

\* The steps of a connection.
LEMMA ConnStepKeeps ==
    ASSUME IInv, bug = "none", NEW c \in Conns, ConnStep(c)
    PROVE  IInv'
<1>1. CASE Entail(c)
  BY <1>1, EntailKeeps
<1>2. CASE RespStart(c) \/ RespSibling(c)
  BY <1>2, RespStartKeeps
<1>3. CASE RespDone(c)
  BY <1>3, RespDoneKeeps
<1>4. CASE RespUpgrade(c)
  BY <1>4, RespUpgradeKeeps
<1>5. CASE RespUpgradeNoMem(c)
  BY <1>5, RespUpgradeNoMemKeeps
<1>6. CASE RespBad(c)
  BY <1>6, RespBadKeeps
<1>7. CASE SockClose(c)
  BY <1>7, SockCloseKeeps
<1>8. CASE ConnDrop(c)
  BY <1>8, ConnDropKeeps
<1>9. CASE ConnRelease(c) \/ ConnectFail(c)
  BY <1>9, ConnReleaseKeeps
<1>10. CASE ConnectInit(c)
  BY <1>10, ConnectInitKeeps
<1>11. CASE ConnRepair(c)
  BY <1>11, ConnRepairKeeps
<1>12. CASE ConnectFinish(c)
  BY <1>12, ConnectFinishKeeps
<1>13. CASE ReleaseRemoved(c)
  BY <1>13, ReleaseRemovedKeeps
<1>14. CASE ReleaseStopped(c)
  BY <1>14, ReleaseStoppedKeeps
<1> QED
  BY <1>1, <1>2, <1>3, <1>4, <1>5, <1>6, <1>7, <1>8, <1>9, <1>10, <1>11, <1>12, <1>13, <1>14
  DEF ConnStep

\* A machine stopped by a failed assertion stays as it is.
LEMMA StutterInv ==
    ASSUME IInv, UNCHANGED vars
    PROVE  IInv'
<1>1. /\ conn' = conn /\ status' = status /\ pick' = pick /\ nips' = nips /\ retries' = retries
      /\ sends' = sends /\ bug' = bug /\ dropped' = dropped /\ late' = late
  BY DEF vars
<1>2. /\ TypeOK /\ AssertionsHold /\ OwnInv /\ SentInv
      /\ \A x \in Reqs : PickInv(x)
      /\ \A c \in Conns : ConnInv(conn[c], nips)
  BY DEF IInv
<1>3. TypeOK'  BY <1>1, <1>2 DEF TypeOK
<1>4. AssertionsHold'  BY <1>1, <1>2 DEF AssertionsHold, TreatNipAssertion, SocketAssertion
<1>5. OwnInv'  BY <1>1, <1>2 DEF OwnInv
<1>6. SentInv'  BY <1>1, <1>2 DEF SentInv, Pending
<1>7. ASSUME NEW x \in Reqs PROVE PickInv(x)'
  BY <1>1, <1>2 DEF PickInv
<1>8. ASSUME NEW c \in Conns PROVE ConnInv(conn'[c], nips')
  BY <1>1, <1>2
<1> QED  BY <1>3, <1>4, <1>5, <1>6, <1>7, <1>8 DEF IInv

\* The inductive invariant holds in every reachable state.
LEMMA IInvariance == Spec => []IInv
<1>1. Init => IInv  BY InitInv
<1>2. IInv /\ [Next]_vars => IInv'
  <2> SUFFICES ASSUME IInv, [Next]_vars PROVE IInv'
    OBVIOUS
  <2>1. CASE \E r \in Reqs : ReqStep(r)
    BY <2>1, ReqStepKeeps
  <2>2. CASE bug = "none" /\ \E c \in Conns : ConnStep(c)
    BY <2>2, ConnStepKeeps
  <2>3. CASE UNCHANGED vars
    BY <2>3, StutterInv
  <2> QED  BY <2>1, <2>2, <2>3 DEF Next, Halt
<1> QED  BY <1>1, <1>2, PTL DEF Spec

-----------------------------------------------------------------------------
(* The theorems. *)

\* Every variable has its type, and the retry counter of a request stays within
\* max_refwd (tfw_http_req_evict_retries()).
THEOREM TypeCorrect == Spec => []TypeOK
<1>1. IInv => TypeOK  BY DEF IInv
<1> QED  BY <1>1, IInvariance, PTL

\* No BUG_ON or WARN_ON of the forwarding code fails: not those of fwd_unsent,
\* resend, reenable_if_done, fwd_repair, shrink_fwdq and of the queue being cut
\* off; those of treatnip and ss_send only after a websocket upgrade was tried.
THEOREM AssertionsSafe == Spec => []AssertionsHold
<1>1. IInv => AssertionsHold  BY DEF IInv
<1> QED  BY <1>1, IInvariance, PTL

\* Whenever fwd_qlock is free, the queue, its counter, the list and the flag of
\* non-idempotent requests and the pointers last_msg_sent and curr_msg_sent agree.
THEOREM ConsistentAlways == Spec => []QueueConsistent
<1>1. IInv => QueueConsistent
  <2> SUFFICES ASSUME IInv, NEW c \in Conns
               PROVE  LET k == conn[c]
                          q == k.fwd_queue
                      IN /\ NoDup(q)
                         /\ k.qsize = Len(q)
                         /\ k.nip_queue \subseteq Elems(q)
                         /\ k.hasnip <=> k.nip_queue # {}
                         /\ k.last # NoReq => k.last \in Elems(q)
                         /\ k.phase \in Active \cup {"init", "finish", "stolen"} =>
                              /\ k.curr # NoReq => k.curr \in Elems(SentPart(k))
                              /\ ~k.resend \/ k.qforwd => k.curr = k.last
    BY DEF QueueConsistent
  <2> DEFINE k == conn[c]
  <2>1. k \in ConnType /\ ConnInv(k, nips)  BY ConnFacts
  <2> HIDE DEF k
  <2>2. ListInv(k, nips) /\ PtrInv(k)  BY <2>1 DEF ConnInv, BaseInv
  <2>3. Elems(SentPart(k)) = UpTo(k.fwd_queue, k.last)
    BY <2>1, <2>2, SentUnsent DEF ConnType, ListInv, PtrInv
  <2>4. k.phase \in Active \cup {"init", "finish", "stolen"} => k.phase # "dead"  BY DEF Active
  <2>5. /\ k.curr # NoReq => k.curr \in Elems(SentPart(k))
        /\ k.phase # "dead" /\ (~k.resend \/ k.qforwd) => k.curr = k.last
        /\ k.last # NoReq => k.last \in Elems(k.fwd_queue)
    BY <2>2, <2>3 DEF PtrInv, Probing
  <2> QED  BY <2>2, <2>4, <2>5 DEF ListInv, k
<1> QED  BY <1>1, IInvariance, PTL

\* A request is in the forwarding queue of exactly one connection while nobody
\* else owns it, and in none otherwise: it is not forwarded by two connections
\* at a time, nor freed or answered while it is queued.
THEOREM OneQueueAlways == Spec => []InOneQueue
<1>1. IInv => InOneQueue
  <2> SUFFICES ASSUME IInv, NEW r \in Reqs
               PROVE  Cardinality({c \in Conns : r \in Elems(conn[c].fwd_queue)}) =
                        IF status[r] = "queued" THEN 1 ELSE 0
    BY DEF InOneQueue
  <2> DEFINE S == {c \in Conns : r \in Elems(conn[c].fwd_queue)}
  <2>1. /\ status[r] = "queued" <=> \E c \in Conns : r \in Elems(conn[c].fwd_queue)
        /\ \A c, d \in Conns :
              r \in Elems(conn[c].fwd_queue) \cap Elems(conn[d].fwd_queue) => c = d
    BY DEF IInv, OwnInv
  <2>2. CASE status[r] = "queued"
    <3>1. PICK c \in Conns : r \in Elems(conn[c].fwd_queue)  BY <2>1, <2>2
    <3>2. S = {c}  BY <2>1, <3>1
    <3>3. Cardinality({c}) = 1  BY FS_Singleton
    <3> QED  BY <2>2, <3>2, <3>3
  <2>3. CASE status[r] # "queued"
    <3>1. S = {}  BY <2>1, <2>3
    <3>2. Cardinality({}) = 0  BY FS_EmptySet
    <3> QED  BY <2>3, <3>1, <3>2
  <2> QED  BY <2>2, <2>3
<1> QED  BY <1>1, IInvariance, PTL

\* The requests that the socket layer and the responses point to are in the
\* queue, so tfw_http_on_tcp_entail_req() and tfw_http_resp_cache() never see a
\* request that is freed.
THEOREM HeldAlways == Spec => []HeldByQueue
<1>1. IInv => HeldByQueue
  <2> SUFFICES ASSUME IInv, NEW c \in Conns
               PROVE  LET k == conn[c]
                      IN  {k.msg, k.sib} \cup Elems(k.tx) \cup Elems(k.wire)
                            \subseteq Elems(k.fwd_queue) \cup {NoReq}
    BY DEF HeldByQueue
  <2> DEFINE k == conn[c]
  <2>1. k \in ConnType /\ ConnInv(k, nips)  BY ConnFacts
  <2> HIDE DEF k
  <2>2. Elems(Flight(k)) \subseteq Elems(k.fwd_queue)
    BY <2>1 DEF ConnInv, BaseInv, FlightInv, UpTo
  <2>3. Elems(Flight(k)) = Elems(Front(k)) \cup Elems(k.tx)  BY <2>1, FlightFacts
  <2> DEFINE m == Some(k.msg) \o Some(k.sib)
  <2>4. Elems(Front(k)) = Elems(m) \cup Elems(k.wire) /\ Elems(m) = {k.msg, k.sib} \ {NoReq}
    BY <2>1, FrontFacts
  <2> QED  BY <2>2, <2>3, <2>4 DEF k
<1> QED  BY <1>1, IInvariance, PTL

\* tfw_http_resp_pair() pairs a response with the request that the backend
\* answers with it, after any evictions, retries, drops and losses.
THEOREM PairRightAlways == Spec => []PairRight
<1>1. IInv => PairRight
  <2> SUFFICES ASSUME IInv, NEW c \in Conns, conn[c].wire # <<>>, conn[c].sib = NoReq
               PROVE  RespPair(conn[c]) = conn[c].wire[1]
    BY DEF PairRight
  <2>1. conn[c] \in ConnType /\ ConnInv(conn[c], nips)  BY ConnFacts
  <2> QED  BY <2>1, RespPairRight
<1> QED  BY <1>1, IInvariance, PTL

\* Only last_msg_sent can be non-idempotent among the requests that were sent,
\* which tfw_http_conn_treatnip() relies on.
THEOREM NipLastAlways == Spec => []NipIsLast
<1>1. IInv => NipIsLast
  <2> SUFFICES ASSUME IInv, NEW c \in Conns, NEW r \in Elems(SentPart(conn[c])) \cap nips
               PROVE  r = conn[c].last
    BY DEF NipIsLast
  <2> DEFINE k == conn[c]
  <2>1. k \in ConnType /\ ConnInv(k, nips)  BY ConnFacts
  <2>2. ListInv(k, nips) /\ PtrInv(k) /\ NipInv(k, nips)  BY <2>1 DEF ConnInv, BaseInv
  <2>3. Elems(SentPart(k)) = UpTo(k.fwd_queue, k.last)
    BY <2>1, <2>2, SentUnsent DEF ConnType, ListInv, PtrInv
  <2> QED  BY <2>2, <2>3 DEF NipInv
<1> QED  BY <1>1, IInvariance, PTL

\* Without server_retry_nonidempotent a non-idempotent request is handed to a
\* backend at most once, over this or any other connection.
THEOREM NipOnceAlways == Spec => []NipSentOnce
<1>1. IInv => NipSentOnce  BY DEF IInv, SentInv, NipSentOnce
<1> QED  BY <1>1, IInvariance, PTL

==============================================================================
