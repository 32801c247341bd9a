------------------------- MODULE HttpPipelineProofs -------------------------
(***************************************************************************)
(* Theorems about HttpPipeline: the assertions of the code about its two   *)
(* lists hold, and responses reach the client in the order of the          *)
(* requests, for any number of requests and any size of the work queue.    *)
(***************************************************************************)
EXTENDS HttpPipeline, NaturalsInduction, WellFoundedInduction, TLAPS

AllWorks == SendWorks \cup {CloseWork}

-----------------------------------------------------------------------------
(* Lists of requests. *)

\* A list is empty if it has no elements.
LEMMA EmptyElems ==
    ASSUME NEW s \in Seq(Reqs)
    PROVE  s = <<>> <=> Elems(s) = {}
<1>1. ASSUME s = <<>> PROVE Elems(s) = {}
  BY <1>1 DEF Elems
<1>2. ASSUME s # <<>> PROVE Elems(s) # {}
  <2>1. Len(s) \in Nat \ {0}  BY <1>2
  <2>2. s[1] \in Elems(s)  BY <2>1 DEF Elems
  <2> QED  BY <2>2
<1> QED  BY <1>1, <1>2

\* The elements of a list are requests.
LEMMA ElemsReqs ==
    ASSUME NEW s \in Seq(Reqs)
    PROVE  Elems(s) \subseteq Reqs
BY DEF Elems

\* list_add_tail() of a request that comes after the others.
LEMMA AppendElems ==
    ASSUME NEW s \in Seq(Reqs), NEW e \in Reqs
    PROVE  /\ Append(s, e) \in Seq(Reqs)
           /\ Elems(Append(s, e)) = Elems(s) \cup {e}
           /\ Increasing(s) /\ Before(Elems(s), {e}) => Increasing(Append(s, e))
<1> DEFINE t == Append(s, e)
<1>1. t \in Seq(Reqs) /\ Len(t) = Len(s) + 1 /\ t[Len(s) + 1] = e
      /\ \A i \in 1..Len(s) : t[i] = s[i]
  OBVIOUS
<1> HIDE DEF t
<1>2. Elems(t) = Elems(s) \cup {e}
  <2>1. ASSUME NEW x \in Elems(t) PROVE x \in Elems(s) \cup {e}
    BY <1>1 DEF Elems
  <2>2. ASSUME NEW x \in Elems(s) PROVE x \in Elems(t)
    BY <1>1 DEF Elems
  <2>3. e \in Elems(t)  BY <1>1 DEF Elems
  <2> QED  BY <2>1, <2>2, <2>3
<1>3. ASSUME Increasing(s), Before(Elems(s), {e}) PROVE Increasing(t)
  <2> SUFFICES ASSUME NEW i \in 1..Len(t), NEW j \in 1..Len(t), i < j PROVE t[i] < t[j]
    BY DEF Increasing
  <2>1. i \in 1..Len(s) /\ t[i] = s[i]  BY <1>1
  <2>2. CASE j = Len(s) + 1
    BY <2>1, <2>2, <1>1, <1>3 DEF Before, Elems
  <2>3. CASE j # Len(s) + 1
    BY <2>1, <2>3, <1>1, <1>3 DEF Increasing
  <2> QED  BY <2>2, <2>3
<1> QED  BY <1>1, <1>2, <1>3 DEF t

\* The concatenation of two lists.
LEMMA Joined ==
    ASSUME NEW a \in Seq(Reqs), NEW b \in Seq(Reqs)
    PROVE  /\ a \o b \in Seq(Reqs) /\ Len(a \o b) = Len(a) + Len(b)
           /\ \A k \in 1..(Len(a) + Len(b)) :
                  (a \o b)[k] = IF k <= Len(a) THEN a[k] ELSE b[k - Len(a)]
OBVIOUS

\* list_del().
LEMMA WithoutElems ==
    ASSUME NEW s \in Seq(Reqs), NEW r \in Reqs, Increasing(s)
    PROVE  /\ Without(s, r) \in Seq(Reqs)
           /\ Elems(Without(s, r)) = Elems(s) \ {r}
           /\ Increasing(Without(s, r))
<1>1. CASE r \notin Elems(s)
  BY <1>1 DEF Without
<1>2. CASE r \in Elems(s)
  <2> DEFINE i == CHOOSE k \in DOMAIN s : s[k] = r
             t == SubSeq(s, 1, i - 1) \o SubSeq(s, i + 1, Len(s))
  <2>1. i \in 1..Len(s) /\ s[i] = r
    BY <1>2 DEF Elems
  <2>2. Without(s, r) = t
    BY <1>2 DEF Without
  <2> HIDE DEF i
  <2> DEFINE a == SubSeq(s, 1, i - 1)
             b == SubSeq(s, i + 1, Len(s))
  <2>3. /\ SubSeq(s, 1, i - 1) \in Seq(Reqs) /\ SubSeq(s, i + 1, Len(s)) \in Seq(Reqs)
        /\ Len(SubSeq(s, 1, i - 1)) = i - 1 /\ Len(SubSeq(s, i + 1, Len(s))) = Len(s) - i
        /\ \A k \in 1..(i - 1) : SubSeq(s, 1, i - 1)[k] = s[k]
        /\ \A k \in 1..(Len(s) - i) : SubSeq(s, i + 1, Len(s))[k] = s[i + k]
    BY <2>1
  <2>4. /\ t \in Seq(Reqs) /\ Len(t) = Len(s) - 1
        /\ \A k \in 1..Len(t) : t[k] = IF k < i THEN s[k] ELSE s[k + 1]
    <3>1. t = a \o b  BY DEF t
    <3> HIDE DEF t
    <3>2. /\ a \in Seq(Reqs) /\ b \in Seq(Reqs)
          /\ Len(a) = i - 1 /\ Len(b) = Len(s) - i /\ Len(s) \in Nat
          /\ \A k \in 1..(i - 1) : a[k] = s[k]
          /\ \A k \in 1..(Len(s) - i) : b[k] = s[i + k]
      BY <2>1, <2>3
    <3> HIDE DEF a, b
    <3>3. /\ t \in Seq(Reqs) /\ Len(t) = Len(a) + Len(b)
          /\ \A k \in 1..(Len(a) + Len(b)) :
                 t[k] = IF k <= Len(a) THEN a[k] ELSE b[k - Len(a)]
      BY ONLY <3>1, <3>2, Joined
    <3>4. Len(t) = Len(s) - 1  BY <3>2, <3>3, <2>1
    <3>5. ASSUME NEW k \in 1..Len(t) PROVE t[k] = IF k < i THEN s[k] ELSE s[k + 1]
      <4>1. CASE k < i  BY <4>1, <3>2, <3>3, <3>4, <2>1
      <4>2. CASE ~(k < i)
        <5>1. t[k] = b[k - Len(a)] /\ k - Len(a) \in 1..(Len(s) - i)
          BY <4>2, <3>2, <3>3, <3>4, <2>1
        <5>2. b[k - Len(a)] = s[i + (k - Len(a))]  BY <5>1, <3>2
        <5>3. i + (k - Len(a)) = k + 1  BY <3>2, <2>1
        <5> QED  BY <5>1, <5>2, <5>3, <4>2
      <4> QED  BY <4>1, <4>2
    <3> QED  BY <3>3, <3>4, <3>5
  <2> HIDE DEF t
  <2>5. Elems(t) = Elems(s) \ {r}
    <3>1. ASSUME NEW x \in Elems(t) PROVE x \in Elems(s) \ {r}
      <4>1. PICK k \in 1..Len(t) : x = t[k]  BY <2>4 DEF Elems
      <4>2. CASE k < i
        <5>1. k \in 1..Len(s) /\ x = s[k]  BY <4>1, <4>2, <2>1, <2>4
        <5>2. s[k] < s[i]  BY <5>1, <4>2, <2>1 DEF Increasing
        <5>3. s[k] \in Reqs  BY <5>1
        <5> QED  BY <5>1, <5>2, <5>3, <2>1 DEF Elems, Reqs
      <4>3. CASE ~(k < i)
        <5>1. k + 1 \in 1..Len(s) /\ x = s[k + 1] /\ i < k + 1  BY <4>1, <4>3, <2>1, <2>4
        <5>2. s[i] < s[k + 1]  BY <5>1, <2>1 DEF Increasing
        <5>3. s[k + 1] \in Reqs  BY <5>1
        <5> QED  BY <5>1, <5>2, <5>3, <2>1 DEF Elems, Reqs
      <4> QED  BY <4>2, <4>3
    <3>2. ASSUME NEW x \in Elems(s), x # r PROVE x \in Elems(t)
      <4>1. PICK k \in 1..Len(s) : x = s[k]  BY DEF Elems
      <4>2. CASE k < i
        BY <4>1, <4>2, <2>1, <2>4 DEF Elems
      <4>3. CASE k > i
        <5>1. k - 1 \in 1..Len(t) /\ t[k - 1] = s[k]  BY <4>1, <4>3, <2>1, <2>4
        <5> QED  BY <5>1, <4>1, <2>4 DEF Elems
      <4> QED  BY <4>2, <4>3, <4>1, <2>1, <3>2
    <3> QED  BY <3>1, <3>2
  <2>6. Increasing(t)
    <3> SUFFICES ASSUME NEW p \in 1..Len(t), NEW q \in 1..Len(t), p < q PROVE t[p] < t[q]
      BY DEF Increasing
    <3> DEFINE up(k) == IF k < i THEN k ELSE k + 1
    <3>1. up(p) \in 1..Len(s) /\ up(q) \in 1..Len(s) /\ up(p) < up(q)
      BY <2>1, <2>4
    <3>2. t[p] = s[up(p)] /\ t[q] = s[up(q)]
      BY <2>4
    <3> HIDE DEF up
    <3>3. s[up(p)] < s[up(q)]
      BY <3>1 DEF Increasing
    <3> QED  BY <3>2, <3>3
  <2> QED  BY <2>2, <2>4, <2>5, <2>6
<1> QED  BY <1>1, <1>2

\* The ready part of the list is a prefix with responses only; the rest comes
\* after it.
LEMMA CutElems ==
    ASSUME NEW s \in Seq(Reqs), NEW R, Increasing(s)
    PROVE  LET cut  == ReadyPart(s, R)
               rest == SubSeq(s, Len(cut) + 1, Len(s))
           IN  /\ cut \in Seq(Reqs) /\ rest \in Seq(Reqs)
               /\ Elems(s) = Elems(cut) \cup Elems(rest)
               /\ Elems(cut) \subseteq R
               /\ Before(Elems(cut), Elems(rest))
               /\ Increasing(cut) /\ Increasing(rest)
               /\ cut = <<>> => rest = s
<1> DEFINE OK(k) == /\ \A i \in 1..k : s[i] \in R
                    /\ k < Len(s) => s[k + 1] \notin R
           n == CHOOSE k \in 0..Len(s) : OK(k)
           cut == SubSeq(s, 1, n)
           rest == SubSeq(s, n + 1, Len(s))
<1>1. \E k \in 0..Len(s) : OK(k)
  <2> DEFINE Bad == {k \in Nat : k >= Len(s) \/ s[k + 1] \notin R}
  <2>1. Len(s) \in Bad  OBVIOUS
  <2>2. PICK k \in Bad : \A j \in Bad : ~(<<j, k>> \in OpToRel(<, Nat))
    BY <2>1, WFMin, NatLessThanWellFounded
  <2>3. k \in Nat /\ \A j \in Nat : j < k => j \notin Bad
    BY <2>2 DEF OpToRel
  <2>4. k <= Len(s)
    BY <2>1, <2>3
  <2>5. ASSUME NEW i \in 1..k PROVE s[i] \in R
    <3>1. i - 1 \in Nat /\ i - 1 < k  BY <2>3
    <3>2. i - 1 \notin Bad  BY <3>1, <2>3
    <3> QED  BY <3>1, <3>2
  <2>6. k < Len(s) => s[k + 1] \notin R
    <3>1. k >= Len(s) \/ s[k + 1] \notin R  BY <2>2
    <3> QED  BY <3>1, <2>3
  <2> QED  BY <2>3, <2>4, <2>5, <2>6
<1>2. n \in 0..Len(s) /\ OK(n)
  BY <1>1
<1>3. ReadyPart(s, R) = cut
  BY DEF ReadyPart
<1> HIDE DEF n
<1>4. /\ cut \in Seq(Reqs) /\ Len(cut) = n
      /\ rest \in Seq(Reqs) /\ Len(rest) = Len(s) - n
      /\ \A i \in 1..n : cut[i] = s[i]
      /\ \A i \in 1..(Len(s) - n) : rest[i] = s[n + i]
  BY <1>2
<1>5. cut = <<>> => rest = s
  <2> SUFFICES ASSUME n = 0 PROVE rest = s
    BY <1>4
  <2> QED  BY <1>4
<1> HIDE DEF cut, rest
<1>6. ASSUME NEW x \in Elems(s) PROVE x \in Elems(cut) \cup Elems(rest)
  <2>1. PICK k \in 1..Len(s) : x = s[k]  BY DEF Elems
  <2>2. CASE k <= n
    <3>1. k \in 1..n /\ cut[k] = s[k]  BY <2>1, <2>2, <1>2, <1>4
    <3> QED  BY <3>1, <2>1, <1>4 DEF Elems
  <2>3. CASE k > n
    <3>1. k - n \in 1..(Len(s) - n) /\ rest[k - n] = s[k]  BY <2>1, <2>3, <1>2, <1>4
    <3> QED  BY <3>1, <2>1, <1>4 DEF Elems
  <2> QED  BY <2>2, <2>3, <1>2
<1>7. Elems(cut) \subseteq Elems(s) /\ Elems(cut) \subseteq R  BY <1>2, <1>4 DEF Elems
<1>8. Elems(rest) \subseteq Elems(s)
  <2> SUFFICES ASSUME NEW x \in Elems(rest) PROVE x \in Elems(s)  OBVIOUS
  <2>1. PICK k \in 1..(Len(s) - n) : x = rest[k]  BY <1>4 DEF Elems
  <2>2. n + k \in 1..Len(s)  BY <2>1, <1>2
  <2> QED  BY <2>1, <2>2, <1>4 DEF Elems
<1>9. Before(Elems(cut), Elems(rest))
  <2> SUFFICES ASSUME NEW a \in Elems(cut), NEW b \in Elems(rest) PROVE a < b
    BY DEF Before
  <2>1. PICK i \in 1..n : a = s[i]  BY <1>4 DEF Elems
  <2>2. PICK k \in 1..(Len(s) - n) : b = s[n + k]  BY <1>4 DEF Elems
  <2> QED  BY <2>1, <2>2, <1>2 DEF Increasing
<1>10. Increasing(cut)  BY <1>2, <1>4 DEF Increasing
<1>11. Increasing(rest)
  <2> SUFFICES ASSUME NEW i \in 1..Len(rest), NEW j \in 1..Len(rest), i < j
               PROVE  rest[i] < rest[j]
    BY DEF Increasing
  <2>1. n + i \in 1..Len(s) /\ n + j \in 1..Len(s) /\ n + i < n + j  BY <1>2, <1>4
  <2>2. s[n + i] < s[n + j]  BY <2>1 DEF Increasing
  <2> QED  BY <1>4, <2>2
<1>12. rest = SubSeq(s, Len(cut) + 1, Len(s))  BY <1>4 DEF rest
<1> QED  BY <1>3, <1>4, <1>5, <1>6, <1>7, <1>8, <1>9, <1>10, <1>11, <1>12

\* The first of a list leaves it.
LEMMA TailElems ==
    ASSUME NEW s \in Seq(Reqs), s # <<>>, Increasing(s)
    PROVE  /\ s[1] \in Reqs /\ s[1] \in Elems(s)
           /\ Tail(s) \in Seq(Reqs)
           /\ Elems(Tail(s)) = Elems(s) \ {s[1]}
           /\ Before({s[1]}, Elems(Tail(s)))
           /\ Increasing(Tail(s))
<1> DEFINE t == Tail(s)
<1>1. /\ t \in Seq(Reqs) /\ Len(t) = Len(s) - 1 /\ Len(s) \in Nat \ {0}
      /\ \A i \in 1..Len(t) : t[i] = s[i + 1]
  OBVIOUS
<1> HIDE DEF t
<1>2. s[1] \in Reqs /\ s[1] \in Elems(s)  BY <1>1 DEF Elems
<1>3. ASSUME NEW x \in Elems(t) PROVE x \in Elems(s) /\ s[1] < x
  <2>0. PICK k \in 1..Len(t) : x = t[k]  BY <1>1 DEF Elems
  <2>1. k \in 1..Len(t) /\ x = s[k + 1]  BY <2>0, <1>1
  <2>2. k + 1 \in 1..Len(s) /\ 1 \in 1..Len(s) /\ 1 < k + 1  BY <2>1, <1>1
  <2>3. s[1] < s[k + 1]  BY <2>2 DEF Increasing
  <2> QED  BY <2>1, <2>2, <2>3 DEF Elems
<1>4. ASSUME NEW x \in Elems(s), x # s[1] PROVE x \in Elems(t)
  <2>1. PICK k \in 1..Len(s) : x = s[k]  BY DEF Elems
  <2>2. k - 1 \in 1..Len(t) /\ t[k - 1] = x  BY <2>1, <1>1, <1>4
  <2> QED  BY <2>2, <1>1 DEF Elems
<1>5. Increasing(t)
  <2> SUFFICES ASSUME NEW i \in 1..Len(t), NEW j \in 1..Len(t), i < j PROVE t[i] < t[j]
    BY DEF Increasing
  <2> QED  BY <1>1 DEF Increasing
<1>6. s[1] \notin Elems(t)  BY <1>2, <1>3 DEF Reqs
<1> QED  BY <1>1, <1>2, <1>3, <1>4, <1>5, <1>6 DEF t, Before

-----------------------------------------------------------------------------
(* Works of the socket. *)

FinalOf(w) == IF w.kind = "final" THEN {w.r} ELSE {}

\* What the final responses of a sequence answer, by position.
LEMMA AnsweredBy ==
    ASSUME NEW s \in Seq(AllWorks), NEW x
    PROVE  x \in Answered(s) <=> \E i \in 1..Len(s) : s[i].kind = "final" /\ s[i].r = x
BY DEF Answered

\* The final responses of works are responses to requests.
LEMMA AnsweredReqs ==
    ASSUME NEW s \in Seq(AllWorks)
    PROVE  Answered(s) \subseteq Reqs
<1> SUFFICES ASSUME NEW i \in 1..Len(s), s[i].kind = "final" PROVE s[i].r \in Reqs
  BY AnsweredBy
<1>1. s[i] \in SendWorks \cup {CloseWork}  BY DEF AllWorks
<1>2. s[i] # CloseWork  BY DEF CloseWork
<1> QED  BY <1>1, <1>2 DEF SendWorks

\* A work is queued.
LEMMA AppendWork ==
    ASSUME NEW s \in Seq(AllWorks), NEW w \in AllWorks
    PROVE  /\ Append(s, w) \in Seq(AllWorks)
           /\ Answered(Append(s, w)) = Answered(s) \cup FinalOf(w)
           /\ FinalsIncrease(s) /\ Before(Answered(s), FinalOf(w))
              => FinalsIncrease(Append(s, w))
<1> DEFINE t == Append(s, w)
<1>1. /\ t \in Seq(AllWorks) /\ Len(t) = Len(s) + 1 /\ t[Len(s) + 1] = w
      /\ \A i \in 1..Len(s) : t[i] = s[i]
  OBVIOUS
<1> HIDE DEF t
<1>2. ASSUME NEW x \in Answered(t) PROVE x \in Answered(s) \cup FinalOf(w)
  <2>1. PICK i \in 1..Len(t) : t[i].kind = "final" /\ t[i].r = x
    BY <1>1, AnsweredBy
  <2>2. CASE i = Len(s) + 1  BY <2>1, <2>2, <1>1 DEF FinalOf
  <2>3. CASE i # Len(s) + 1
    <3>1. i \in 1..Len(s) /\ t[i] = s[i]  BY <2>1, <2>3, <1>1
    <3> QED  BY <3>1, <2>1, AnsweredBy
  <2> QED  BY <2>2, <2>3
<1>3. ASSUME NEW x \in Answered(s) PROVE x \in Answered(t)
  <2>1. PICK i \in 1..Len(s) : s[i].kind = "final" /\ s[i].r = x  BY AnsweredBy
  <2>2. i \in 1..Len(t) /\ t[i] = s[i]  BY <2>1, <1>1
  <2> QED  BY <2>1, <2>2, <1>1, AnsweredBy
<1>4. ASSUME NEW x \in FinalOf(w) PROVE x \in Answered(t)
  <2>1. w.kind = "final" /\ x = w.r  BY DEF FinalOf
  <2>2. Len(s) + 1 \in 1..Len(t)  BY <1>1
  <2> QED  BY <2>1, <2>2, <1>1, AnsweredBy
<1>5. ASSUME FinalsIncrease(s), Before(Answered(s), FinalOf(w)) PROVE FinalsIncrease(t)
  <2> SUFFICES ASSUME NEW i \in 1..Len(t), NEW j \in 1..Len(t), i < j,
                      t[i].kind = "final", t[j].kind = "final"
               PROVE  t[i].r < t[j].r
    BY DEF FinalsIncrease
  <2>1. i \in 1..Len(s) /\ t[i] = s[i]  BY <1>1
  <2>2. CASE j = Len(s) + 1
    <3>1. t[i].r \in Answered(s)  BY <2>1, AnsweredBy
    <3>2. t[j].r \in FinalOf(w)  BY <2>2, <1>1 DEF FinalOf
    <3> QED  BY <3>1, <3>2, <1>5 DEF Before
  <2>3. CASE j # Len(s) + 1
    <3>1. j \in 1..Len(s) /\ t[j] = s[j]  BY <2>3, <1>1
    <3> QED  BY <2>1, <3>1, <1>5 DEF FinalsIncrease
  <2> QED  BY <2>2, <2>3
<1> QED  BY <1>1, <1>2, <1>3, <1>4, <1>5 DEF t

\* The first work is taken.
LEMMA TailWork ==
    ASSUME NEW s \in Seq(AllWorks), s # <<>>
    PROVE  /\ Head(s) \in AllWorks /\ Tail(s) \in Seq(AllWorks)
           /\ Answered(s) = FinalOf(Head(s)) \cup Answered(Tail(s))
           /\ FinalsIncrease(s) => /\ FinalsIncrease(Tail(s))
                                   /\ Before(FinalOf(Head(s)), Answered(Tail(s)))
<1> DEFINE t == Tail(s)
<1>1. /\ t \in Seq(AllWorks) /\ Len(t) = Len(s) - 1 /\ Len(s) \in Nat \ {0}
      /\ \A i \in 1..Len(t) : t[i] = s[i + 1]
      /\ Head(s) = s[1] /\ s[1] \in AllWorks
  OBVIOUS
<1> HIDE DEF t
<1>2. ASSUME NEW x \in Answered(s) PROVE x \in FinalOf(Head(s)) \cup Answered(t)
  <2>1. PICK i \in 1..Len(s) : s[i].kind = "final" /\ s[i].r = x  BY AnsweredBy
  <2>2. CASE i = 1  BY <2>1, <2>2, <1>1 DEF FinalOf
  <2>3. CASE i # 1
    <3>1. i - 1 \in 1..Len(t) /\ t[i - 1] = s[i]  BY <2>1, <2>3, <1>1
    <3> QED  BY <3>1, <2>1, <1>1, AnsweredBy
  <2> QED  BY <2>2, <2>3
<1>3. ASSUME NEW x \in Answered(t)
      PROVE  \E i \in 2..Len(s) : s[i].kind = "final" /\ s[i].r = x
  <2>1. PICK i \in 1..Len(t) : t[i].kind = "final" /\ t[i].r = x  BY <1>1, AnsweredBy
  <2>2. i + 1 \in 2..Len(s) /\ t[i] = s[i + 1]  BY <2>1, <1>1
  <2> QED  BY <2>1, <2>2
<1>4. ASSUME NEW x \in Answered(t) PROVE x \in Answered(s)
  <2>1. PICK i \in 2..Len(s) : s[i].kind = "final" /\ s[i].r = x  BY <1>3
  <2>2. i \in 1..Len(s)  BY <2>1, <1>1
  <2> QED  BY <2>1, <2>2, AnsweredBy
<1>5. ASSUME NEW x \in FinalOf(Head(s)) PROVE s[1].kind = "final" /\ s[1].r = x
  BY <1>1 DEF FinalOf
<1>6. ASSUME NEW x \in FinalOf(Head(s)) PROVE x \in Answered(s)
  <2>1. 1 \in 1..Len(s)  BY <1>1
  <2> QED  BY <2>1, <1>5, AnsweredBy
<1>7. ASSUME FinalsIncrease(s) PROVE FinalsIncrease(t) /\ Before(FinalOf(Head(s)), Answered(t))
  <2>1. ASSUME NEW i \in 1..Len(t), NEW j \in 1..Len(t), i < j,
               t[i].kind = "final", t[j].kind = "final"
        PROVE  t[i].r < t[j].r
    <3>1. /\ i + 1 \in 1..Len(s) /\ j + 1 \in 1..Len(s) /\ i + 1 < j + 1
          /\ t[i] = s[i + 1] /\ t[j] = s[j + 1]
      BY <2>1, <1>1
    <3> QED  BY <3>1, <2>1, <1>7 DEF FinalsIncrease
  <2>2. ASSUME NEW x \in FinalOf(Head(s)), NEW y \in Answered(t) PROVE x < y
    <3>1. PICK j \in 2..Len(s) : s[j].kind = "final" /\ s[j].r = y  BY <1>3
    <3>2. 1 \in 1..Len(s) /\ j \in 1..Len(s) /\ 1 < j  BY <3>1, <1>1
    <3>3. s[1].kind = "final" /\ s[1].r = x  BY <1>5
    <3> QED  BY <3>1, <3>2, <3>3, <1>7 DEF FinalsIncrease
  <2> QED  BY <2>1, <2>2 DEF FinalsIncrease, Before
<1> QED  BY <1>1, <1>2, <1>4, <1>6, <1>7 DEF t

-----------------------------------------------------------------------------
(* Steps of the receiving side. *)

Held == TypeOK /\ bug = "none" /\ PipeInv

\* What every step may use.
LEMMA Basics ==
    ASSUME Held
    PROVE  /\ seq_queue \in Seq(Reqs) /\ ret_queue \in Seq(Reqs)
           /\ ring \in Seq(AllWorks) /\ wire \in Seq(AllWorks)
           /\ Elems(seq_queue) \subseteq Reqs /\ Elems(ret_queue) \subseteq Reqs
           /\ Answered(ring) \subseteq Reqs /\ Answered(wire) \subseteq Reqs
           /\ next \in Nat /\ next \in 1..(NReqs + 1)
           /\ st \in [Reqs -> ReqStates] /\ pair \in [Reqs -> {"none", "continue", "final"}]
           /\ seq_queue = <<>> <=> Elems(seq_queue) = {}
           /\ ret_queue = <<>> <=> Elems(ret_queue) = {}
<1>1. seq_queue \in Seq(Reqs) /\ ret_queue \in Seq(Reqs) /\ ring \in Seq(AllWorks)
      /\ next \in Nat /\ next \in 1..(NReqs + 1)
      /\ st \in [Reqs -> ReqStates] /\ pair \in [Reqs -> {"none", "continue", "final"}]
  BY ReqsAssumption DEF Held, TypeOK, AllWorks
<1>2. wire \in Seq(AllWorks)  BY DEF Held, TypeOK, AllWorks
<1> QED  BY <1>1, <1>2, EmptyElems, ElemsReqs, AnsweredReqs

\* A list ends before the request in receipt, unless it holds that request.
LEMMA BeforeNext ==
    ASSUME Held, next \notin Elems(seq_queue)
    PROVE  Before(Elems(seq_queue), {next})
<1> SUFFICES ASSUME NEW x \in Elems(seq_queue) PROVE x < next
  BY DEF Before
<1>1. x \in Reqs /\ x # next  BY Basics
<1>2. ReqInv(x)  BY <1>1 DEF Held, PipeInv
<1> QED  BY <1>1, <1>2 DEF ReqInv, InSeq

\* Responses that are being sent come before the request in receipt.
LEMMA RetBefore ==
    ASSUME Held, next \notin Elems(ret_queue)
    PROVE  Before(Elems(ret_queue), Elems(seq_queue) \cup {next})
<1> SUFFICES ASSUME NEW x \in Elems(ret_queue) PROVE x < next
  BY DEF Before, Held, PipeInv, OrderInv
<1>1. x \in Reqs /\ x # next  BY Basics
<1>2. ReqInv(x)  BY <1>1 DEF Held, PipeInv
<1> QED  BY <1>1, <1>2, Basics DEF ReqInv, InRet, Received, Reqs

\* Responses stay in order if the lists do and no response gets to the socket.
LEMMA OrderKept ==
    ASSUME Held, Increasing(seq_queue'), Increasing(ret_queue'),
           Before(Elems(ret_queue'), Elems(seq_queue')),
           Elems(ret_queue') \cup Elems(seq_queue')
               \subseteq Elems(ret_queue) \cup Elems(seq_queue) \cup {next},
           next' \in Nat, next' >= next,
           FinalsIncrease(ring'), Answered(ring') = Answered(ring), wire' = wire
    PROVE  OrderInv'
<1> DEFINE A == Answered(wire) \cup Answered(ring)
           L == Elems(ret_queue) \cup Elems(seq_queue) \cup {next}
           M == Elems(ret_queue') \cup Elems(seq_queue') \cup {next'}
<1>1. Before(A, L) /\ Before(Answered(wire), Answered(ring))
  BY DEF Held, PipeInv, OrderInv
<1>2. A \subseteq Reqs /\ next \in Nat  BY Basics
<1>3. Before(A, M)
  <2> SUFFICES ASSUME NEW x \in A, NEW y \in M PROVE x < y
    BY DEF Before
  <2>1. CASE y \in L  BY <1>1, <2>1 DEF Before
  <2>2. CASE y \notin L
    <3>1. y = next'  BY <2>2
    <3>2. x < next  BY <1>1 DEF Before
    <3> QED  BY <3>1, <3>2, <1>2 DEF Reqs
  <2> QED  BY <2>1, <2>2
<1> QED  BY <1>1, <1>3 DEF OrderInv

\* The same for steps that leave the lists alone.
LEMMA OrderSame ==
    ASSUME Held, UNCHANGED <<seq_queue, ret_queue, wire>>, next' \in Nat, next' >= next,
           FinalsIncrease(ring'), Answered(ring') = Answered(ring)
    PROVE  OrderInv'
<1>1. /\ Increasing(seq_queue) /\ Increasing(ret_queue)
      /\ Before(Elems(ret_queue), Elems(seq_queue))
  BY DEF Held, PipeInv, OrderInv
<1> QED  BY <1>1, OrderKept

\* What ss_close() does to the queue is nothing to the order of responses.
LEMMA CloseWorks ==
    ASSUME Held, Close
    PROVE  /\ ring' \in Seq(AllWorks) /\ FinalsIncrease(ring')
           /\ Answered(ring') = Answered(ring)
<1>1. ring \in Seq(AllWorks) /\ FinalsIncrease(ring)
  BY Basics DEF Held, PipeInv, OrderInv
<1>2. ring' = ring \/ ring' = Append(ring, CloseWork)  BY DEF Close
<1>3. CloseWork \in AllWorks /\ FinalOf(CloseWork) = {}
  BY DEF AllWorks, FinalOf, CloseWork
<1>4. Before(Answered(ring), FinalOf(CloseWork))  BY <1>3 DEF Before
<1>5. /\ Append(ring, CloseWork) \in Seq(AllWorks)
      /\ Answered(Append(ring, CloseWork)) = Answered(ring) \cup {}
      /\ FinalsIncrease(Append(ring, CloseWork))
  BY <1>1, <1>3, <1>4, AppendWork
<1> QED  BY <1>1, <1>2, <1>5

\* A request that is in no list is queued for an answer.  A flag RESP_READY of
\* an interim response that was sent does no harm, as nothing follows.
LEMMA EnqueueKeeps ==
    ASSUME Held, NEW close \in BOOLEAN, Enqueue(next, close),
           next \in Reqs, sock = "open",
           next \notin Elems(seq_queue), next \notin Elems(ret_queue),
           next \in ready => Elems(seq_queue) = {} /\ close,
           rx # "idle" \/ ~stop, rx' = "idle",
           \A q \in Reqs \ {next} : pair'[q] = pair[q],
           UNCHANGED <<ready, contq, drop, retvars, sock, ring, wire>>
    PROVE  PipeInv'
<1> USE Basics
<1>1. /\ seq_queue' \in Seq(Reqs) /\ Elems(seq_queue') = Elems(seq_queue) \cup {next}
      /\ Increasing(seq_queue')
  BY BeforeNext, AppendElems DEF Enqueue, Held, PipeInv, OrderInv
<1>2. st' = [st EXCEPT ![next] = "work"] /\ stop' = (stop \/ close) /\ next' = next + 1
  BY DEF Enqueue
<1>3. ASSUME NEW q \in Reqs PROVE ReqInv(q)'
  <2>1. ReqInv(q)  BY DEF Held, PipeInv
  <2>2. CASE q = next
    BY <2>1, <2>2, <1>1, <1>2
       DEF ReqInv, Received, InSeq, InRet, IsReady, Answerable, retvars
  <2>3. CASE q # next
    BY <2>1, <2>3, <1>1, <1>2
       DEF ReqInv, Received, InSeq, InRet, IsReady, Answerable, retvars, Reqs
  <2> QED  BY <2>2, <2>3
<1>4. RxInv'  BY DEF RxInv
<1>5. ConnInv'  BY DEF ConnInv, Held, PipeInv, retvars
<1>6. OrderInv'
  <2>1. Before(Elems(ret_queue), Elems(seq_queue) \cup {next})
    BY RetBefore
  <2>2. Increasing(ret_queue) /\ FinalsIncrease(ring)  BY DEF Held, PipeInv, OrderInv
  <2> QED  BY <1>1, <1>2, <2>1, <2>2, OrderKept DEF retvars
<1> QED  BY <1>3, <1>4, <1>5, <1>6 DEF PipeInv

\* A whole request is received: it is in no list yet.
LEMMA RecvKeeps ==
    ASSUME Held, NEW close \in BOOLEAN, Recv(close)
    PROVE  PipeInv'
<1>1. next \in Reqs /\ st[next] = "new" /\ rx = "idle" /\ ~stop /\ sock = "open"
  BY DEF Recv, Receiving
<1>2. ReqInv(next)  BY <1>1 DEF Held, PipeInv
<1>3. next \notin Elems(seq_queue) /\ next \notin Elems(ret_queue) /\ next \notin ready
  BY <1>1, <1>2 DEF ReqInv, InSeq, InRet, IsReady
<1>4. /\ Enqueue(next, close) /\ rx' = "idle"
      /\ UNCHANGED <<ready, contq, pair, drop, retvars, sock, ring, wire>>
  BY <1>1 DEF Recv, wqvars, txvars
<1> QED  BY <1>1, <1>3, <1>4, EnqueueKeeps

\* A request with a body is complete: its interim response is in no list any more.
LEMMA RecvEndKeeps ==
    ASSUME Held, NEW close \in BOOLEAN, RecvEnd(close)
    PROVE  PipeInv'
<1>1. next \in Reqs /\ st[next] = "body" /\ rx = "process" /\ sock = "open"
  BY DEF RecvEnd, Held, PipeInv, RxInv
<1>2. ReqInv(next)  BY <1>1 DEF Held, PipeInv
<1>3. next \notin Elems(seq_queue) /\ next \notin Elems(ret_queue) /\ next \notin ready
  BY <1>1, <1>2 DEF ReqInv, InSeq, InRet, IsReady
<1>4. /\ Enqueue(next, close) /\ rx' = "idle"
      /\ UNCHANGED <<ready, contq, pair, drop, retvars, sock, ring, wire>>
  BY <1>1 DEF RecvEnd, wqvars, txvars
<1> QED  BY <1>1, <1>3, <1>4, EnqueueKeeps

\* A malformed body: the request loses its interim response, wherever it is.
LEMMA RecvBadKeeps ==
    ASSUME Held, RecvBad
    PROVE  PipeInv'
<1> USE Basics
<1>1. next \in Reqs /\ st[next] = "headers" /\ rx = "idle" /\ ~stop /\ sock = "open"
  BY DEF RecvBad, Receiving
<1>2. /\ rx' = "bad" /\ pair' = [pair EXCEPT ![next] = "none"]
      /\ UNCHANGED <<st, seq_queue, ready, contq, drop, next, stop, retvars, sock, ring,
                     wire>>
  BY DEF RecvBad, wqvars, txvars
<1>3. ASSUME NEW q \in Reqs PROVE ReqInv(q)'
  <2>1. ReqInv(q)  BY DEF Held, PipeInv
  <2>2. CASE q = next
    BY <2>1, <2>2, <1>1, <1>2
       DEF ReqInv, Received, InSeq, InRet, IsReady, Answerable, retvars
  <2>3. CASE q # next
    BY <2>1, <2>3, <1>1, <1>2
       DEF ReqInv, Received, InSeq, InRet, IsReady, Answerable, retvars
  <2> QED  BY <2>2, <2>3
<1>4. RxInv'  BY <1>1, <1>2 DEF RxInv
<1>5. ConnInv'  BY <1>2 DEF ConnInv, Held, PipeInv, retvars
<1>6. OrderInv'
  <2>1. FinalsIncrease(ring)  BY DEF Held, PipeInv, OrderInv
  <2> QED  BY <1>2, <2>1, OrderSame DEF retvars
<1> QED  BY <1>3, <1>4, <1>5, <1>6 DEF PipeInv

\* It is queued for an error response, unless it is in a list already: this
\* fails an assertion.
LEMMA RecvBadQueueKeeps ==
    ASSUME Held, RecvBadQueue, bug' = "none"
    PROVE  PipeInv'
<1>1. next \in Reqs /\ st[next] = "headers" /\ rx = "bad" /\ sock = "open"
  BY DEF RecvBadQueue, Held, PipeInv, RxInv
<1>2. ReqInv(next)  BY <1>1 DEF Held, PipeInv
<1>3. next \notin Elems(seq_queue) /\ next \notin Elems(ret_queue)
  BY DEF RecvBadQueue
<1>4. next \in ready => Elems(seq_queue) = {}
  BY <1>1, <1>2, <1>3 DEF ReqInv, IsReady
<1>5. /\ Enqueue(next, TRUE) /\ rx' = "idle"
      /\ UNCHANGED <<ready, contq, pair, drop, retvars, sock, ring, wire>>
  BY <1>1 DEF RecvBadQueue, wqvars, txvars
<1> QED  BY <1>1, <1>3, <1>4, <1>5, EnqueueKeeps

\* A request is blocked and freed, unless a sender is about to look at it.
LEMMA RecvBlockKeeps ==
    ASSUME Held, RecvBlock, bug' = "none"
    PROVE  PipeInv'
<1> USE Basics
<1>1. next \in Reqs
  BY DEF RecvBlock, Receiving, Held, PipeInv, RxInv
<1>2. /\ ret_queue' \in Seq(Reqs) /\ Elems(ret_queue') = Elems(ret_queue) \ {next}
      /\ Increasing(ret_queue')
  BY <1>1, WithoutElems DEF RecvBlock, Held, PipeInv, OrderInv
<1>3. /\ seq_queue' \in Seq(Reqs) /\ Elems(seq_queue') = Elems(seq_queue) \ {next}
      /\ Increasing(seq_queue')
  BY <1>1, WithoutElems DEF RecvBlock, Held, PipeInv, OrderInv
<1>4. /\ st' = [r \in Reqs |-> IF r \in {next} THEN "done" ELSE st[r]]
      /\ pair' = [r \in Reqs |-> IF r \in {next} THEN "none" ELSE pair[r]]
      /\ ready' = ready \ {next} /\ contq' = contq \ {next} /\ drop' = drop \ {next}
      /\ stop' = TRUE /\ next' = next + 1 /\ rx' = "idle"
      /\ UNCHANGED <<sender, sock, wire>>
  BY DEF RecvBlock, Freed, txvars
<1>5. ASSUME NEW q \in Reqs PROVE ReqInv(q)'
  <2>1. ReqInv(q)  BY DEF Held, PipeInv
  <2>2. CASE q = next
    BY <2>1, <2>2, <1>2, <1>3, <1>4
       DEF ReqInv, Received, InSeq, InRet, IsReady, Answerable
  <2>3. CASE q # next
    BY <2>1, <2>3, <1>1, <1>2, <1>3, <1>4
       DEF ReqInv, Received, InSeq, InRet, IsReady, Answerable, Reqs
  <2> QED  BY <2>2, <2>3
<1>6. RxInv'  BY <1>4 DEF RxInv
<1>7. ConnInv'  BY <1>2, <1>3, <1>4 DEF ConnInv, Held, PipeInv
<1>8. OrderInv'
  <2>1. Before(Elems(ret_queue), Elems(seq_queue))
    BY DEF Held, PipeInv, OrderInv
  <2>2. Before(Elems(ret_queue'), Elems(seq_queue'))  BY <1>2, <1>3, <2>1 DEF Before
  <2>3. FinalsIncrease(ring') /\ Answered(ring') = Answered(ring)
    BY CloseWorks DEF RecvBlock
  <2> QED  BY <1>2, <1>3, <1>4, <2>2, <2>3, OrderKept
<1> QED  BY <1>5, <1>6, <1>7, <1>8 DEF PipeInv

\* The headers of a request with Expect: 100-continue.
LEMMA RecvHeadersKeeps ==
    ASSUME Held, RecvHeaders
    PROVE  PipeInv'
<1> USE Basics
<1>1. next \in Reqs /\ st[next] = "new" /\ rx = "idle" /\ ~stop /\ sock = "open"
  BY DEF RecvHeaders, Receiving
<1>2. ReqInv(next)  BY <1>1 DEF Held, PipeInv
<1>3. next \notin Elems(seq_queue) /\ next \notin Elems(ret_queue) /\ next \notin ready
  BY <1>1, <1>2 DEF ReqInv, InSeq, InRet, IsReady
<1>4. /\ st' = [st EXCEPT ![next] = "headers"]
      /\ pair' = [pair EXCEPT ![next] = "continue"]
      /\ UNCHANGED <<drop, next, stop, retvars, sock, ring, wire>>
  BY DEF RecvHeaders, wqvars, txvars
<1>5. Increasing(ret_queue) /\ FinalsIncrease(ring)  BY DEF Held, PipeInv, OrderInv
<1>6. CASE seq_queue = <<>>
  <2>1. rx' = "continue" /\ UNCHANGED <<seq_queue, ready, contq>>
    BY <1>6 DEF RecvHeaders
  <2>2. ASSUME NEW q \in Reqs PROVE ReqInv(q)'
    <3>1. ReqInv(q)  BY DEF Held, PipeInv
    <3> QED
      BY <3>1, <1>1, <1>3, <1>4, <2>1
         DEF ReqInv, Received, InSeq, InRet, IsReady, Answerable, retvars
  <2>3. RxInv'  BY <1>1, <1>4, <2>1 DEF RxInv
  <2>4. ConnInv'  BY <1>1, <1>4, <2>1 DEF ConnInv, Held, PipeInv, retvars
  <2>5. OrderInv'  BY <1>4, <1>5, <2>1, OrderSame DEF retvars
  <2> QED  BY <2>2, <2>3, <2>4, <2>5 DEF PipeInv
<1>7. CASE seq_queue # <<>>
  <2>1. /\ seq_queue' = Append(seq_queue, next) /\ rx' = rx
        /\ ready' = ready \cup {next} /\ contq' = contq \cup {next}
    BY <1>7 DEF RecvHeaders
  <2>2. /\ seq_queue' \in Seq(Reqs) /\ Elems(seq_queue') = Elems(seq_queue) \cup {next}
        /\ Increasing(seq_queue')
    BY <1>1, <1>3, <2>1, BeforeNext, AppendElems DEF Held, PipeInv, OrderInv
  <2>3. ASSUME NEW q \in Reqs PROVE ReqInv(q)'
    <3>1. ReqInv(q)  BY DEF Held, PipeInv
    <3> QED
      BY <3>1, <1>1, <1>3, <1>4, <2>1, <2>2
         DEF ReqInv, Received, InSeq, InRet, IsReady, Answerable, retvars
  <2>4. RxInv'  BY <1>1, <2>1 DEF RxInv
  <2>5. ConnInv'  BY <1>1, <1>4 DEF ConnInv, Held, PipeInv, retvars
  <2>6. Before(Elems(ret_queue), Elems(seq_queue) \cup {next})  BY <1>3, RetBefore
  <2>7. OrderInv'  BY <1>4, <1>5, <2>2, <2>6, OrderKept DEF retvars
  <2> QED  BY <2>3, <2>4, <2>5, <2>7 DEF PipeInv
<1> QED  BY <1>6, <1>7

\* An interim response that found seq_queue empty is sent, or the connection is closed.
LEMMA SendContinueKeeps ==
    ASSUME Held, SendContinue
    PROVE  PipeInv'
<1> USE Basics
<1>1. /\ next \in Reqs /\ st[next] = "headers" /\ rx = "continue" /\ sock = "open"
      /\ pair[next] = "continue"
  BY DEF SendContinue, Held, PipeInv, RxInv
<1>2. ReqInv(next)  BY <1>1 DEF Held, PipeInv
<1>3. next \notin Elems(seq_queue) /\ next \notin Elems(ret_queue)
  BY <1>1, <1>2 DEF ReqInv, InSeq, InRet
<1>4. /\ rx' = "idle" /\ pair' = [pair EXCEPT ![next] = "none"]
      /\ UNCHANGED <<st, seq_queue, ready, contq, drop, next, retvars, sock, wire>>
  BY DEF SendContinue, txvars
<1>5. FinalsIncrease(ring') /\ Answered(ring') = Answered(ring)
  <2>1. CASE MaySend
    <3> DEFINE w == [r |-> next, kind |-> pair[next],
                     last |-> pair[next] = "final" /\ next \in connclose]
    <3>1. ring' = Append(ring, w)  BY <2>1 DEF SendContinue, Send
    <3>2. w \in AllWorks /\ FinalOf(w) = {}
      BY <1>1 DEF AllWorks, SendWorks, FinalOf
    <3>3. Before(Answered(ring), FinalOf(w))  BY <3>2 DEF Before
    <3>4. FinalsIncrease(ring)  BY DEF Held, PipeInv, OrderInv
    <3> HIDE DEF w
    <3>5. Answered(ring') = Answered(ring) \cup FinalOf(w) /\ FinalsIncrease(ring')
      BY <3>1, <3>2, <3>3, <3>4, AppendWork
    <3> QED  BY <3>2, <3>5
  <2>2. CASE ~MaySend
    BY <2>2, CloseWorks DEF SendContinue
  <2> QED  BY <2>1, <2>2
<1>6. ASSUME NEW q \in Reqs PROVE ReqInv(q)'
  <2>1. ReqInv(q)  BY DEF Held, PipeInv
  <2> QED
    BY <2>1, <1>1, <1>3, <1>4
       DEF ReqInv, Received, InSeq, InRet, IsReady, Answerable, retvars
<1>7. RxInv'  BY <1>4 DEF RxInv
<1>8. ConnInv'  BY <1>4 DEF ConnInv, Held, PipeInv, retvars
<1>9. OrderInv'  BY <1>4, <1>5, OrderSame DEF retvars
<1> QED  BY <1>6, <1>7, <1>8, <1>9 DEF PipeInv

\* The body is complete: the interim response leaves seq_queue, or is waited for.
LEMMA RecvBodyKeeps ==
    ASSUME Held, RecvBody
    PROVE  PipeInv'
<1> USE Basics
<1>1. next \in Reqs /\ st[next] = "headers" /\ rx = "idle" /\ ~stop /\ sock = "open"
  BY DEF RecvBody, Receiving
<1>2. /\ seq_queue' \in Seq(Reqs) /\ Elems(seq_queue') = Elems(seq_queue) \ {next}
      /\ Increasing(seq_queue')
  BY <1>1, WithoutElems DEF RecvBody, Held, PipeInv, OrderInv
<1>3. /\ st' = [st EXCEPT ![next] = "body"]
      /\ ready' = ready \ {next} /\ contq' = contq \ {next}
      /\ pair' = IF next \in Elems(seq_queue) THEN [pair EXCEPT ![next] = "none"] ELSE pair
      /\ rx' = IF next \in contq \ Elems(seq_queue) THEN "delete" ELSE "process"
      /\ UNCHANGED <<drop, next, stop, retvars, sock, ring, wire>>
  BY DEF RecvBody, wqvars, txvars
<1>4. /\ Increasing(ret_queue) /\ FinalsIncrease(ring)
      /\ Before(Elems(ret_queue), Elems(seq_queue))
  BY DEF Held, PipeInv, OrderInv
<1>5. next \in Elems(ret_queue) => next \notin Elems(seq_queue)
  BY <1>1, <1>4 DEF Before
<1>6. ASSUME NEW q \in Reqs PROVE ReqInv(q)'
  <2>1. ReqInv(q)  BY DEF Held, PipeInv
  <2>2. CASE q = next
    BY <2>1, <2>2, <1>1, <1>2, <1>3, <1>5
       DEF ReqInv, Received, InSeq, InRet, IsReady, Answerable, retvars
  <2>3. CASE q # next
    BY <2>1, <2>3, <1>1, <1>2, <1>3
       DEF ReqInv, Received, InSeq, InRet, IsReady, Answerable, retvars
  <2> QED  BY <2>2, <2>3
<1>7. RxInv'  BY <1>1, <1>3 DEF RxInv
<1>8. ConnInv'  BY <1>1, <1>3 DEF ConnInv, Held, PipeInv, retvars
<1>9. OrderInv'
  <2>1. Before(Elems(ret_queue), Elems(seq_queue'))  BY <1>2, <1>4 DEF Before
  <2> QED  BY <1>2, <1>3, <1>4, <2>1, OrderKept DEF retvars
<1> QED  BY <1>6, <1>7, <1>8, <1>9 DEF PipeInv

\* The handler has waited for ret_qlock: no interim response is left in ret_queue.
LEMMA DeletedKeeps ==
    ASSUME Held, Deleted
    PROVE  PipeInv'
<1> USE Basics
<1>1. /\ rx = "delete" /\ rx' = "process" /\ sender = 0
      /\ UNCHANGED <<reqvars, next, stop, retvars, sock, ring, wire>>
  BY DEF Deleted, wqvars, txvars
<1>2. Elems(ret_queue) = {}  BY <1>1 DEF Held, PipeInv, ConnInv
<1>3. ASSUME NEW q \in Reqs PROVE ReqInv(q)'
  <2>1. ReqInv(q)  BY DEF Held, PipeInv
  <2> QED
    BY <2>1, <1>1, <1>2
       DEF ReqInv, Received, InSeq, InRet, IsReady, Answerable, retvars, reqvars
<1>4. RxInv'  BY <1>1 DEF RxInv, Held, PipeInv, reqvars
<1>5. ConnInv'  BY <1>1 DEF ConnInv, Held, PipeInv, retvars, reqvars
<1>6. OrderInv'
  <2>1. FinalsIncrease(ring)  BY DEF Held, PipeInv, OrderInv
  <2> QED  BY <1>1, <2>1, OrderSame DEF retvars, reqvars
<1> QED  BY <1>3, <1>4, <1>5, <1>6 DEF PipeInv

-----------------------------------------------------------------------------
(* Steps of those who answer. *)

\* An answer to a request whose client is gone.
LEMMA RespDroppedKeeps ==
    ASSUME Held, NEW r \in Reqs, RespDropped(r)
    PROVE  PipeInv'
<1> USE Basics
<1>1. st[r] = "work" /\ r \in drop /\ sock = "dropped" /\ Elems(seq_queue) = {} /\ rx = "idle"
  BY DEF RespDropped, Held, PipeInv, ConnInv, RxInv
<1>2. /\ st' = [q \in Reqs |-> IF q \in {r} THEN "done" ELSE st[q]]
      /\ pair' = [q \in Reqs |-> IF q \in {r} THEN "none" ELSE pair[q]]
      /\ ready' = ready \ {r} /\ contq' = contq \ {r} /\ drop' = drop \ {r}
      /\ UNCHANGED <<seq_queue, rx, next, stop, retvars, sock, ring, wire>>
  BY DEF RespDropped, Freed, rxvars, wqvars, txvars
<1>3. ReqInv(r)  BY DEF Held, PipeInv
<1>4. ASSUME NEW q \in Reqs PROVE ReqInv(q)'
  <2>1. ReqInv(q)  BY DEF Held, PipeInv
  <2> QED
    BY <2>1, <1>1, <1>2, <1>3
       DEF ReqInv, Received, InSeq, InRet, IsReady, Answerable, retvars
<1>5. RxInv'  BY <1>1, <1>2 DEF RxInv
<1>6. ConnInv'  BY <1>1, <1>2 DEF ConnInv, Held, PipeInv, retvars
<1>7. OrderInv'
  <2>1. FinalsIncrease(ring)  BY DEF Held, PipeInv, OrderInv
  <2> QED  BY <1>2, <2>1, OrderSame DEF retvars
<1> QED  BY <1>4, <1>5, <1>6, <1>7 DEF PipeInv

\* An answer that finds no queue: its client is gone, and the request is in no list.
LEMMA RespNoClientKeeps ==
    ASSUME Held, NEW r \in Reqs, RespNoClient(r)
    PROVE  PipeInv' /\ bug' = "none"
<1> USE Basics
<1>1. /\ st[r] = "work" /\ Elems(seq_queue) = {}
  BY DEF RespNoClient
<1>2. ReqInv(r)  BY DEF Held, PipeInv
<1>3. r \notin Elems(ret_queue) /\ r \in drop
  BY <1>1, <1>2
     DEF ReqInv, Received, InSeq, InRet, IsReady, Answerable
<1>4. sock = "dropped" /\ rx = "idle"  BY <1>3 DEF Held, PipeInv, ConnInv, RxInv
<1>5. /\ st' = [q \in Reqs |-> IF q \in {r} THEN "done" ELSE st[q]]
      /\ pair' = [q \in Reqs |-> IF q \in {r} THEN "none" ELSE pair[q]]
      /\ ready' = ready \ {r} /\ contq' = contq \ {r} /\ drop' = drop \ {r}
      /\ UNCHANGED <<seq_queue, rx, next, stop, retvars, sock, wire>>
  BY DEF RespNoClient, Freed, rxvars, txvars
<1>6. ASSUME NEW q \in Reqs PROVE ReqInv(q)'
  <2>1. ReqInv(q)  BY DEF Held, PipeInv
  <2> QED
    BY <2>1, <1>1, <1>2, <1>3, <1>5
       DEF ReqInv, Received, InSeq, InRet, IsReady, Answerable, retvars
<1>7. RxInv'  BY <1>4, <1>5 DEF RxInv
<1>8. ConnInv'  BY <1>4, <1>5 DEF ConnInv, Held, PipeInv, retvars
<1>9. FinalsIncrease(ring') /\ Answered(ring') = Answered(ring)
  BY CloseWorks DEF RespNoClient
<1>10. OrderInv'  BY <1>5, <1>9, OrderSame DEF retvars
<1>11. bug' = "none"  BY <1>3 DEF RespNoClient, Held
<1> QED  BY <1>6, <1>7, <1>8, <1>10, <1>11 DEF PipeInv

\* The prefix that is cut off consists of responses, final or interim: the
\* response that is answered is in the list, so that a flag that was left on
\* another request without one is not met.
LEMMA RespFwdKeeps ==
    ASSUME Held, NEW r \in Reqs, NEW close \in BOOLEAN, RespFwd(r, close)
    PROVE  PipeInv' /\ bug' = "none"
<1> USE Basics
<1> DEFINE cut == ReadyPart(seq_queue, ready \cup {r})
           rest == SubSeq(seq_queue, Len(cut) + 1, Len(seq_queue))
<1>1. st[r] = "work" /\ Elems(seq_queue) # {} /\ (cut # <<>> => sender = 0)
  BY DEF RespFwd
<1>2. ReqInv(r)  BY DEF Held, PipeInv
<1>3. sock # "dropped" /\ drop = {}  BY <1>1 DEF Held, PipeInv, ConnInv
<1>4. r \in Elems(seq_queue) /\ r \notin Elems(ret_queue)
  BY <1>1, <1>2, <1>3
     DEF ReqInv, Received, InSeq, InRet, IsReady, Answerable
<1>5. /\ seq_queue' = rest
      /\ ret_queue' = IF cut = <<>> THEN ret_queue ELSE cut
      /\ sender' = IF cut = <<>> THEN sender ELSE r
      /\ bug' = bug
  BY <1>4 DEF RespFwd
<1>6. /\ st' = [st EXCEPT ![r] = "fwd"] /\ pair' = [pair EXCEPT ![r] = "final"]
      /\ ready' = ready \cup {r} /\ stop' = (stop \/ close)
      /\ UNCHANGED <<contq, drop, next, rx, sock, ring, wire>>
  BY DEF RespFwd, wqvars, txvars
<1>7. /\ cut \in Seq(Reqs) /\ rest \in Seq(Reqs)
      /\ Elems(seq_queue) = Elems(cut) \cup Elems(rest)
      /\ Elems(cut) \subseteq ready \cup {r}
      /\ Before(Elems(cut), Elems(rest))
      /\ Increasing(cut) /\ Increasing(rest)
      /\ cut = <<>> => rest = seq_queue
  <2>1. seq_queue \in Seq(Reqs) /\ Increasing(seq_queue)  BY DEF Held, PipeInv, OrderInv
  <2> QED  BY ONLY <2>1, CutElems
<1> HIDE DEF cut, rest
<1>8. cut = <<>> <=> Elems(cut) = {}  BY <1>7, EmptyElems
<1>9. cut # <<>> => Elems(ret_queue) = {}  BY <1>1 DEF Held, PipeInv, ConnInv
<1>10. Elems(ret_queue') = Elems(ret_queue) \cup Elems(cut)
  BY <1>5, <1>8, <1>9
<1>11. Elems(seq_queue') = Elems(rest)  BY <1>5
<1>12. \A x \in Elems(cut) : x \notin Elems(rest)  BY <1>7 DEF Before, Reqs
<1>13. ASSUME NEW q \in Reqs PROVE ReqInv(q)'
  <2>1. ReqInv(q)  BY DEF Held, PipeInv
  <2>2. CASE q = r
    BY <2>2, <2>1, <1>1, <1>2, <1>4, <1>6, <1>7, <1>10, <1>11, <1>12
       DEF ReqInv, Received, InSeq, InRet, IsReady, Answerable
  <2>3. CASE q # r
    <3>1. st'[q] = st[q] /\ pair'[q] = pair[q] /\ (q \in ready' <=> q \in ready)
      BY <2>3, <1>6
    <3>2. Elems(rest) \subseteq Elems(seq_queue) /\ Elems(cut) \subseteq Elems(seq_queue)
      BY <1>7
    <3>3. Received(q)'  BY <2>1, <3>1, <1>6 DEF ReqInv, Received
    <3>4. InSeq(q)'  BY <2>1, <3>1, <3>2, <1>6, <1>11 DEF ReqInv, InSeq
    <3>5. InRet(q)'
      <4>1. CASE q \in Elems(ret_queue)
        BY <4>1, <2>1, <3>1, <1>6 DEF ReqInv, InRet
      <4>2. CASE q \in Elems(cut)
        <5>1. q \in ready /\ q \in Elems(seq_queue)  BY <4>2, <2>3, <3>2, <1>7
        <5> QED  BY <5>1, <2>1, <2>3, <3>1, <1>4, <1>6 DEF ReqInv, InSeq, IsReady, InRet
      <4> QED  BY <4>1, <4>2, <1>10 DEF InRet
    <3>6. IsReady(q)'
      <4> SUFFICES ASSUME q \in ready, ~(st[q] = "fwd" /\ pair[q] = "final") PROVE IsReady(q)'
        BY <3>1 DEF IsReady
      <4>1. q = next /\ st[q] = "headers" /\ q \in Elems(seq_queue)
        BY <2>1, <2>3, <1>1, <1>4 DEF ReqInv, IsReady
      <4>2. q \in Elems(cut) => Elems(rest) = {}
        <5> SUFFICES ASSUME q \in Elems(cut), NEW x \in Elems(rest) PROVE FALSE
          OBVIOUS
        <5>1. x \in Reqs /\ next < x /\ x \in Elems(seq_queue)
          BY <4>1, <1>7 DEF Before
        <5>2. InSeq(x)  BY <5>1 DEF Held, PipeInv, ReqInv
        <5> QED  BY <5>1, <5>2 DEF InSeq, Reqs
      <4> QED  BY <4>1, <4>2, <3>1, <1>6, <1>7, <1>11 DEF IsReady
    <3>7. Answerable(q)'
      <4>1. CASE q \in Elems(cut)
        <5>1. q \in ready /\ q \in Elems(seq_queue)  BY <4>1, <2>3, <3>2, <1>7
        <5>2. st[q] # "work"  BY <5>1, <2>1, <2>3, <1>4 DEF ReqInv, IsReady
        <5> QED  BY <5>2, <3>1 DEF Answerable
      <4>2. CASE q \notin Elems(cut)
        BY <4>2, <2>1, <3>1, <1>6, <1>7, <1>11 DEF ReqInv, Answerable
      <4> QED  BY <4>1, <4>2
    <3> QED  BY <3>3, <3>4, <3>5, <3>6, <3>7 DEF ReqInv
  <2> QED  BY <2>2, <2>3
<1>14. RxInv'
  <2>1. rx # "idle" => r # next  BY <1>1 DEF Held, PipeInv, RxInv
  <2> QED  BY <2>1, <1>6 DEF Held, PipeInv, RxInv
<1>15. ConnInv'
  <2>1. sender' = 0 => cut = <<>> /\ sender = 0  BY <1>5 DEF Reqs
  <2> QED  BY <2>1, <1>3, <1>5, <1>6 DEF Held, PipeInv, ConnInv
<1>16. OrderInv'
  <2>1. /\ FinalsIncrease(ring) /\ Increasing(ret_queue)
        /\ Before(Elems(ret_queue), Elems(seq_queue))
    BY DEF Held, PipeInv, OrderInv
  <2>2. Increasing(ret_queue') /\ Increasing(seq_queue')  BY <2>1, <1>5, <1>7
  <2>3. Before(Elems(ret_queue'), Elems(seq_queue'))
    BY <2>1, <1>7, <1>10, <1>11 DEF Before
  <2> QED  BY <1>6, <1>7, <1>10, <1>11, <2>1, <2>2, <2>3, OrderKept
<1> QED  BY <1>5, <1>13, <1>14, <1>15, <1>16 DEF PipeInv, Held

\* A response goes to the socket.
LEMMA SendNextKeeps ==
    ASSUME Held, SendNext
    PROVE  PipeInv' /\ bug' = "none"
<1> USE Basics
<1> DEFINE r == ret_queue[1]
           w == [r |-> r, kind |-> pair[r], last |-> pair[r] = "final" /\ r \in connclose]
<1>1. sender # 0 /\ ret_queue # <<>> /\ ret_queue' = Tail(ret_queue) /\ ring' = Append(ring, w)
  BY DEF SendNext, Send
<1>2. /\ r \in Reqs /\ r \in Elems(ret_queue)
      /\ Tail(ret_queue) \in Seq(Reqs)
      /\ Elems(ret_queue') = Elems(ret_queue) \ {r}
      /\ Before({r}, Elems(ret_queue'))
      /\ Increasing(ret_queue')
  <2>1. ret_queue \in Seq(Reqs) /\ Increasing(ret_queue)  BY DEF Held, PipeInv, OrderInv
  <2> QED  BY ONLY <1>1, <2>1, TailElems
<1> HIDE DEF r
<1>3. /\ Before(Elems(ret_queue), Elems(seq_queue)) /\ Increasing(seq_queue)
      /\ FinalsIncrease(ring) /\ Before(Answered(wire), Answered(ring))
      /\ Before(Answered(wire) \cup Answered(ring),
                Elems(ret_queue) \cup Elems(seq_queue) \cup {next})
  BY DEF Held, PipeInv, OrderInv
<1>4. r \notin Elems(seq_queue)  BY <1>2, <1>3 DEF Before, Reqs
<1>5. ReqInv(r)  BY <1>2 DEF Held, PipeInv
<1>6. \/ st[r] = "fwd" /\ pair[r] = "final" /\ r < next
      \/ r = next /\ st[r] \in Partial /\ pair[r] = "continue"
  <2>1. pair[r] # "none"  BY DEF SendNext, r
  <2> QED  BY <1>2, <1>5, <2>1 DEF ReqInv, InRet, Received, Partial, Reqs
<1>7. bug' = "none"
  BY <1>6 DEF SendNext, Held, r
<1>8. UNCHANGED <<seq_queue, rx, next, stop, sender, sock, wire>>
  BY DEF SendNext, rxvars, txvars
<1>9. w \in AllWorks /\ FinalOf(w) = IF pair[r] = "final" THEN {r} ELSE {}
  BY <1>2, <1>6 DEF AllWorks, SendWorks, FinalOf
<1> HIDE DEF w
<1>10. Before(Answered(ring), FinalOf(w))  BY <1>2, <1>3, <1>9 DEF Before
<1>11. Answered(ring') = Answered(ring) \cup FinalOf(w) /\ FinalsIncrease(ring')
  BY <1>1, <1>3, <1>9, <1>10, AppendWork
<1>12. OrderInv'
  <2>1. Before(Elems(ret_queue'), Elems(seq_queue))  BY <1>2, <1>3 DEF Before
  <2>2. Before(Answered(wire), Answered(ring'))
    BY <1>2, <1>3, <1>9, <1>11 DEF Before
  <2>3. Before(Answered(wire) \cup Answered(ring'),
               Elems(ret_queue') \cup Elems(seq_queue) \cup {next})
    <3> SUFFICES ASSUME NEW x \in Answered(wire) \cup Answered(ring'),
                        NEW y \in Elems(ret_queue') \cup Elems(seq_queue) \cup {next}
                 PROVE  x < y
      BY DEF Before
    <3>1. CASE x \in Answered(wire) \cup Answered(ring)
      BY <3>1, <1>2, <1>3 DEF Before
    <3>2. CASE x \notin Answered(wire) \cup Answered(ring)
      <4>1. x = r /\ pair[r] = "final"  BY <3>2, <1>9, <1>11
      <4>2. r < next  BY <4>1, <1>6
      <4> QED  BY <4>1, <4>2, <1>2, <1>3 DEF Before
    <3> QED  BY <3>1, <3>2
  <2> QED  BY <2>1, <2>2, <2>3, <1>2, <1>3, <1>8, <1>11 DEF OrderInv
<1>13. ConnInv'
  <2>1. drop' \subseteq drop  BY DEF SendNext, Freed
  <2>2. sender # 0  BY <1>1
  <2> QED  BY <2>1, <2>2, <1>8 DEF Held, PipeInv, ConnInv
<1>14. CASE pair[r] = "continue"
  <2>1. pair' = [pair EXCEPT ![r] = "none"] /\ UNCHANGED <<st, ready, contq, drop>>
    BY <1>14 DEF SendNext, r
  <2>2. r = next /\ st[r] \in Partial  BY <1>6, <1>14
  <2>3. ASSUME NEW q \in Reqs PROVE ReqInv(q)'
    <3>1. ReqInv(q)  BY DEF Held, PipeInv
    <3> QED
      BY <3>1, <2>1, <2>2, <1>2, <1>4, <1>8
         DEF ReqInv, Received, InSeq, InRet, IsReady, Answerable, Partial
  <2>4. RxInv'
    <3>1. rx # "continue"
      BY <2>2, <1>2, <1>5, <1>14
         DEF ReqInv, InRet, Held, PipeInv, RxInv
    <3> QED  BY <3>1, <2>1, <1>8 DEF Held, PipeInv, RxInv
  <2> QED  BY <2>3, <2>4, <1>7, <1>12, <1>13 DEF PipeInv
<1>15. CASE pair[r] # "continue"
  <2>1. /\ st' = [q \in Reqs |-> IF q \in {r} THEN "done" ELSE st[q]]
        /\ pair' = [q \in Reqs |-> IF q \in {r} THEN "none" ELSE pair[q]]
        /\ ready' = ready \ {r} /\ contq' = contq \ {r} /\ drop' = drop \ {r}
    BY <1>15 DEF SendNext, Freed, r
  <2>2. st[r] = "fwd" /\ r < next  BY <1>6, <1>15
  <2>3. ASSUME NEW q \in Reqs PROVE ReqInv(q)'
    <3>1. ReqInv(q)  BY DEF Held, PipeInv
    <3> QED
      BY <3>1, <2>1, <2>2, <1>2, <1>4, <1>8
         DEF ReqInv, Received, InSeq, InRet, IsReady, Answerable
  <2>4. RxInv'
    <3>1. r # next  BY <2>2
    <3> QED  BY <3>1, <2>1, <1>8 DEF Held, PipeInv, RxInv
  <2> QED  BY <2>3, <2>4, <1>7, <1>12, <1>13 DEF PipeInv
<1> QED  BY <1>14, <1>15

\* Only a request in receipt that is being refused has no response in ret_queue.
LEMMA BareRequests ==
    ASSUME Held, NEW R \in SUBSET Elems(ret_queue)
    PROVE  /\ Unpaired(R) \in {"none", "interim_gone"}
           /\ Unpaired(R) = "none" => \A r \in R : pair[r] # "none"
<1>1. ASSUME NEW r \in R, pair[r] = "none" PROVE st[r] = "headers"
  <2>1. ReqInv(r)  BY Basics DEF Held, PipeInv
  <2> QED  BY <1>1, <2>1 DEF ReqInv, InRet
<1> QED  BY <1>1 DEF Unpaired, Held

\* The assertion that fails when the next request of the list has no response.
LEMMA SendBugFails ==
    ASSUME Held, SendBug
    PROVE  bug' = "interim_gone"
<1>1. ret_queue # <<>> /\ ret_queue \in Seq(Reqs) /\ Increasing(ret_queue)
  BY Basics DEF SendBug, Held, PipeInv, OrderInv
<1>2. ret_queue[1] \in Elems(ret_queue)  BY ONLY <1>1, TailElems
<1>3. pair[ret_queue[1]] = "none" /\ bug' = Unpaired({ret_queue[1]})  BY DEF SendBug
<1> QED  BY <1>2, <1>3, BareRequests

\* A response cannot be sent: the list is zapped, requests in receipt go on.
LEMMA SendFailedKeeps ==
    ASSUME Held, SendFailed, bug' = "none"
    PROVE  PipeInv'
<1> USE Basics
<1> DEFINE T == Elems(ret_queue)
           gone == {r \in T : pair[r] # "continue"}
<1>1. /\ ret_queue' = <<>> /\ sender # 0
      /\ st' = [r \in Reqs |-> IF r \in gone THEN "done" ELSE st[r]]
      /\ pair' = [r \in Reqs |-> IF r \in T THEN "none" ELSE pair[r]]
      /\ ready' = ready \ gone /\ contq' = contq \ gone
      /\ UNCHANGED <<seq_queue, drop, next, rx, stop, sender, sock, wire>>
  BY DEF SendFailed, rxvars, txvars
<1>2. Elems(ret_queue') = {} /\ Increasing(ret_queue')
  BY <1>1 DEF Elems, Increasing
<1>3. /\ Before(T, Elems(seq_queue)) /\ Increasing(seq_queue)
  BY DEF Held, PipeInv, OrderInv
<1>4. \A x \in T : x \notin Elems(seq_queue)  BY <1>3 DEF Before, Reqs
<1>5. ASSUME NEW q \in Reqs PROVE ReqInv(q)'
  <2>1. ReqInv(q)  BY DEF Held, PipeInv
  <2>2. CASE q \in T
    BY <2>1, <2>2, <1>1, <1>2, <1>4 DEF ReqInv, Received, InSeq, InRet, IsReady, Answerable
  <2>3. CASE q \notin T
    BY <2>1, <2>3, <1>1, <1>2, <1>4 DEF ReqInv, Received, InSeq, InRet, IsReady, Answerable
  <2> QED  BY <2>2, <2>3
<1>6. RxInv'
  <2>1. CASE rx = "idle"  BY <2>1, <1>1 DEF RxInv
  <2>2. CASE rx # "idle"
    <3>1. next \in Reqs  BY <2>2 DEF Held, PipeInv, RxInv
    <3>2. ReqInv(next)  BY <3>1 DEF Held, PipeInv
    <3>0. \A x \in T : pair[x] # "none"  BY BareRequests DEF SendFailed
    <3>3. next \notin gone  BY <2>2, <3>0, <3>1, <3>2 DEF ReqInv, InRet, Held, PipeInv, RxInv
    <3>4. rx = "continue" => next \notin T
      BY <2>2, <3>1, <3>2
         DEF ReqInv, InRet, Held, PipeInv, RxInv
    <3> QED  BY <3>1, <3>3, <3>4, <1>1 DEF Held, PipeInv, RxInv
  <2> QED  BY <2>1, <2>2
<1>7. ConnInv'  BY <1>1, <1>2 DEF Held, PipeInv, ConnInv
<1>8. OrderInv'
  <2>1. FinalsIncrease(ring') /\ Answered(ring') = Answered(ring)
    BY CloseWorks DEF SendFailed
  <2>2. Before(Elems(ret_queue'), Elems(seq_queue'))  BY <1>2 DEF Before
  <2> QED  BY <1>1, <1>2, <1>3, <2>1, <2>2, OrderKept
<1> QED  BY <1>5, <1>6, <1>7, <1>8 DEF PipeInv

\* ret_qlock is released.
LEMMA SendEndKeeps ==
    ASSUME Held, SendEnd
    PROVE  PipeInv'
<1> USE Basics
<1>1. /\ Elems(ret_queue) = {}
      /\ UNCHANGED <<reqvars, rxvars, ret_queue, sock, ring, wire>>
  BY DEF SendEnd, wqvars, txvars
<1>2. ASSUME NEW q \in Reqs PROVE ReqInv(q)'
  <2>1. ReqInv(q)  BY DEF Held, PipeInv
  <2> QED
    BY <2>1, <1>1
       DEF ReqInv, Received, InSeq, InRet, IsReady, Answerable, reqvars, rxvars
<1>3. RxInv'  BY <1>1 DEF RxInv, Held, PipeInv, reqvars, rxvars
<1>4. ConnInv'  BY <1>1 DEF ConnInv, Held, PipeInv, reqvars
<1>5. OrderInv'
  <2>1. FinalsIncrease(ring)  BY DEF Held, PipeInv, OrderInv
  <2> QED  BY <1>1, <2>1, OrderSame DEF reqvars, rxvars
<1> QED  BY <1>2, <1>3, <1>4, <1>5 DEF PipeInv

\* No response can be built: the request is still in the list while the connection is closed.
LEMMA RespBuildErrorKeeps ==
    ASSUME Held, NEW r \in Reqs, RespBuildError(r)
    PROVE  PipeInv'
<1> USE Basics
<1>1. /\ st[r] = "work" /\ st' = [st EXCEPT ![r] = "clean"]
      /\ UNCHANGED <<seq_queue, ready, contq, pair, drop, rxvars, retvars, sock, wire>>
  BY DEF RespBuildError, txvars
<1>2. ASSUME NEW q \in Reqs PROVE ReqInv(q)'
  <2>1. ReqInv(q)  BY DEF Held, PipeInv
  <2> QED
    BY <2>1, <1>1
       DEF ReqInv, Received, InSeq, InRet, IsReady, Answerable, retvars, rxvars
<1>3. RxInv'  BY <1>1 DEF RxInv, Held, PipeInv, rxvars
<1>4. ConnInv'  BY <1>1 DEF ConnInv, Held, PipeInv, retvars
<1>5. OrderInv'
  <2>1. FinalsIncrease(ring') /\ Answered(ring') = Answered(ring)
    BY CloseWorks DEF RespBuildError
  <2> QED  BY <1>1, <2>1, OrderSame DEF retvars, rxvars
<1> QED  BY <1>2, <1>3, <1>4, <1>5 DEF PipeInv

\* The request without a response leaves the list.
LEMMA ReqCleanKeeps ==
    ASSUME Held, NEW r \in Reqs, ReqClean(r)
    PROVE  PipeInv'
<1> USE Basics
<1>1. /\ st[r] = "clean"
      /\ st' = [q \in Reqs |-> IF q \in {r} THEN "done" ELSE st[q]]
      /\ pair' = [q \in Reqs |-> IF q \in {r} THEN "none" ELSE pair[q]]
      /\ ready' = ready \ {r} /\ contq' = contq \ {r} /\ drop' = drop \ {r}
      /\ UNCHANGED <<rxvars, retvars, sock, ring, wire>>
  BY DEF ReqClean, Freed, wqvars, txvars
<1>2. /\ seq_queue' \in Seq(Reqs) /\ Elems(seq_queue') = Elems(seq_queue) \ {r}
      /\ Increasing(seq_queue')
  BY WithoutElems DEF ReqClean, Held, PipeInv, OrderInv
<1>3. ReqInv(r)  BY DEF Held, PipeInv
<1>4. ASSUME NEW q \in Reqs PROVE ReqInv(q)'
  <2>1. ReqInv(q)  BY DEF Held, PipeInv
  <2> QED
    BY <2>1, <1>1, <1>2, <1>3
       DEF ReqInv, Received, InSeq, InRet, IsReady, Answerable, retvars, rxvars
<1>5. RxInv'
  <2>1. rx # "idle" => r # next  BY <1>1 DEF Held, PipeInv, RxInv
  <2> QED  BY <2>1, <1>1 DEF Held, PipeInv, RxInv, rxvars
<1>6. ConnInv'  BY <1>1, <1>2 DEF ConnInv, Held, PipeInv, retvars
<1>7. OrderInv'
  <2>1. /\ FinalsIncrease(ring) /\ Increasing(ret_queue)
        /\ Before(Elems(ret_queue), Elems(seq_queue))
    BY DEF Held, PipeInv, OrderInv
  <2>2. Before(Elems(ret_queue), Elems(seq_queue'))  BY <2>1, <1>2 DEF Before
  <2> QED  BY <1>1, <1>2, <2>1, <2>2, OrderKept DEF retvars, rxvars
<1> QED  BY <1>4, <1>5, <1>6, <1>7 DEF PipeInv

-----------------------------------------------------------------------------
(* Steps of the socket. *)

\* The connection is dropped between two handlers.
LEMMA ConnDropKeeps ==
    ASSUME Held, ConnDrop, bug' = "none", rx = "idle",
           UNCHANGED <<rx, next, stop, retvars, wire>>,
           FinalsIncrease(ring'), Answered(ring') \subseteq Answered(ring)
    PROVE  PipeInv'
<1> USE Basics
<1> DEFINE half == {r \in Reqs : st[r] \in Partial}
           gone == half \cup (Elems(seq_queue) \cap ready)
<1>1. /\ sock' = "dropped" /\ seq_queue' = <<>>
      /\ st' = [r \in Reqs |-> IF r \in gone THEN "done" ELSE st[r]]
      /\ pair' = [r \in Reqs |-> IF r \in gone THEN "none" ELSE pair[r]]
      /\ ready' = ready \ gone /\ contq' = contq \ gone
      /\ drop' = drop \cup (Elems(seq_queue) \ gone)
      /\ half \cap Elems(ret_queue) = {}
  BY DEF ConnDrop
<1>2. Elems(seq_queue') = {} /\ Increasing(seq_queue')
  BY <1>1 DEF Elems, Increasing
<1>3. /\ Before(Elems(ret_queue), Elems(seq_queue)) /\ Increasing(ret_queue)
      /\ Before(Answered(wire), Answered(ring))
      /\ Before(Answered(wire) \cup Answered(ring),
                Elems(ret_queue) \cup Elems(seq_queue) \cup {next})
  BY DEF Held, PipeInv, OrderInv
<1>4. \A x \in Elems(ret_queue) : x \notin Elems(seq_queue)  BY <1>3 DEF Before, Reqs
<1>5. ASSUME NEW q \in Reqs PROVE ReqInv(q)'
  <2>1. ReqInv(q)  BY DEF Held, PipeInv
  <2>2. CASE q \in gone
    <3>1. st[q] \in Partial \/ (q \in Elems(seq_queue) /\ q \in ready)  BY <2>2
    <3>2. st'[q] = "done" /\ q \notin ready' /\ q \notin Elems(ret_queue')
      BY <2>2, <1>1, <1>4 DEF retvars
    <3>3. st[q] # "new"  BY <2>1, <3>1 DEF ReqInv, InSeq, Partial
    <3> QED
      BY <2>1, <3>2, <3>3, <1>2
         DEF ReqInv, Received, InSeq, InRet, IsReady, Answerable
  <2>3. CASE q \notin gone
    <3>1. /\ st'[q] = st[q] /\ pair'[q] = pair[q]
          /\ (q \in ready' <=> q \in ready) /\ st[q] \notin Partial
          /\ q \in Elems(seq_queue) => q \in drop'
      BY <2>3, <1>1
    <3>2. drop \subseteq drop'  BY <1>1
    <3> QED
      BY <2>1, <3>1, <3>2, <1>2
         DEF ReqInv, Received, InSeq, InRet, IsReady, Answerable, Partial, retvars
  <2> QED  BY <2>2, <2>3
<1>6. RxInv'  BY DEF RxInv
<1>7. ConnInv'  BY <1>1, <1>2 DEF Held, PipeInv, ConnInv, retvars
<1>8. OrderInv'
  BY <1>2, <1>3 DEF OrderInv, Before, retvars
<1> QED  BY <1>5, <1>6, <1>7, <1>8 DEF PipeInv

\* The client closes or resets the connection.
LEMMA PeerClosedKeeps ==
    ASSUME Held, PeerClosed, bug' = "none"
    PROVE  PipeInv'
<1>1. /\ rx = "idle" /\ ConnDrop
      /\ UNCHANGED <<rx, next, stop, retvars, wire, ring>>
  BY DEF PeerClosed, rxvars, wqvars, txvars
<1>2. FinalsIncrease(ring') /\ Answered(ring') \subseteq Answered(ring)
  BY <1>1 DEF Held, PipeInv, OrderInv
<1> QED  BY <1>1, <1>2, ConnDropKeeps

\* FIN of the client: only the queue of works changes.
LEMMA PeerFinKeeps ==
    ASSUME Held, PeerFin
    PROVE  PipeInv'
<1>1. UNCHANGED <<reqvars, next, rx, stop, retvars, sock, wire>>
  BY DEF PeerFin, txvars
<1>2. ASSUME NEW q \in Reqs PROVE ReqInv(q)'
  <2>1. ReqInv(q)  BY DEF Held, PipeInv
  <2> QED
    BY <2>1, <1>1
       DEF ReqInv, Received, InSeq, InRet, IsReady, Answerable, retvars, reqvars
<1>3. RxInv'  BY <1>1 DEF RxInv, Held, PipeInv, reqvars
<1>4. ConnInv'  BY <1>1 DEF ConnInv, Held, PipeInv, retvars, reqvars
<1>5. OrderInv'
  <2>1. FinalsIncrease(ring') /\ Answered(ring') = Answered(ring)
    BY CloseWorks DEF PeerFin
  <2> QED  BY <1>1, <2>1, OrderSame, Basics DEF retvars, reqvars
<1> QED  BY <1>2, <1>3, <1>4, <1>5 DEF PipeInv

\* A softirq begins or ends.
LEMMA IdleKeeps ==
    ASSUME Held, UNCHANGED <<reqvars, rxvars, retvars, sock, wqvars, wire>>
    PROVE  PipeInv'
<1>1. ASSUME NEW q \in Reqs PROVE ReqInv(q)'
  <2>1. ReqInv(q)  BY DEF Held, PipeInv
  <2> QED
    BY <2>1
       DEF ReqInv, Received, InSeq, InRet, IsReady, Answerable, retvars, reqvars, rxvars
<1>2. RxInv'  BY DEF RxInv, Held, PipeInv, reqvars, rxvars
<1>3. ConnInv'  BY DEF ConnInv, Held, PipeInv, retvars, reqvars
<1>4. OrderInv'  BY DEF OrderInv, Held, PipeInv, retvars, reqvars, rxvars, wqvars
<1> QED  BY <1>1, <1>2, <1>3, <1>4 DEF PipeInv

\* Executing a work that was taken off the ring or of the backlog: what was
\* answered in the ring is answered on the wire, or nowhere any more.
LEMMA ExecKeeps ==
    ASSUME Held, NEW w \in AllWorks, Exec(w), bug' = "none", rx = "idle",
           FinalsIncrease(wire),
           UNCHANGED <<rxvars, retvars>>, ring' \in Seq(AllWorks),
           FinalsIncrease(ring'), Answered(ring) = FinalOf(w) \cup Answered(ring'),
           Before(FinalOf(w), Answered(ring'))
    PROVE  PipeInv' /\ FinalsIncrease(wire')
<1> USE Basics
<1>1. /\ Increasing(seq_queue) /\ Increasing(ret_queue)
      /\ Before(Elems(ret_queue), Elems(seq_queue)) /\ Before(Answered(wire), Answered(ring))
      /\ Before(Answered(wire) \cup Answered(ring),
                Elems(ret_queue) \cup Elems(seq_queue) \cup {next})
  BY DEF Held, PipeInv, OrderInv
<1>2. CASE sock = "open" /\ w.kind = "close" /\ ConnDrop
  <2>1. wire' = wire  BY <1>2 DEF Exec
  <2>2. PipeInv'  BY <1>2, <2>1, ConnDropKeeps DEF rxvars
  <2> QED  BY <2>1, <2>2
<1>3. CASE ~(sock = "open" /\ w.kind = "close" /\ ConnDrop)
  <2>1. UNCHANGED reqvars  BY <1>3 DEF Exec
  <2>2. sock' = sock \/ sock' \in {"shut", "closing"}  BY <1>3 DEF Exec
  <2>3. ASSUME NEW q \in Reqs PROVE ReqInv(q)'
    <3>1. ReqInv(q)  BY DEF Held, PipeInv
    <3> QED
      BY <3>1, <2>1
         DEF ReqInv, Received, InSeq, InRet, IsReady, Answerable, retvars, reqvars, rxvars
  <2>4. RxInv'  BY DEF RxInv, rxvars
  <2>5. ConnInv'
    <3>1. drop # {} => sock' = "dropped"
      BY <1>3, <2>2 DEF ConnInv, Held, PipeInv, Exec
    <3> QED  BY <2>1, <2>2, <3>1 DEF ConnInv, Held, PipeInv, retvars, reqvars
  <2>6. wire' = wire \/ wire' = Append(wire, w)  BY <1>3 DEF Exec
  <2>7. Before(Answered(wire), FinalOf(w))  BY <1>1 DEF Before
  <2>8. Answered(wire') \subseteq Answered(wire) \cup FinalOf(w) /\ FinalsIncrease(wire')
    BY <2>6, <2>7, AppendWork
  <2>9. Answered(wire') \cup Answered(ring') \subseteq Answered(wire) \cup Answered(ring)
    BY <2>8
  <2>10. Before(Answered(wire'), Answered(ring'))
    BY <2>8, <1>1 DEF Before
  <2>11. OrderInv'
    BY <2>1, <2>9, <2>10, <1>1 DEF OrderInv, Before, retvars, reqvars, rxvars
  <2> QED  BY <2>3, <2>4, <2>5, <2>8, <2>11 DEF PipeInv
<1> QED  BY <1>2, <1>3

\* A work of the ring is executed.
LEMMA TxRingKeeps ==
    ASSUME Held, TxRing, bug' = "none", FinalsIncrease(wire)
    PROVE  PipeInv' /\ FinalsIncrease(wire')
<1>1. /\ ring \in Seq(AllWorks) /\ ring # <<>> /\ rx = "idle" /\ Exec(Head(ring))
      /\ ring' = Tail(ring) /\ UNCHANGED <<rxvars, retvars>> /\ FinalsIncrease(ring)
  BY Basics DEF TxRing, Held, PipeInv, OrderInv
<1>2. /\ Head(ring) \in AllWorks /\ ring' \in Seq(AllWorks)
      /\ Answered(ring) = FinalOf(Head(ring)) \cup Answered(ring')
      /\ FinalsIncrease(ring') /\ Before(FinalOf(Head(ring)), Answered(ring'))
  BY ONLY <1>1, TailWork
<1> QED  BY <1>1, <1>2, ExecKeeps

\* A close of the backlog is executed.
LEMMA TxBacklogKeeps ==
    ASSUME Held, TxBacklog, bug' = "none", FinalsIncrease(wire)
    PROVE  PipeInv' /\ FinalsIncrease(wire')
<1>1. /\ ring \in Seq(AllWorks) /\ rx = "idle" /\ Exec(CloseWork)
      /\ ring' = ring /\ UNCHANGED <<rxvars, retvars>> /\ FinalsIncrease(ring)
  BY Basics DEF TxBacklog, Held, PipeInv, OrderInv
<1>2. CloseWork \in AllWorks /\ FinalOf(CloseWork) = {}
  BY DEF AllWorks, FinalOf, CloseWork
<1>3. Before(FinalOf(CloseWork), Answered(ring'))  BY <1>2 DEF Before
<1> QED  BY <1>1, <1>2, <1>3, ExecKeeps

-----------------------------------------------------------------------------
(* Types. *)

\* ss_close() keeps the types of the work queue, and the ring within its size.
LEMMA CloseTypes ==
    ASSUME TypeOK, Close
    PROVE  /\ ring' \in Seq(AllWorks) /\ Len(ring') <= QSize
           /\ tail' \in Nat /\ backlog' \in Seq(Nat) /\ turn' \in Nat
<1>1. ring \in Seq(AllWorks) /\ Len(ring) \in Nat /\ Len(ring) <= QSize /\ tail \in Nat
      /\ backlog \in Seq(Nat) /\ turn \in Nat /\ QSize \in Nat
  BY SizeAssumption DEF TypeOK, AllWorks
<1>2. CloseWork \in AllWorks  BY DEF AllWorks
<1> QED  BY <1>1, <1>2 DEF Close

\* Freeing requests keeps the types of what is known of them.
LEMMA FreedTypes ==
    ASSUME TypeOK, NEW R, Freed(R)
    PROVE  /\ st' \in [Reqs -> ReqStates] /\ pair' \in [Reqs -> {"none", "continue", "final"}]
           /\ ready' \subseteq Reqs /\ contq' \subseteq Expect /\ drop' \subseteq Reqs
           /\ connclose' \subseteq Reqs
BY DEF TypeOK, Freed, ReqStates

\* Dropping the connection keeps types.
LEMMA ConnDropTypes ==
    ASSUME TypeOK, ConnDrop
    PROVE  /\ st' \in [Reqs -> ReqStates] /\ pair' \in [Reqs -> {"none", "continue", "final"}]
           /\ ready' \subseteq Reqs /\ contq' \subseteq Expect /\ drop' \subseteq Reqs
           /\ connclose' \subseteq Reqs /\ seq_queue' \in Seq(Reqs)
           /\ sock' \in Socks /\ bug' \in Asserts
<1>1. Elems(seq_queue) \subseteq Reqs  BY ElemsReqs DEF TypeOK
<1>2. drop' \subseteq Reqs /\ connclose' \subseteq Reqs /\ ready' \subseteq Reqs
      /\ contq' \subseteq Expect
  BY <1>1 DEF TypeOK, ConnDrop
<1>3. st' \in [Reqs -> ReqStates] /\ pair' \in [Reqs -> {"none", "continue", "final"}]
  BY DEF TypeOK, ConnDrop, ReqStates
<1> QED  BY <1>2, <1>3 DEF TypeOK, ConnDrop, Socks, Asserts

\* A response that is accepted by ss_send() is one work more.
LEMMA SendTypes ==
    ASSUME TypeOK, NEW r \in Reqs, pair[r] \in {"final", "continue"}, MaySend, Send(r)
    PROVE  /\ ring' \in Seq(AllWorks) /\ Len(ring') <= QSize
           /\ tail' \in Nat /\ backlog' \in Seq(Nat) /\ turn' \in Nat
<1> DEFINE w == [r |-> r, kind |-> pair[r], last |-> pair[r] = "final" /\ r \in connclose]
<1>1. w \in AllWorks  BY DEF AllWorks, SendWorks
<1>2. ring \in Seq(AllWorks) /\ Len(ring) < QSize /\ QSize \in Nat /\ ring' = Append(ring, w)
  BY SizeAssumption DEF TypeOK, AllWorks, MaySend, Send
<1> HIDE DEF w
<1>3. ring' \in Seq(AllWorks) /\ Len(ring') <= QSize  BY <1>1, <1>2
<1> QED  BY <1>3 DEF Send, TypeOK

\* Queueing the request in receipt keeps types.
LEMMA EnqueueTypes ==
    ASSUME TypeOK, NEW close \in BOOLEAN, next \in Reqs, Enqueue(next, close)
    PROVE  /\ seq_queue' \in Seq(Reqs) /\ st' \in [Reqs -> ReqStates]
           /\ connclose' \subseteq Reqs /\ stop' \in BOOLEAN /\ next' \in 1..(NReqs + 1)
<1>1. next' \in 1..(NReqs + 1)  BY ReqsAssumption DEF Enqueue, Reqs
<1>2. seq_queue' \in Seq(Reqs)  BY DEF Enqueue, TypeOK
<1>3. st' \in [Reqs -> ReqStates]  BY DEF Enqueue, TypeOK, ReqStates
<1>4. connclose' \subseteq Reqs  BY DEF Enqueue, TypeOK
<1>5. stop' \in BOOLEAN  BY DEF Enqueue, TypeOK
<1> QED  BY <1>1, <1>2, <1>3, <1>4, <1>5

\* Steps of the receiving side.
LEMMA RxTypes ==
    ASSUME Held, Rx \/ RxGoesOn
    PROVE  TypeOK'
<1> USE DEF Held, reqvars, rxvars, retvars, wqvars, txvars, AllWorks
<1>n. rx # "idle" => next \in Reqs /\ (rx = "continue" => pair[next] = "continue")
  BY DEF PipeInv, RxInv
<1>1. ASSUME NEW close \in BOOLEAN, Recv(close) PROVE TypeOK'
  <2>1. next \in Reqs  BY <1>1 DEF Recv, Receiving
  <2>2. Enqueue(next, close)  BY <1>1 DEF Recv
  <2> QED  BY <1>1, <2>1, <2>2, EnqueueTypes DEF Recv, TypeOK
<1>2. ASSUME RecvBlock PROVE TypeOK'
  <2>1. next \in Reqs  BY <1>2, <1>n DEF RecvBlock, Receiving
  <2>2. seq_queue' \in Seq(Reqs) /\ ret_queue' \in Seq(Reqs)
    BY <1>2, <2>1, WithoutElems, Basics DEF RecvBlock, PipeInv, OrderInv
  <2>3. next' \in 1..(NReqs + 1)  BY <1>2, <2>1, ReqsAssumption DEF RecvBlock, Reqs
  <2>4. Freed({next}) /\ Close  BY <1>2 DEF RecvBlock
  <2>5. stop' \in BOOLEAN /\ rx' \in RxPoints /\ bug' \in Asserts
    BY <1>2 DEF RecvBlock, RxPoints, Asserts, TypeOK
  <2> QED  BY <1>2, <2>2, <2>3, <2>4, <2>5, CloseTypes, FreedTypes DEF RecvBlock, TypeOK
<1>3. ASSUME RecvHeaders PROVE TypeOK'
  <2>1. next \in Reqs /\ next \in Expect  BY <1>3 DEF RecvHeaders, Receiving
  <2>2. rx' \in RxPoints /\ seq_queue' \in Seq(Reqs) /\ ready' \subseteq Reqs
        /\ contq' \subseteq Expect
    <3>1. \/ rx' = "continue" /\ UNCHANGED <<seq_queue, ready, contq>>
          \/ /\ seq_queue' = Append(seq_queue, next) /\ rx' = rx
             /\ ready' = ready \cup {next} /\ contq' = contq \cup {next}
      BY <1>3 DEF RecvHeaders
    <3>2. rx \in RxPoints /\ seq_queue \in Seq(Reqs) /\ ready \subseteq Reqs
          /\ contq \subseteq Expect
      BY DEF TypeOK
    <3> QED  BY ONLY <2>1, <3>1, <3>2 DEF RxPoints
  <2>3. st' \in [Reqs -> ReqStates] /\ pair' \in [Reqs -> {"none", "continue", "final"}]
    BY <1>3, <2>1 DEF RecvHeaders, TypeOK, ReqStates
  <2> QED  BY <1>3, <2>2, <2>3 DEF RecvHeaders, TypeOK
<1>4. ASSUME RecvBody PROVE TypeOK'
  <2>1. next \in Reqs  BY <1>4 DEF RecvBody, Receiving
  <2>2. seq_queue' \in Seq(Reqs)
    BY <1>4, <2>1, WithoutElems, Basics DEF RecvBody, PipeInv, OrderInv
  <2>3. st' \in [Reqs -> ReqStates] /\ pair' \in [Reqs -> {"none", "continue", "final"}]
    BY <1>4, <2>1 DEF RecvBody, TypeOK, ReqStates
  <2>4. rx' \in RxPoints  BY <1>4 DEF RecvBody, RxPoints
  <2> QED  BY <1>4, <2>2, <2>3, <2>4 DEF RecvBody, TypeOK
<1>5. ASSUME RecvBad PROVE TypeOK'
  <2>1. pair' \in [Reqs -> {"none", "continue", "final"}] /\ rx' \in RxPoints
    BY <1>5 DEF RecvBad, TypeOK, RxPoints
  <2> QED  BY <1>5, <2>1 DEF RecvBad, TypeOK
<1>11. ASSUME RecvBadQueue PROVE TypeOK'
  <2>1. next \in Reqs /\ Enqueue(next, TRUE) /\ rx' \in RxPoints
    BY <1>11, <1>n DEF RecvBadQueue, RxPoints
  <2>2. bug' \in Asserts  BY <1>11 DEF RecvBadQueue, TypeOK, Asserts
  <2> QED  BY <1>11, <2>1, <2>2, EnqueueTypes DEF RecvBadQueue, TypeOK
<1>6. ASSUME PeerFin PROVE TypeOK'
  BY <1>6, CloseTypes DEF PeerFin, TypeOK
<1>7. ASSUME PeerClosed PROVE TypeOK'
  BY <1>7, ConnDropTypes DEF PeerClosed, TypeOK
<1>8. ASSUME SendContinue PROVE TypeOK'
  <2>1. next \in Reqs /\ pair[next] = "continue"  BY <1>8, <1>n DEF SendContinue
  <2>2. /\ ring' \in Seq(AllWorks) /\ Len(ring') <= QSize
        /\ tail' \in Nat /\ backlog' \in Seq(Nat) /\ turn' \in Nat
    BY <1>8, <2>1, SendTypes, CloseTypes DEF SendContinue
  <2>3. pair' \in [Reqs -> {"none", "continue", "final"}] /\ stop' \in BOOLEAN
        /\ rx' \in RxPoints
    BY <1>8, <2>1 DEF SendContinue, TypeOK, RxPoints
  <2> QED  BY <1>8, <2>2, <2>3 DEF SendContinue, TypeOK
<1>9. ASSUME Deleted PROVE TypeOK'
  BY <1>9 DEF Deleted, TypeOK, RxPoints
<1>10. ASSUME NEW close \in BOOLEAN, RecvEnd(close) PROVE TypeOK'
  <2>1. next \in Reqs /\ Enqueue(next, close) /\ rx' \in RxPoints
    BY <1>10, <1>n DEF RecvEnd, RxPoints
  <2> QED  BY <1>10, <2>1, EnqueueTypes DEF RecvEnd, TypeOK
<1> QED
  BY <1>1, <1>2, <1>3, <1>4, <1>5, <1>6, <1>7, <1>8, <1>9, <1>10, <1>11 DEF Rx, RxGoesOn

\* Steps of those who answer.
LEMMA RespTypes ==
    ASSUME Held, (\E r \in Reqs : Resp(r)) \/ Sender
    PROVE  TypeOK'
<1> USE DEF Held, reqvars, rxvars, retvars, wqvars, txvars, AllWorks
<1>1. ASSUME NEW r \in Reqs, RespDropped(r) PROVE TypeOK'
  BY <1>1, FreedTypes DEF RespDropped, TypeOK
<1>2. ASSUME NEW r \in Reqs, RespNoClient(r) PROVE TypeOK'
  <2>1. bug' \in Asserts  BY <1>2 DEF RespNoClient, Asserts, TypeOK
  <2> QED  BY <1>2, <2>1, FreedTypes, CloseTypes DEF RespNoClient, TypeOK
<1>3. ASSUME NEW r \in Reqs, RespBuildError(r) PROVE TypeOK'
  <2>1. st' \in [Reqs -> ReqStates]  BY <1>3 DEF RespBuildError, TypeOK, ReqStates
  <2> QED  BY <1>3, <2>1, CloseTypes DEF RespBuildError, TypeOK
<1>4. ASSUME NEW r \in Reqs, ReqClean(r) PROVE TypeOK'
  <2>1. seq_queue' \in Seq(Reqs)
    BY <1>4, WithoutElems, Basics DEF ReqClean, PipeInv, OrderInv
  <2> QED  BY <1>4, <2>1, FreedTypes DEF ReqClean, TypeOK
<1>5. ASSUME NEW r \in Reqs, NEW close \in BOOLEAN, RespFwd(r, close) PROVE TypeOK'
  <2> DEFINE cut == ReadyPart(seq_queue, ready \cup {r})
  <2>1. cut \in Seq(Reqs) /\ SubSeq(seq_queue, Len(cut) + 1, Len(seq_queue)) \in Seq(Reqs)
    <3>1. seq_queue \in Seq(Reqs) /\ Increasing(seq_queue)
      BY Basics DEF PipeInv, OrderInv
    <3> QED  BY ONLY <3>1, CutElems
  <2> HIDE DEF cut
  <2>2. seq_queue' \in Seq(Reqs) /\ ret_queue' \in Seq(Reqs) /\ sender' \in 0..NReqs
        /\ bug' \in Asserts
    <3>1. \/ /\ seq_queue' = SubSeq(seq_queue, Len(cut) + 1, Len(seq_queue))
             /\ ret_queue' \in {ret_queue, cut} /\ sender' \in {sender, r} /\ bug' = bug
          \/ bug' = "seq_list" /\ UNCHANGED <<seq_queue, ret_queue, sender>>
      BY <1>5 DEF RespFwd, cut
    <3>2. r \in 0..NReqs  BY ReqsAssumption DEF Reqs
    <3>3. seq_queue \in Seq(Reqs) /\ ret_queue \in Seq(Reqs) /\ sender \in 0..NReqs
          /\ bug \in Asserts
      BY DEF TypeOK
    <3> QED  BY ONLY <2>1, <3>1, <3>2, <3>3 DEF Asserts
  <2>3. st' \in [Reqs -> ReqStates] /\ pair' \in [Reqs -> {"none", "continue", "final"}]
    BY <1>5 DEF RespFwd, TypeOK, ReqStates
  <2>4. ready' \subseteq Reqs /\ connclose' \subseteq Reqs /\ stop' \in BOOLEAN
    BY <1>5 DEF RespFwd, TypeOK
  <2> QED  BY <1>5, <2>2, <2>3, <2>4 DEF RespFwd, TypeOK
<1>6. ASSUME SendNext PROVE TypeOK'
  <2> DEFINE r == ret_queue[1]
  <2>1. ret_queue # <<>> /\ ret_queue \in Seq(Reqs) /\ Increasing(ret_queue)
    BY <1>6, Basics DEF SendNext, PipeInv, OrderInv
  <2>2. r \in Reqs /\ r \in Elems(ret_queue) /\ Tail(ret_queue) \in Seq(Reqs)
    BY ONLY <2>1, TailElems
  <2>3. pair[r] \in {"final", "continue"}  BY <1>6, <2>2 DEF SendNext, TypeOK
  <2>4. /\ MaySend /\ Send(r) /\ ret_queue' = Tail(ret_queue)
        /\ \/ pair' = [pair EXCEPT ![r] = "none"] /\ UNCHANGED <<st, ready, contq, drop, connclose>>
           \/ Freed({r})
        /\ UNCHANGED <<seq_queue, rxvars, sender, sock, txvars>>
    BY <1>6 DEF SendNext
  <2>5. bug' \in Asserts  BY <1>6 DEF SendNext, TypeOK, Asserts
  <2> HIDE DEF r
  <2>6. /\ st' \in [Reqs -> ReqStates] /\ pair' \in [Reqs -> {"none", "continue", "final"}]
        /\ ready' \subseteq Reqs /\ contq' \subseteq Expect /\ drop' \subseteq Reqs
        /\ connclose' \subseteq Reqs
    BY <2>2, <2>4, FreedTypes DEF TypeOK
  <2> QED  BY <2>2, <2>3, <2>4, <2>5, <2>6, SendTypes DEF TypeOK
<1>7. ASSUME SendFailed PROVE TypeOK'
  <2>1. st' \in [Reqs -> ReqStates] /\ pair' \in [Reqs -> {"none", "continue", "final"}]
    BY <1>7 DEF SendFailed, TypeOK, ReqStates
  <2>2. ret_queue' \in Seq(Reqs) /\ ready' \subseteq Reqs /\ contq' \subseteq Expect
        /\ connclose' \subseteq Reqs
    BY <1>7 DEF SendFailed, TypeOK
  <2>3. bug' \in Asserts  BY <1>7, BareRequests DEF SendFailed, Asserts
  <2> QED  BY <1>7, <2>1, <2>2, <2>3, CloseTypes DEF SendFailed, TypeOK
<1>8. ASSUME SendEnd PROVE TypeOK'
  BY <1>8, ReqsAssumption DEF SendEnd, TypeOK
<1>9. ASSUME SendBug PROVE TypeOK'
  <2>1. bug' \in Asserts  BY <1>9, SendBugFails DEF Asserts
  <2> QED  BY <1>9, <2>1 DEF SendBug, TypeOK
<1> QED  BY <1>1, <1>2, <1>3, <1>4, <1>5, <1>6, <1>7, <1>8, <1>9 DEF Resp, Sender

\* Steps of the socket.
LEMMA TxTypes ==
    ASSUME Held, Tx
    PROVE  TypeOK'
<1> USE DEF Held, reqvars, rxvars, retvars, wqvars, txvars, AllWorks
<1>1. ASSUME NEW w \in AllWorks, Exec(w)
      PROVE  /\ st' \in [Reqs -> ReqStates] /\ pair' \in [Reqs -> {"none", "continue", "final"}]
             /\ ready' \subseteq Reqs /\ contq' \subseteq Expect /\ drop' \subseteq Reqs
             /\ connclose' \subseteq Reqs /\ seq_queue' \in Seq(Reqs)
             /\ sock' \in Socks /\ bug' \in Asserts /\ wire' \in Seq(SendWorks)
  <2>1. CASE ConnDrop /\ UNCHANGED wire  BY <2>1, ConnDropTypes DEF TypeOK
  <2>2. CASE UNCHANGED <<reqvars, bug, wire>> /\ sock' \in Socks  BY <2>2 DEF TypeOK
  <2>3. CASE w.kind # "close" /\ wire' = Append(wire, w) /\ UNCHANGED <<reqvars, bug>>
             /\ sock' \in Socks
    <3>1. w \in SendWorks  BY <2>3 DEF CloseWork
    <3> QED  BY <2>3, <3>1 DEF TypeOK
  <2>4. sock \in Socks  BY DEF TypeOK
  <2> QED  BY <1>1, <2>1, <2>2, <2>3, <2>4 DEF Exec, Socks
<1>2. ASSUME TxStart PROVE TypeOK'
  <2>1. budget' \in Int /\ ticket' \in Nat  BY <1>2, SizeAssumption DEF TxStart, TypeOK
  <2> QED  BY <1>2, <2>1 DEF TxStart, TypeOK
<1>3. ASSUME TxRing PROVE TypeOK'
  <2>1. ring \in Seq(AllWorks) /\ ring # <<>> /\ Len(ring) <= QSize /\ QSize \in Nat
    BY <1>3, SizeAssumption DEF TxRing, TypeOK
  <2>2. Head(ring) \in AllWorks /\ Tail(ring) \in Seq(AllWorks) /\ Len(Tail(ring)) <= QSize
    BY <2>1
  <2>3. /\ Exec(Head(ring)) /\ ring' = Tail(ring)
        /\ UNCHANGED <<rxvars, retvars, backlog, turn>>
    BY <1>3 DEF TxRing
  <2>4. tail' \in Nat /\ ticket' \in Nat /\ budget' \in Int  BY <1>3 DEF TxRing, TypeOK
  <2> QED  BY <1>1, <2>2, <2>3, <2>4 DEF TypeOK
<1>4. ASSUME TxBacklog PROVE TypeOK'
  <2>1. CloseWork \in AllWorks /\ Exec(CloseWork)
    BY <1>4 DEF TxBacklog
  <2>2. backlog \in Seq(Nat) /\ backlog # <<>>  BY <1>4 DEF TxBacklog, FromBacklog, TypeOK
  <2>3. Tail(backlog) \in Seq(Nat) /\ (Len(backlog) # 1 => backlog[2] \in Nat)
    <3>1. Tail(backlog) \in Seq(Nat)  BY ONLY <2>2
    <3>2. Len(backlog) \in Nat /\ Len(backlog) # 0  BY ONLY <2>2
    <3>3. \A n \in Nat : n # 0 /\ n # 1 => 2 \in 1..n  OBVIOUS
    <3>4. Len(backlog) # 1 => 2 \in 1..Len(backlog)  BY ONLY <3>2, <3>3, Zenon
    <3> QED  BY ONLY <2>2, <3>1, <3>4
  <2>4. backlog' \in Seq(Nat) /\ turn' \in Nat  BY <1>4, <2>3, MaxAssumption DEF TxBacklog
  <2>5. ticket' \in Nat /\ budget' \in Int  BY <1>4 DEF TxBacklog, TypeOK
  <2>6. UNCHANGED <<rxvars, retvars, ring, tail>>  BY <1>4 DEF TxBacklog
  <2> QED  BY <1>1, <2>1, <2>4, <2>5, <2>6 DEF TypeOK
<1>5. ASSUME TxEnd PROVE TypeOK'
  BY <1>5 DEF TxEnd, TypeOK
<1> QED  BY <1>2, <1>3, <1>4, <1>5 DEF Tx

-----------------------------------------------------------------------------
(* The theorems. *)

\* A step of the receiving side keeps the pipeline in order, unless it runs into
\* an assertion, and puts nothing on the wire.
LEMMA RxStep ==
    ASSUME Held, Rx \/ RxGoesOn
    PROVE  /\ bug' = "none" => PipeInv'
           /\ bug' \in {"none", "already_queued", "freed_listed"} /\ wire' = wire
<1>1. bug' \in {"none", "already_queued", "freed_listed"} /\ wire' = wire
  BY
     DEF Held, Rx, RxGoesOn, Recv, RecvBlock, RecvHeaders, RecvBody, RecvBad, RecvBadQueue,
         PeerFin, PeerClosed, ConnDrop, SendContinue, Deleted, RecvEnd, txvars
<1>2. ASSUME bug' = "none" PROVE PipeInv'
  BY <1>2, RecvKeeps, RecvBlockKeeps, RecvHeadersKeeps, RecvBodyKeeps, RecvBadKeeps,
     RecvBadQueueKeeps, PeerFinKeeps, PeerClosedKeeps, SendContinueKeeps, DeletedKeeps, RecvEndKeeps
     DEF Rx, RxGoesOn
<1> QED  BY <1>1, <1>2

\* Whoever answers or sends meets no assertion but the one of a request that is
\* being refused: a request that is answered is in seq_queue, and one that is
\* sent has its response.
LEMMA RespStep ==
    ASSUME Held, (\E r \in Reqs : Resp(r)) \/ Sender
    PROVE  /\ bug' = "none" => PipeInv'
           /\ bug' \in {"none", "interim_gone"} /\ wire' = wire
<1>1. wire' = wire
  BY DEF Resp, Sender, RespDropped, RespNoClient, RespBuildError, ReqClean, RespFwd,
         SendNext, SendFailed, SendBug, SendEnd, txvars
<1>2. ASSUME NEW r \in Reqs, Resp(r) PROVE PipeInv' /\ bug' = "none"
  <2>1. CASE RespNoClient(r)  BY <2>1, RespNoClientKeeps
  <2>2. CASE \E close \in BOOLEAN : RespFwd(r, close)  BY <2>2, RespFwdKeeps
  <2>3. CASE RespDropped(r) \/ RespBuildError(r) \/ ReqClean(r)
    <3>1. bug' = "none"  BY <2>3 DEF Held, RespDropped, RespBuildError, ReqClean
    <3> QED  BY <2>3, <3>1, RespDroppedKeeps, RespBuildErrorKeeps, ReqCleanKeeps
  <2> QED  BY <1>2, <2>1, <2>2, <2>3 DEF Resp
<1>3. ASSUME Sender PROVE (bug' = "none" => PipeInv') /\ bug' \in {"none", "interim_gone"}
  <2>1. CASE SendNext  BY <2>1, SendNextKeeps
  <2>2. CASE SendFailed
    <3>1. bug' \in {"none", "interim_gone"}  BY <2>2, BareRequests DEF SendFailed
    <3> QED  BY <2>2, <3>1, SendFailedKeeps
  <2>3. CASE SendBug  BY <2>3, SendBugFails
  <2>4. CASE SendEnd
    <3>1. bug' = "none"  BY <2>4 DEF Held, SendEnd
    <3> QED  BY <2>4, <3>1, SendEndKeeps
  <2> QED  BY <1>3, <2>1, <2>2, <2>3, <2>4 DEF Sender
<1> QED  BY <1>1, <1>2, <1>3

\* The softirq puts responses on the wire in the order of the requests.
LEMMA TxStep ==
    ASSUME Held, Tx, FinalsIncrease(wire)
    PROVE  /\ bug' = "none" => PipeInv'
           /\ bug' \in {"none", "freed_listed"} /\ FinalsIncrease(wire')
<1>1. CASE TxStart \/ TxEnd
  <2>1. UNCHANGED <<reqvars, rxvars, retvars, sock, wqvars, wire, bug>>
    BY <1>1 DEF TxStart, TxEnd
  <2> QED  BY <2>1, IdleKeeps DEF Held
<1>2. CASE TxRing \/ TxBacklog
  <2>1. PICK w : Exec(w)  BY <1>2 DEF TxRing, TxBacklog
  <2>2. bug' \in {"none", "freed_listed"}  BY <2>1 DEF Exec, ConnDrop, Held
  <2>3. ASSUME bug' # "none" PROVE wire' = wire
    BY <2>1, <2>3 DEF Exec, Held
  <2> QED  BY <1>2, <2>2, <2>3, TxRingKeeps, TxBacklogKeeps
<1> QED  BY <1>1, <1>2 DEF Tx

\* The inductive invariant of the pipeline: where a request is, what its flags
\* say and in which list it is fit together, whatever CPUs receive, answer, send
\* and close at the same time.
THEOREM IInvariance == Spec => []IInv
<1>1. Init => IInv
  <2> SUFFICES ASSUME Init PROVE IInv
    OBVIOUS
  <2>1. TypeOK
    <3>1. /\ st \in [Reqs -> ReqStates] /\ next \in 1..(NReqs + 1) /\ rx \in RxPoints
          /\ pair \in [Reqs -> {"none", "continue", "final"}] /\ sender \in 0..NReqs
      BY ReqsAssumption DEF Init, ReqStates, RxPoints
    <3>2. /\ seq_queue \in Seq(Reqs) /\ ret_queue \in Seq(Reqs)
          /\ ring \in Seq(SendWorks \cup {CloseWork}) /\ Len(ring) <= QSize
          /\ backlog \in Seq(Nat) /\ wire \in Seq(SendWorks)
      BY SizeAssumption DEF Init
    <3>3. tail \in Nat /\ turn \in Nat /\ budget \in Int /\ ticket \in Nat
      BY MaxAssumption DEF Init
    <3> QED  BY <3>1, <3>2, <3>3 DEF Init, TypeOK, Socks, Asserts
  <2>2. Elems(<<>>) = {} /\ Answered(<<>>) = {} /\ Increasing(<<>>) /\ FinalsIncrease(<<>>)
    BY DEF Elems, Answered, Increasing, FinalsIncrease
  <2>3. \A r \in Reqs : ReqInv(r)
    BY <2>2 DEF Init, ReqInv, Received, InSeq, InRet, IsReady, Answerable, Reqs
  <2>4. RxInv /\ ConnInv  BY <2>2 DEF Init, RxInv, ConnInv
  <2>5. OrderInv  BY <2>2 DEF Init, OrderInv, Before
  <2> QED  BY <2>1, <2>2, <2>3, <2>4, <2>5 DEF Init, IInv, PipeInv, OtherAssertionsHold
<1>2. IInv /\ [Next]_vars => IInv'
  <2> SUFFICES ASSUME IInv, [Next]_vars PROVE IInv'
    OBVIOUS
  <2>1. CASE UNCHANGED vars
    <3>1. UNCHANGED <<st, seq_queue, ready, contq, pair, drop, connclose, next, rx, stop, fin>>
      BY <2>1 DEF vars, reqvars, rxvars
    <3>2. UNCHANGED <<sender, ret_queue, sock, ring, tail, backlog, turn, budget, ticket, wire, bug>>
      BY <2>1 DEF vars, retvars, wqvars, txvars
    <3>3. TypeOK'  BY <3>1, <3>2 DEF IInv, TypeOK
    <3>4. bug = "none" /\ PipeInv => PipeInv'
      BY <3>1, <3>2 DEF PipeInv, ReqInv, Received, InSeq, InRet, IsReady, Answerable,
                        RxInv, ConnInv, OrderInv
    <3> QED  BY <3>2, <3>3, <3>4 DEF IInv, OtherAssertionsHold
  <2>2. CASE bug = "none" /\ (Rx \/ RxGoesOn)
    <3>1. Held  BY <2>2 DEF IInv, Held
    <3> QED  BY <2>2, <3>1, RxTypes, RxStep DEF IInv, OtherAssertionsHold
  <2>3. CASE bug = "none" /\ ((\E r \in Reqs : Resp(r)) \/ Sender)
    <3>1. Held  BY <2>3 DEF IInv, Held
    <3> QED  BY <2>3, <3>1, RespTypes, RespStep DEF IInv, OtherAssertionsHold
  <2>4. CASE bug = "none" /\ Tx
    <3>1. Held /\ FinalsIncrease(wire)  BY <2>4 DEF IInv, Held
    <3> QED  BY <2>4, <3>1, TxTypes, TxStep DEF IInv, OtherAssertionsHold
  <2> QED  BY <2>1, <2>2, <2>3, <2>4 DEF Next, Halt
<1> QED  BY <1>1, <1>2, PTL DEF Spec

\* Every variable keeps its type, and the ring never overflows.
THEOREM TypeCorrect == Spec => []TypeOK
<1>1. IInv => TypeOK  BY DEF IInv
<1> QED  BY <1>1, IInvariance, PTL

\* The BUG_ONs of tfw_http_resp_fwd() and __tfw_http_resp_fwd() never fire but for
\* one request: a request that is answered is in seq_queue if its connection has
\* one, and every request in ret_queue has a response, save the one in receipt
\* that has just lost its interim response to an error, InterimKept.
THEOREM AssertionsHold == Spec => []OtherAssertionsHold
<1>1. IInv => OtherAssertionsHold  BY DEF IInv
<1> QED  BY <1>1, IInvariance, PTL

\* The final responses on the wire are in the order of the requests, each at most
\* once, even if the work queue overflows.
THEOREM NeverReordered == Spec => []FinalsIncrease(wire)
<1>1. IInv => FinalsIncrease(wire)  BY DEF IInv
<1> QED  BY <1>1, IInvariance, PTL

-----------------------------------------------------------------------------
(* No response is missing on the wire, as long as no close overflows into the  *)
(* backlog, where it is overtaken by works of the ring.                         *)

Lists == Elems(ret_queue) \cup Elems(seq_queue)

\* Nothing or a work without a final response is queued.
Quiet == ring' = ring \/ \E w \in AllWorks : w.kind # "final" /\ ring' = Append(ring, w)

\* The ring after a work was queued.
LEMMA Queued ==
    ASSUME Held, NEW w \in AllWorks, ring' = Append(ring, w)
    PROVE  /\ Len(ring') = Len(ring) + 1 /\ Len(ring) \in Nat
           /\ \A i \in 1..Len(ring) : ring'[i] = ring[i]
           /\ ring'[Len(ring) + 1] = w
           /\ Answered(ring') = Answered(ring) \cup FinalOf(w)
<1>1. ring \in Seq(AllWorks)  BY Basics
<1> QED  BY <1>1, AppendWork

\* A connection that is to be closed remains so until it is closed.
LEMMA BrokenStays ==
    ASSUME Held, Broken, sock' = sock, NEW w \in AllWorks,
           ring' = ring \/ ring' = Append(ring, w)
    PROVE  Broken'
<1>1. CASE ring' = ring  BY <1>1 DEF Broken, CloseAt
<1>2. CASE ring' = Append(ring, w)
  BY <1>2, Queued DEF Broken, CloseAt
<1> QED  BY <1>1, <1>2

\* ss_close() breaks the connection, if it finds room.
LEMMA CloseBreaks ==
    ASSUME Held, Close, sock' = sock, backlog = <<>>, backlog' = <<>>
    PROVE  Broken' /\ Quiet
<1>1. Len(ring) \in Nat /\ Len(ring) <= QSize /\ QSize \in Nat
  BY SizeAssumption, Basics DEF Held, TypeOK
<1>2. CloseWork \in AllWorks /\ CloseWork.kind = "close"
  BY DEF AllWorks, CloseWork
<1>3. CASE sock = "dropped"
  BY <1>3 DEF Broken, Close, Quiet
<1>4. CASE sock # "dropped" /\ Len(ring) < QSize
  <2>1. ring' = Append(ring, CloseWork)  BY <1>4 DEF Close
  <2>2. /\ Len(ring') = Len(ring) + 1 /\ ring'[Len(ring) + 1] = CloseWork
    BY <2>1, <1>2, Queued
  <2>3. Len(ring) + 1 \in 1..Len(ring')  BY <2>2, <1>1
  <2> QED  BY <2>1, <2>2, <2>3, <1>2 DEF Broken, CloseAt, Quiet
<1>5. CASE sock # "dropped" /\ Len(ring) = QSize
  <2>1. backlog' = Append(<<>>, tail + Len(ring))  BY <1>5 DEF Close
  <2>2. Append(<<>>, tail + Len(ring)) # <<>>  OBVIOUS
  <2> QED  BY <2>1, <2>2
<1> QED  BY <1>1, <1>3, <1>4, <1>5

\* Steps that send no response leave no hole, if no request leaves the lists of
\* a connection that stays.
LEMMA HoleKept ==
    ASSUME Held, NoHole, wire' = wire, sock' = sock, Quiet,
           \A r \in Reqs : st'[r] = "clean" => st[r] = "clean" \/ Broken',
           \/ Broken'
           \/ \A r \in Reqs : /\ r < next' => r < next \/ r \in Lists'
                              /\ r < next' /\ r \in Lists => r \in Lists'
    PROVE  NoHole'
<1>1. PICK w \in AllWorks : ring' = ring \/ (w.kind # "final" /\ ring' = Append(ring, w))
  BY DEF Quiet, AllWorks
<1>2. Broken => Broken'  BY <1>1, BrokenStays
<1>3. /\ Answered(ring') = Answered(ring) /\ Len(ring) \in Nat
      /\ \A i \in 1..Len(ring') : ring'[i].kind = "final" => i \in 1..Len(ring)
      /\ Len(ring) <= Len(ring')
      /\ \A i \in 1..Len(ring) : ring'[i] = ring[i]
  <2>1. CASE ring' = ring  BY <2>1, Basics
  <2>2. CASE w.kind # "final" /\ ring' = Append(ring, w)
    <3>1. FinalOf(w) = {}  BY <2>2 DEF FinalOf
    <3>2. /\ Len(ring') = Len(ring) + 1 /\ Len(ring) \in Nat
          /\ \A i \in 1..Len(ring) : ring'[i] = ring[i]
          /\ ring'[Len(ring) + 1] = w
          /\ Answered(ring') = Answered(ring)
      BY <2>2, <3>1, Queued
    <3>3. ASSUME NEW i \in 1..Len(ring'), ring'[i].kind = "final" PROVE i \in 1..Len(ring)
      <4>1. i # Len(ring) + 1  BY <2>2, <3>2, <3>3
      <4> QED  BY <3>2, <4>1
    <3> QED  BY <3>2, <3>3
  <2> QED  BY <1>1, <2>1, <2>2
<1>4. \A r \in Reqs : st'[r] = "clean" => Broken'
  BY <1>2 DEF NoHole
<1>5. ASSUME sock' = "open", NEW i \in 1..Len(ring'), ring'[i].kind = "final",
             \A j \in 1..(i - 1) : ~(CloseAt(j)'), NEW r \in Reqs, r < ring'[i].r
      PROVE  r \in Answered(wire') \cup Answered(ring')
  <2>1. i \in 1..Len(ring) /\ ring'[i] = ring[i]  BY <1>3, <1>5
  <2>2. ASSUME NEW j \in 1..(i - 1) PROVE ~CloseAt(j)
    <3>1. j \in 1..Len(ring)  BY <2>1, <1>3
    <3> QED  BY <3>1, <1>3, <1>5 DEF CloseAt
  <2>3. r \in Answered(wire) \cup Answered(ring)  BY <1>5, <2>1, <2>2 DEF NoHole
  <2> QED  BY <2>3, <1>3
<1>6. ASSUME ~Broken', NEW r \in Reqs, r < next'
      PROVE  r \in Answered(wire') \cup Answered(ring') \cup Lists'
  <2>1. ~Broken  BY <1>2, <1>6
  <2>2. CASE r \in Lists'  BY <2>2
  <2>3. CASE r \notin Lists'
    <3>1. r < next /\ r \notin Lists  BY <1>6, <2>3
    <3>2. r \in Answered(wire) \cup Answered(ring)  BY <2>1, <3>1 DEF NoHole, Lists
    <3> QED  BY <3>2, <1>3
  <2> QED  BY <2>2, <2>3
<1> QED  BY <1>4, <1>5, <1>6 DEF NoHole, Lists

\* A connection that is not open has no holes that matter.
LEMMA HoleClosed ==
    ASSUME sock' # "open"
    PROVE  NoHole'
BY DEF NoHole, Broken

\* Steps of the receiving side leave no hole: a request that is not queued ends the connection.
LEMMA RxGap ==
    ASSUME Held, NoHole, Rx \/ RxGoesOn, backlog = <<>>, backlog' = <<>>
    PROVE  NoHole'
<1> USE Basics DEF reqvars, rxvars, retvars, wqvars, txvars
<1>n. rx # "idle" => next \in Reqs /\ (rx = "continue" => pair[next] = "continue")
  BY DEF Held, PipeInv, RxInv
<1>s. Increasing(seq_queue)  BY DEF Held, PipeInv, OrderInv
<1>e. ASSUME NEW close \in BOOLEAN, next \in Reqs, Enqueue(next, close),
             UNCHANGED <<ret_queue, ring, wire, sock>>
      PROVE  NoHole'
  <2>1. Elems(seq_queue') = Elems(seq_queue) \cup {next}  BY <1>e, AppendElems DEF Enqueue
  <2>2. next' = next + 1 /\ st' = [st EXCEPT ![next] = "work"]  BY <1>e DEF Enqueue
  <2>3. \A r \in Reqs : st'[r] = "clean" => st[r] = "clean"  BY <2>2
  <2>4. \A r \in Reqs : /\ r < next' => r < next \/ r \in Lists'
                        /\ r < next' /\ r \in Lists => r \in Lists'
    BY <2>1, <2>2, <1>e DEF Lists, Reqs
  <2> QED  BY <1>e, <2>3, <2>4, HoleKept DEF Quiet
<1>1. ASSUME NEW close \in BOOLEAN, Recv(close) PROVE NoHole'
  BY <1>1, <1>e DEF Recv, Receiving
<1>2. ASSUME RecvBlock PROVE NoHole'
  <2>1. next \in Reqs /\ sock' = sock /\ wire' = wire
    BY <1>2, <1>n
       DEF RecvBlock, Receiving
  <2>2. Broken' /\ Quiet  BY <1>2, <2>1, CloseBreaks DEF RecvBlock
  <2> QED  BY <2>1, <2>2, HoleKept
<1>3. ASSUME RecvHeaders PROVE NoHole'
  <2>1. next \in Reqs /\ UNCHANGED <<sock, wire, ring, next, ret_queue>>
        /\ st' = [st EXCEPT ![next] = "headers"]
    BY <1>3 DEF RecvHeaders, Receiving
  <2>2. seq_queue' = seq_queue \/ seq_queue' = Append(seq_queue, next)
    BY <1>3 DEF RecvHeaders
  <2>3. Elems(seq_queue) \subseteq Elems(seq_queue')  BY <2>1, <2>2, AppendElems
  <2>4. \A r \in Reqs : st'[r] = "clean" => st[r] = "clean"  BY <2>1
  <2> QED  BY <2>1, <2>3, <2>4, HoleKept DEF Quiet, Lists
<1>4. ASSUME RecvBody PROVE NoHole'
  <2>1. next \in Reqs /\ UNCHANGED <<sock, wire, ring, next, ret_queue>>
        /\ st' = [st EXCEPT ![next] = "body"]
    BY <1>4 DEF RecvBody, Receiving
  <2>2. Elems(seq_queue') = Elems(seq_queue) \ {next}
    BY <1>4, <1>s, <2>1, WithoutElems DEF RecvBody
  <2>3. \A r \in Reqs : st'[r] = "clean" => st[r] = "clean"  BY <2>1
  <2>4. \A r \in Reqs : r < next' => r < next /\ (r \in Lists => r \in Lists')
    BY <2>1, <2>2 DEF Lists
  <2> QED  BY <2>1, <2>3, <2>4, HoleKept DEF Quiet
<1>5. ASSUME RecvBad PROVE NoHole'
  <2>1. UNCHANGED <<st, sock, wire, ring, next, ret_queue, seq_queue>>  BY <1>5 DEF RecvBad
  <2> QED  BY <2>1, HoleKept DEF Lists, Quiet
<1>11. ASSUME RecvBadQueue PROVE NoHole'
  BY <1>11, <1>e, <1>n DEF RecvBadQueue
<1>6. ASSUME PeerFin PROVE NoHole'
  <2>1. Broken' /\ Quiet /\ sock' = sock /\ wire' = wire
    BY <1>6, CloseBreaks DEF PeerFin
  <2> QED  BY <2>1, HoleKept
<1>7. ASSUME PeerClosed PROVE NoHole'
  BY <1>7, HoleClosed DEF PeerClosed, ConnDrop
<1>8. ASSUME SendContinue PROVE NoHole'
  <2>1. UNCHANGED <<st, sock, wire, next, ret_queue, seq_queue>>  BY <1>8 DEF SendContinue
  <2>2. next \in Reqs /\ pair[next] = "continue"  BY <1>8, <1>n DEF SendContinue
  <2>3. Quiet
    <3>1. CASE MaySend
      <4> DEFINE w == [r |-> next, kind |-> pair[next],
                       last |-> pair[next] = "final" /\ next \in connclose]
      <4>1. ring' = Append(ring, w)  BY <1>8, <3>1 DEF SendContinue, Send
      <4>2. w \in AllWorks /\ w.kind # "final"  BY <2>2 DEF AllWorks, SendWorks
      <4> QED  BY <4>1, <4>2 DEF Quiet
    <3>2. CASE ~MaySend  BY <1>8, <3>2, <2>1, CloseBreaks DEF SendContinue
    <3> QED  BY <3>1, <3>2
  <2> QED  BY <2>1, <2>3, HoleKept DEF Lists
<1>9. ASSUME Deleted PROVE NoHole'
  <2>1. UNCHANGED <<st, sock, wire, ring, next, ret_queue, seq_queue>>  BY <1>9 DEF Deleted
  <2> QED  BY <2>1, HoleKept DEF Lists, Quiet
<1>10. ASSUME NEW close \in BOOLEAN, RecvEnd(close) PROVE NoHole'
  BY <1>10, <1>e, <1>n DEF RecvEnd
<1> QED
  BY <1>1, <1>2, <1>3, <1>4, <1>5, <1>6, <1>7, <1>8, <1>9, <1>10, <1>11 DEF Rx, RxGoesOn

\* A response is queued: all responses before it are on the wire or in the ring,
\* because nothing smaller is in the lists.
LEMMA SendNextGap ==
    ASSUME Held, NoHole, SendNext
    PROVE  NoHole'
<1> USE Basics
<1> DEFINE r == ret_queue[1]
           w == [r |-> r, kind |-> pair[r], last |-> pair[r] = "final" /\ r \in connclose]
<1>1. /\ ret_queue # <<>> /\ ret_queue' = Tail(ret_queue) /\ ring' = Append(ring, w)
      /\ sock = "open" /\ UNCHANGED <<seq_queue, next, sock, wire>>
  BY DEF SendNext, Send, MaySend, rxvars, txvars
<1>2. /\ r \in Reqs /\ r \in Elems(ret_queue)
      /\ Elems(ret_queue') = Elems(ret_queue) \ {r}
      /\ Before({r}, Elems(ret_queue'))
  <2>1. ret_queue \in Seq(Reqs) /\ Increasing(ret_queue)  BY DEF Held, PipeInv, OrderInv
  <2> QED  BY ONLY <1>1, <2>1, TailElems
<1>3. pair[r] \in {"final", "continue"} /\ (pair[r] = "continue" => r = next)
  <2>1. pair[r] # "none"  BY DEF SendNext
  <2> QED  BY <1>2, <2>1 DEF Held, PipeInv, ReqInv, InRet
<1>4. w \in AllWorks /\ w.kind = pair[r] /\ w.r = r
      /\ FinalOf(w) = IF pair[r] = "final" THEN {r} ELSE {}
  BY <1>2, <1>3 DEF AllWorks, SendWorks, FinalOf
<1>5. \A q \in Reqs : st'[q] = "clean" => st[q] = "clean"
  <2>1. \/ UNCHANGED st
        \/ st' = [q \in Reqs |-> IF q \in {r} THEN "done" ELSE st[q]]
    BY DEF SendNext, Freed
  <2> QED  BY <2>1
<1> HIDE DEF r, w
<1>6. Broken => Broken'  BY <1>1, <1>4, BrokenStays
<1>7. /\ Len(ring') = Len(ring) + 1 /\ Len(ring) \in Nat
      /\ \A i \in 1..Len(ring) : ring'[i] = ring[i]
      /\ ring'[Len(ring) + 1] = w
      /\ Answered(ring') = Answered(ring) \cup FinalOf(w)
  BY <1>1, <1>4, Queued
<1>8. Before(Elems(ret_queue), Elems(seq_queue))  BY DEF Held, PipeInv, OrderInv
<1>9. \A q \in Reqs : st'[q] = "clean" => Broken'  BY <1>5, <1>6 DEF NoHole
<1>10. ASSUME NEW i \in 1..Len(ring'), ring'[i].kind = "final",
              \A j \in 1..(i - 1) : ~(CloseAt(j)'), NEW q \in Reqs, q < ring'[i].r
       PROVE  q \in Answered(wire') \cup Answered(ring')
  <2>1. ASSUME NEW j \in 1..(i - 1) PROVE j \in 1..Len(ring) /\ ~CloseAt(j)
    <3>1. j \in 1..Len(ring)  BY <1>7
    <3> QED  BY <3>1, <1>7, <1>10 DEF CloseAt
  <2>2. CASE i \in 1..Len(ring)
    <3>1. ring'[i] = ring[i]  BY <2>2, <1>7
    <3>2. q \in Answered(wire) \cup Answered(ring)
      BY <1>1, <1>10, <2>1, <2>2, <3>1 DEF NoHole
    <3> QED  BY <3>2, <1>1, <1>7
  <2>3. CASE i = Len(ring) + 1
    <3>1. ring'[i] = w /\ pair[r] = "final" /\ q < r  BY <2>3, <1>4, <1>7, <1>10
    <3>2. \A j \in 1..Len(ring) : ~CloseAt(j)
      BY <2>1, <2>3, <1>7
    <3>3. ~Broken  BY <1>1, <3>2 DEF Broken
    <3>4. r < next
      <4>1. ReqInv(r)  BY <1>2 DEF Held, PipeInv
      <4> QED  BY <3>1, <4>1, <1>2 DEF ReqInv, InRet, Received, Reqs
    <3>5. q < next  BY <3>1, <3>4, <1>2 DEF Reqs
    <3>6. q \in Answered(wire) \cup Answered(ring) \cup Elems(ret_queue) \cup Elems(seq_queue)
      BY <3>3, <3>5 DEF NoHole
    <3>7. q \notin Elems(ret_queue) /\ q \notin Elems(seq_queue)
      BY <3>1, <1>2, <1>8 DEF Before, Reqs
    <3> QED  BY <3>6, <3>7, <1>1, <1>7
  <2> QED  BY <2>2, <2>3, <1>7
<1>11. ASSUME ~Broken', NEW q \in Reqs, q < next'
       PROVE  q \in Answered(wire') \cup Answered(ring')
                    \cup Elems(ret_queue') \cup Elems(seq_queue')
  <2>1. q \in Answered(wire) \cup Answered(ring) \cup Elems(ret_queue) \cup Elems(seq_queue)
    BY <1>1, <1>6, <1>11 DEF NoHole
  <2>2. q = r => pair[r] = "final"  BY <1>1, <1>2, <1>3, <1>11 DEF Reqs
  <2> QED  BY <2>1, <2>2, <1>1, <1>2, <1>4, <1>7
<1> QED  BY <1>9, <1>10, <1>11 DEF NoHole

\* Whoever answers leaves no hole: a request that leaves the lists without a
\* response ends the connection.
LEMMA RespGap ==
    ASSUME Held, NoHole, (\E r \in Reqs : Resp(r)) \/ Sender, backlog = <<>>, backlog' = <<>>
    PROVE  NoHole'
<1> USE Basics DEF reqvars, rxvars, retvars, wqvars, txvars
<1>1. ASSUME NEW r \in Reqs, RespDropped(r) \/ RespNoClient(r) PROVE NoHole'
  <2>1. /\ UNCHANGED <<sock, wire, next, ret_queue, seq_queue>>
        /\ st' = [q \in Reqs |-> IF q \in {r} THEN "done" ELSE st[q]]
    BY <1>1 DEF RespDropped, RespNoClient, Freed
  <2>2. Quiet
    <3>1. CASE RespDropped(r)  BY <3>1 DEF RespDropped, Quiet
    <3>2. CASE RespNoClient(r)  BY <3>2, <2>1, CloseBreaks DEF RespNoClient
    <3> QED  BY <1>1, <3>1, <3>2
  <2>3. \A q \in Reqs : st'[q] = "clean" => st[q] = "clean"  BY <2>1
  <2> QED  BY <2>1, <2>2, <2>3, HoleKept DEF Lists
<1>2. ASSUME NEW r \in Reqs, RespBuildError(r) PROVE NoHole'
  <2>1. Broken' /\ Quiet /\ sock' = sock /\ wire' = wire
    BY <1>2, CloseBreaks DEF RespBuildError
  <2> QED  BY <2>1, HoleKept
<1>3. ASSUME NEW r \in Reqs, ReqClean(r) PROVE NoHole'
  <2>1. Broken  BY <1>3 DEF ReqClean, NoHole
  <2>2. UNCHANGED <<sock, wire, ring>>  BY <1>3 DEF ReqClean
  <2>3. Broken'  BY <2>1, <2>2 DEF Broken, CloseAt
  <2> QED  BY <2>2, <2>3, HoleKept DEF Quiet
<1>4. ASSUME NEW r \in Reqs, NEW close \in BOOLEAN, RespFwd(r, close) PROVE NoHole'
  <2> DEFINE cut == ReadyPart(seq_queue, ready \cup {r})
             rest == SubSeq(seq_queue, Len(cut) + 1, Len(seq_queue))
  <2>1. /\ Elems(seq_queue) = Elems(cut) \cup Elems(rest) /\ cut \in Seq(Reqs)
    <3>1. seq_queue \in Seq(Reqs) /\ Increasing(seq_queue)  BY DEF Held, PipeInv, OrderInv
    <3> QED  BY ONLY <3>1, CutElems
  <2>2. /\ UNCHANGED <<sock, wire, ring, next>> /\ st' = [st EXCEPT ![r] = "fwd"]
        /\ cut # <<>> => sender = 0
        /\ \/ UNCHANGED <<seq_queue, ret_queue>>
           \/ seq_queue' = rest /\ ret_queue' = IF cut = <<>> THEN ret_queue ELSE cut
    BY <1>4 DEF RespFwd
  <2> HIDE DEF cut, rest
  <2>3. cut # <<>> => Elems(ret_queue) = {}  BY <2>2 DEF Held, PipeInv, ConnInv
  <2>4. cut = <<>> => Elems(cut) = {}  BY <2>1, EmptyElems
  <2>5. Lists \subseteq Lists'  BY <2>1, <2>2, <2>3, <2>4 DEF Lists
  <2>6. \A q \in Reqs : st'[q] = "clean" => st[q] = "clean"  BY <2>2
  <2> QED  BY <2>2, <2>5, <2>6, HoleKept DEF Quiet
<1>5. ASSUME SendFailed PROVE NoHole'
  <2>1. Broken' /\ Quiet /\ sock' = sock /\ wire' = wire
    BY <1>5, CloseBreaks DEF SendFailed
  <2> QED  BY <2>1, HoleKept
<1>6. ASSUME SendEnd PROVE NoHole'
  <2>1. UNCHANGED <<st, sock, wire, ring, next, ret_queue, seq_queue>>  BY <1>6 DEF SendEnd
  <2> QED  BY <2>1, HoleKept DEF Lists, Quiet
<1>7. ASSUME SendBug PROVE NoHole'
  <2>1. UNCHANGED <<st, sock, wire, ring, next, ret_queue, seq_queue>>  BY <1>7 DEF SendBug
  <2> QED  BY <2>1, HoleKept DEF Lists, Quiet
<1> QED  BY <1>1, <1>2, <1>3, <1>4, <1>5, <1>6, <1>7, SendNextGap DEF Resp, Sender

WireClosed == \A r, q \in Reqs : r < q /\ q \in Answered(wire) => r \in Answered(wire)

\* The first work of the ring is executed: a response gets on the wire when all
\* before it are there.
LEMMA TxRingGap ==
    ASSUME Held, NoHole, WireClosed, TxRing
    PROVE  NoHole' /\ WireClosed'
<1> USE Basics DEF reqvars, rxvars, retvars
<1> DEFINE w == Head(ring)
<1>1. /\ ring # <<>> /\ ring' = Tail(ring) /\ Exec(w) /\ FinalsIncrease(ring)
      /\ UNCHANGED <<next, ret_queue>>
  BY DEF TxRing, Held, PipeInv, OrderInv
<1>2. /\ w \in AllWorks /\ ring' \in Seq(AllWorks)
      /\ Answered(ring) = FinalOf(w) \cup Answered(ring')
      /\ Before(FinalOf(w), Answered(ring'))
  BY <1>1, TailWork
<1>3. /\ Len(ring) \in Nat \ {0} /\ Len(ring') = Len(ring) - 1 /\ w = ring[1]
      /\ \A i \in 1..Len(ring') : ring'[i] = ring[i + 1]
  BY <1>1
<1> HIDE DEF w
<1>4. CASE sock # "open" \/ w.kind = "close"
  <2>1. sock' # "open" /\ wire' = wire  BY <1>1, <1>4 DEF Exec, ConnDrop
  <2> QED  BY <2>1, HoleClosed DEF WireClosed
<1>5. CASE sock = "open" /\ w.kind # "close"
  <2>1. wire' = Append(wire, w) /\ UNCHANGED <<st, seq_queue>>
    BY <1>1, <1>5 DEF Exec
  <2>2. Answered(wire') = Answered(wire) \cup FinalOf(w)  BY <2>1, <1>2, AppendWork
  <2>3. WireClosed'
    <3> SUFFICES ASSUME NEW r \in Reqs, NEW q \in Reqs, r < q, q \in Answered(wire')
                 PROVE  r \in Answered(wire')
      BY DEF WireClosed
    <3>1. CASE q \in Answered(wire)  BY <3>1, <2>2 DEF WireClosed
    <3>2. CASE q \notin Answered(wire)
      <4>1. w.kind = "final" /\ q = w.r  BY <3>2, <2>2 DEF FinalOf
      <4>2. 1 \in 1..Len(ring) /\ ring[1].kind = "final" /\ r < ring[1].r
            /\ \A j \in 1..(1 - 1) : ~CloseAt(j)
        BY <4>1, <1>3
      <4>3. r \in Answered(wire) \cup Answered(ring)  BY <4>2, <1>5 DEF NoHole
      <4>4. q \in FinalOf(w)  BY <4>1 DEF FinalOf
      <4>5. r \notin Answered(ring')  BY <4>4, <1>2 DEF Before, Reqs
      <4> QED  BY <4>3, <4>5, <1>2, <2>2
    <3> QED  BY <3>1, <3>2
  <2>4. ASSUME sock' = "open" PROVE Broken => Broken'
    <3> SUFFICES ASSUME NEW i \in 1..Len(ring), CloseAt(i) PROVE Broken'
      BY <1>5 DEF Broken
    <3>1. i # 1  BY <1>3, <1>5 DEF CloseAt
    <3>2. i - 1 \in 1..Len(ring') /\ ring'[i - 1] = ring[i]  BY <3>1, <1>3
    <3> QED  BY <3>2 DEF Broken, CloseAt
  <2>5. \A r \in Reqs : st'[r] = "clean" => Broken'
    BY <2>1, <2>4 DEF NoHole, Broken
  <2>6. ASSUME sock' = "open", NEW i \in 1..Len(ring'), ring'[i].kind = "final",
               \A j \in 1..(i - 1) : ~(CloseAt(j)'), NEW q \in Reqs, q < ring'[i].r
        PROVE  q \in Answered(wire') \cup Answered(ring')
    <3>1. i + 1 \in 1..Len(ring) /\ ring'[i] = ring[i + 1]  BY <1>3
    <3>2. ASSUME NEW j \in 1..((i + 1) - 1) PROVE ~CloseAt(j)
      <4>1. CASE j = 1  BY <4>1, <1>3, <1>5 DEF CloseAt
      <4>2. CASE j # 1
        <5>1. j - 1 \in 1..(i - 1) /\ j - 1 \in 1..Len(ring') /\ (j - 1) + 1 = j
          BY <4>2, <1>3
        <5>2. ring'[j - 1] = ring[j]  BY <5>1, <1>3
        <5> QED  BY <5>1, <5>2, <2>6 DEF CloseAt
      <4> QED  BY <4>1, <4>2
    <3>3. q \in Answered(wire) \cup Answered(ring)
      BY <3>1, <3>2, <2>6, <1>5 DEF NoHole
    <3> QED  BY <3>3, <2>2, <1>2
  <2>7. ASSUME ~Broken', NEW q \in Reqs, q < next'
        PROVE  q \in Answered(wire') \cup Answered(ring')
                     \cup Elems(ret_queue') \cup Elems(seq_queue')
    <3>1. ~Broken  BY <2>4, <2>7 DEF Broken
    <3>2. q \in Answered(wire) \cup Answered(ring) \cup Elems(ret_queue) \cup Elems(seq_queue)
      BY <3>1, <2>7, <1>1 DEF NoHole
    <3> QED  BY <3>2, <2>1, <2>2, <1>1, <1>2
  <2> QED  BY <2>3, <2>5, <2>6, <2>7 DEF NoHole
<1> QED  BY <1>4, <1>5

\* As long as no close had to wait outside of the ring, the inductive invariant of
\* the pipeline leaves no holes.
THEOREM GapInvariance == Spec /\ [](backlog = <<>>) => []GapInv
<1> USE DEF reqvars, rxvars, retvars, wqvars, txvars
<1>1. Init => GapInv
  <2> SUFFICES ASSUME Init PROVE GapInv
    OBVIOUS
  <2>1. Answered(<<>>) = {}  BY DEF Answered
  <2>2. GapInv  BY <2>1 DEF GapInv, NoHole, Broken, Init, Reqs
  <2> QED  BY <2>2
<1>2. IInv /\ GapInv /\ backlog = <<>> /\ (backlog = <<>>)' /\ [Next]_vars => GapInv'
  <2> SUFFICES ASSUME IInv, GapInv, backlog = <<>>, backlog' = <<>>, [Next]_vars
               PROVE  GapInv'
    OBVIOUS
  <2>0. WireClosed  BY DEF GapInv, WireClosed
  <2>1. CASE UNCHANGED vars
    BY <2>1 DEF vars, GapInv, NoHole, Broken, CloseAt
  <2>2. CASE bug = "none" /\ (Rx \/ RxGoesOn)
    <3>1. Held /\ NoHole  BY <2>2 DEF IInv, Held, GapInv
    <3>2. NoHole' /\ wire' = wire  BY <2>2, <3>1, RxGap, RxStep
    <3> QED  BY <3>2 DEF GapInv
  <2>3. CASE bug = "none" /\ ((\E r \in Reqs : Resp(r)) \/ Sender)
    <3>1. Held /\ NoHole  BY <2>3 DEF IInv, Held, GapInv
    <3>2. NoHole' /\ wire' = wire  BY <2>3, <3>1, RespGap, RespStep
    <3> QED  BY <3>2 DEF GapInv
  <2>4. CASE bug = "none" /\ TxRing
    <3>1. Held /\ NoHole  BY <2>4 DEF IInv, Held, GapInv
    <3>2. NoHole' /\ WireClosed'  BY <2>0, <2>4, <3>1, TxRingGap
    <3> QED  BY <3>2 DEF GapInv, WireClosed
  <2>5. CASE bug = "none" /\ (TxStart \/ TxEnd)
    <3>1. UNCHANGED <<st, next, seq_queue, ret_queue, sock, ring, wire, bug>>
      BY <2>5 DEF TxStart, TxEnd
    <3> QED  BY <3>1 DEF GapInv, NoHole, Broken, CloseAt
  <2>6. CASE TxBacklog
    BY <2>6 DEF TxBacklog, FromBacklog
  <2> QED  BY <2>1, <2>2, <2>3, <2>4, <2>5, <2>6 DEF Next, Halt, Tx
<1> QED  BY <1>1, <1>2, IInvariance, PTL DEF Spec

\* The client gets the responses in the order of its requests, without a gap and
\* each once, unless a close did not fit into the ring.
THEOREM InOrderWithoutGap == Spec /\ [](backlog = <<>>) => []ResponsesInOrder
<1>1. IInv /\ GapInv => ResponsesInOrder
  <2> SUFFICES ASSUME IInv, GapInv PROVE ResponsesInOrder
    OBVIOUS
  <2> SUFFICES ASSUME NEW p \in 1..Len(wire), wire[p].kind = "final", NEW r \in Reqs
               PROVE  r < wire[p].r
                      <=> \E q \in 1..(p - 1) : wire[q].kind = "final" /\ wire[q].r = r
    <3>1. wire \in Seq(SendWorks)  BY DEF IInv, TypeOK
    <3>2. DOMAIN wire = 1..Len(wire)  BY <3>1
    <3> QED  BY <3>2 DEF ResponsesInOrder
  <2>1. wire \in Seq(AllWorks) /\ Len(wire) \in Nat  BY DEF IInv, TypeOK, AllWorks
  <2>2. wire[p].r \in Answered(wire)  BY <2>1, AnsweredBy
  <2>3. wire[p].r \in Reqs  BY <2>1, <2>2, AnsweredReqs
  <2>4. FinalsIncrease(wire)  BY DEF IInv
  <2>5. ASSUME r < wire[p].r
        PROVE  \E q \in 1..(p - 1) : wire[q].kind = "final" /\ wire[q].r = r
    <3>1. r \in Answered(wire)  BY <2>2, <2>3, <2>5 DEF GapInv
    <3>2. PICK q \in 1..Len(wire) : wire[q].kind = "final" /\ wire[q].r = r
      BY <2>1, <3>1, AnsweredBy
    <3>3. q # p  BY <3>2, <2>3, <2>5 DEF Reqs
    <3>4. ~(p < q)  BY <3>2, <2>3, <2>4, <2>5 DEF FinalsIncrease, Reqs
    <3>5. q \in 1..(p - 1)  BY <2>1, <3>3, <3>4
    <3> QED  BY <3>2, <3>5
  <2>6. ASSUME NEW q \in 1..(p - 1), wire[q].kind = "final", wire[q].r = r
        PROVE  r < wire[p].r
    <3>1. q \in 1..Len(wire) /\ q < p  BY <2>1
    <3> QED  BY <3>1, <2>4, <2>6 DEF FinalsIncrease
  <2> QED  BY <2>5, <2>6
<1> QED  BY <1>1, IInvariance, GapInvariance, PTL
=============================================================================
