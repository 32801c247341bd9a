---------------------------- MODULE H2ConnProofs ----------------------------
(***************************************************************************)
(* The safety properties of H2Conn as theorems, for every number of        *)
(* streams, every window, every response and every bound on the frames     *)
(* that are received.                                                      *)
(***************************************************************************)
EXTENDS H2Conn, SlotLemmas, FiniteSetTheorems, SequenceTheorems

----------------------------------------------------------------------------
(* Sequences and numbers.                                                   *)

\* Streams are positive numbers.
LEMMA StreamsNat ==
    /\ \A i \in Streams : i \in Nat /\ i # 0 /\ i > 0
    /\ 0 \notin Streams /\ IsFiniteSet(Streams)
BY H2Bounds, FS_Interval DEF Streams

\* The smallest element of a set that has one.
LEMMA MinIs ==
    ASSUME NEW S, NEW m \in S, \A y \in S : m <= y
    PROVE  Min(S) \in S /\ \A y \in S : Min(S) <= y
BY DEF Min

\* The largest element of a set that has one.
LEMMA MaxIs ==
    ASSUME NEW S, NEW m \in S, \A y \in S : m >= y
    PROVE  Max(S) \in S /\ \A y \in S : Max(S) >= y
BY DEF Max

\* Elements of a concatenation.
LEMMA Joined ==
    ASSUME NEW S, NEW p \in Seq(S), NEW q \in Seq(S)
    PROVE  /\ p \o q \in Seq(S) /\ Len(p \o q) = Len(p) + Len(q)
           /\ \A k \in 1..Len(p) : (p \o q)[k] = p[k]
           /\ \A k \in 1..Len(q) : (p \o q)[Len(p) + k] = q[k]
OBVIOUS

\* An element of a concatenation is one of its parts.
LEMMA JoinedFrom ==
    ASSUME NEW S, NEW p \in Seq(S), NEW q \in Seq(S), NEW k \in DOMAIN (p \o q)
    PROVE  \/ k \in DOMAIN p /\ (p \o q)[k] = p[k]
           \/ k - Len(p) \in DOMAIN q /\ (p \o q)[k] = q[k - Len(p)]
<1>1. k \in 1..(Len(p) + Len(q))  BY Joined
<1>2. CASE k <= Len(p)
  BY <1>1, <1>2, Joined
<1>3. CASE k > Len(p)
  <2>1. k - Len(p) \in 1..Len(q) /\ Len(p) + (k - Len(p)) = k  BY <1>1, <1>3
  <2> QED  BY <2>1
<1> QED  BY <1>1, <1>2, <1>3

\* Elements of a part of a sequence.
LEMMA Part ==
    ASSUME NEW S, NEW q \in Seq(S), NEW a \in Nat \ {0}, NEW b \in 0..Len(q)
    PROVE  /\ SubSeq(q, a, b) \in Seq(S)
           /\ Len(SubSeq(q, a, b)) = IF a <= b THEN b - a + 1 ELSE 0
           /\ \A k \in DOMAIN SubSeq(q, a, b) :
                 SubSeq(q, a, b)[k] = q[a + k - 1] /\ a + k - 1 \in a..b
OBVIOUS

\* No element of a sequence is there twice.
Inj(q) == \A k, l \in DOMAIN q : q[k] = q[l] => k = l

\* list_del_init() takes one element away.
LEMMA WithoutFacts ==
    ASSUME NEW S, NEW q \in Seq(S), NEW i
    PROVE  LET z == Without(q, i)
           IN /\ z \in Seq(S)
              /\ \A k \in DOMAIN z : \E l \in DOMAIN q : z[k] = q[l]
              /\ Inj(q) => Inj(z) /\ \A k \in DOMAIN z : z[k] # i
<1>1. CASE ~Contains(q, i)  BY <1>1 DEF Without, Contains
<1>2. CASE Contains(q, i)
  <2> DEFINE p == CHOOSE k \in DOMAIN q : q[k] = i
             a == SubSeq(q, 1, p - 1)
             b == SubSeq(q, p + 1, Len(q))
             at(k) == IF k < p THEN k ELSE k + 1
  <2>1. p \in 1..Len(q) /\ q[p] = i  BY <1>2 DEF Contains
  <2>2. Without(q, i) = a \o b
    BY <1>2 DEF Without, RemoveAt
  <2> HIDE DEF p
  <2>3. /\ a \in Seq(S) /\ Len(a) = p - 1
        /\ \A k \in 1..(p-1) : a[k] = q[k]
    BY <2>1
  <2>4. /\ b \in Seq(S) /\ Len(b) = Len(q) - p
        /\ \A k \in 1..(Len(q) - p) : b[k] = q[p + k]
    BY <2>1
  <2> HIDE DEF a, b
  <2>5. a \o b \in Seq(S) /\ Len(a \o b) = Len(q) - 1  BY <2>1, <2>3, <2>4, Joined
  <2>6. ASSUME NEW k \in DOMAIN (a \o b)
        PROVE  at(k) \in DOMAIN q /\ at(k) # p /\ (a \o b)[k] = q[at(k)]
    <3>1. k \in 1..(Len(q) - 1)  BY <2>5
    <3>2. CASE k < p
      <4>1. k \in 1..Len(a)  BY <3>1, <3>2, <2>3, <2>1
      <4> QED  BY <4>1, <3>1, <3>2, <2>1, <2>3, <2>4, Joined
    <3>3. CASE k >= p
      <4>1. k - (p - 1) \in 1..Len(b) /\ Len(a) + (k - (p - 1)) = k
            /\ p + (k - (p - 1)) = k + 1  BY <3>1, <3>3, <2>1, <2>3, <2>4
      <4>2. (a \o b)[k] = b[k - (p - 1)]  BY <4>1, <2>3, <2>4, Joined
      <4>3. b[k - (p - 1)] = q[p + (k - (p - 1))]  BY <4>1, <2>4
      <4>4. at(k) = k + 1 /\ k + 1 \in DOMAIN q /\ k + 1 # p  BY <3>1, <3>3, <2>1
      <4> QED  BY <4>1, <4>2, <4>3, <4>4
    <3> QED  BY <3>1, <3>2, <3>3, <2>1
  <2>7. ASSUME Inj(q) PROVE Inj(a \o b) /\ \A k \in DOMAIN (a \o b) : (a \o b)[k] # i
    <3>1. ASSUME NEW k \in DOMAIN (a \o b) PROVE (a \o b)[k] # i
      BY <2>6, <2>7, <2>1 DEF Inj
    <3>2. ASSUME NEW k \in DOMAIN (a \o b), NEW l \in DOMAIN (a \o b), (a \o b)[k] = (a \o b)[l]
          PROVE  k = l
      <4>1. at(k) = at(l)
        <5>1. /\ at(k) \in DOMAIN q /\ (a \o b)[k] = q[at(k)]
              /\ at(l) \in DOMAIN q /\ (a \o b)[l] = q[at(l)]
          BY <2>6
        <5> QED  BY <5>1, <3>2, <2>7 DEF Inj
      <4>2. k \in Nat /\ l \in Nat  BY <2>5
      <4> QED  BY <4>1, <4>2, <2>1
    <3> QED  BY <3>1, <3>2 DEF Inj
  <2>8. \A k \in DOMAIN (a \o b) : \E l \in DOMAIN q : (a \o b)[k] = q[l]  BY <2>6
  <2> QED  BY <2>2, <2>5, <2>7, <2>8
<1> QED  BY <1>1, <1>2

\* A set of positions that is not empty has a last one.
LEMMA LastOf ==
    ASSUME NEW n \in Nat, NEW S \in SUBSET (0..n), S # {}
    PROVE  Max(S) \in S
<1> DEFINE T == {m \in Nat : n - m \in S}
<1>1. PICK k \in S : TRUE  OBVIOUS
<1>2. k \in 0..n /\ n - k \in Nat /\ n - (n - k) = k  OBVIOUS
<1>3. T \in SUBSET Nat /\ T # {}  BY <1>1, <1>2
<1>4. PICK m \in T : \A l \in T : m <= l  BY <1>3, LeastNat
<1>5. m \in Nat /\ n - m \in S  BY <1>4
<1>6. ASSUME NEW y \in S PROVE n - m >= y
  <2>1. y \in 0..n /\ n - y \in Nat /\ n - (n - y) = y  OBVIOUS
  <2>2. n - y \in T  BY <2>1
  <2>3. m <= n - y  BY <1>4, <2>2
  <2> QED  BY <1>5, <2>1, <2>3
<1> QED  BY <1>5, <1>6, MaxIs

\* The streams at the front of a queue that are below another, and the place
\* behind the last of them, are positions of the queue.
LEMMA BelowType ==
    ASSUME NEW q \in Seq(Streams), NEW i
    PROVE  Below(q, i) \in 0..Len(q) /\ Behind(q, i) \in 0..Len(q)
<1> DEFINE S == {k \in 0..Len(q) : \A l \in 1..k : q[l] < i}
           T == {k \in DOMAIN q : q[k] < i}
<1>0. DOMAIN q = 1..Len(q) /\ Len(q) \in Nat  OBVIOUS
<1>1. S \in SUBSET (0..Len(q)) /\ 0 \in S  BY <1>0
<1>2. Max(S) \in S  BY <1>0, <1>1, LastOf
<1>3. CASE T = {}  BY <1>0, <1>1, <1>2, <1>3 DEF Below, Behind
<1>4. CASE T # {}
  <2>1. T \in SUBSET (0..Len(q))  BY <1>0
  <2>2. Max(T) \in T  BY <1>0, <1>4, <2>1, LastOf
  <2>3. Behind(q, i) = Max(T)  BY <1>4 DEF Behind
  <2> QED  BY <1>1, <1>2, <2>1, <2>2, <2>3 DEF Below
<1> QED  BY <1>3, <1>4

\* An element put into a sequence.
LEMMA InsertFacts ==
    ASSUME NEW S, NEW q \in Seq(S), NEW i \in S, NEW j \in 1..(Len(q) + 1)
    PROVE  LET z == InsertAt(q, j, i)
           IN /\ z \in Seq(S)
              /\ \A k \in DOMAIN z : z[k] = i \/ \E l \in DOMAIN q : z[k] = q[l]
              /\ Inj(q) /\ (\A k \in DOMAIN q : q[k] # i) => Inj(z)
<1> DEFINE a == SubSeq(q, 1, j - 1)
           b == SubSeq(q, j, Len(q))
           m == a \o <<i>>
           z == m \o b
<1>1. InsertAt(q, j, i) = z  BY DEF InsertAt
<1>2. /\ a \in Seq(S) /\ Len(a) = j - 1
      /\ \A k \in 1..(j - 1) : a[k] = q[k]
  OBVIOUS
<1>3. /\ b \in Seq(S) /\ Len(b) = Len(q) - j + 1
      /\ \A k \in 1..(Len(q) - j + 1) : b[k] = q[j + k - 1]
  OBVIOUS
<1> HIDE DEF a, b
<1>4. <<i>> \in Seq(S) /\ Len(<<i>>) = 1 /\ <<i>>[1] = i  OBVIOUS
<1>5. /\ m \in Seq(S) /\ Len(m) = j /\ m[j] = i
      /\ \A k \in 1..(j - 1) : m[k] = q[k]
  <2> DEFINE e == <<i>>
  <2>0. e \in Seq(S) /\ Len(e) = 1 /\ e[1] = i  BY <1>4
  <2> HIDE DEF e
  <2>1. /\ a \o e \in Seq(S) /\ Len(a \o e) = Len(a) + Len(e)
        /\ \A k \in 1..Len(a) : (a \o e)[k] = a[k]
        /\ \A k \in 1..Len(e) : (a \o e)[Len(a) + k] = e[k]
    <3>1. a \in Seq(S) /\ e \in Seq(S)  BY <1>2, <2>0
    <3> QED  BY <3>1
  <2>2. m = a \o e  BY DEF m, e
  <2> HIDE DEF m
  <2>3. m[j] = i
    <3>1. 1 \in 1..Len(e) /\ Len(a) + 1 = j  BY <1>2, <2>0
    <3> QED  BY <2>0, <2>1, <2>2, <3>1
  <2>4. Len(m) = j  BY <1>2, <2>0, <2>1, <2>2
  <2> QED  BY <1>2, <2>1, <2>2, <2>3, <2>4
<1> HIDE DEF m
<1>b. /\ m \o b \in Seq(S) /\ Len(m \o b) = Len(m) + Len(b)
      /\ \A k \in 1..Len(m) : (m \o b)[k] = m[k]
      /\ \A k \in 1..Len(b) : (m \o b)[Len(m) + k] = b[k]
  <2>1. m \in Seq(S) /\ b \in Seq(S)  BY <1>3, <1>5
  <2> QED  BY <2>1
<1>6. z \in Seq(S) /\ Len(z) = Len(q) + 1  BY <1>3, <1>5, <1>b
<1>7. ASSUME NEW k \in DOMAIN z
      PROVE  \/ k < j /\ k \in DOMAIN q /\ z[k] = q[k]
             \/ k = j /\ z[k] = i
             \/ k > j /\ k - 1 \in DOMAIN q /\ z[k] = q[k - 1]
  <2>1. k \in 1..(Len(q) + 1)  BY <1>6
  <2>2. CASE k <= j
    <3>1. k \in 1..Len(m)  BY <2>1, <2>2, <1>5
    <3>2. z[k] = m[k]  BY <3>1, <1>b
    <3> QED  BY <3>2, <2>1, <2>2, <1>5
  <2>3. CASE k > j
    <3>1. k - j \in 1..Len(b) /\ Len(m) + (k - j) = k /\ j + (k - j) - 1 = k - 1
      <4>1. Len(b) = Len(q) - j + 1 /\ Len(m) = j /\ Len(q) \in Nat /\ j \in Nat
        BY <1>3, <1>5
      <4> QED  BY <4>1, <2>1, <2>3
    <3>2. z[Len(m) + (k - j)] = b[k - j]  BY <3>1, <1>b
    <3>3. z[k] = b[k - j]  BY <3>1, <3>2
    <3>4. k - 1 \in DOMAIN q  BY <2>1, <2>3
    <3>5. k - j \in 1..(Len(q) - j + 1)  BY <3>1, <1>3
    <3>6. b[k - j] = q[j + (k - j) - 1]  BY <3>5, <1>3
    <3> QED  BY <3>1, <3>3, <3>4, <3>6, <2>3
  <2> QED  BY <2>1, <2>2, <2>3
<1> HIDE DEF z
<1>8. ASSUME Inj(q), \A k \in DOMAIN q : q[k] # i PROVE Inj(z)
  <2> SUFFICES ASSUME NEW k \in DOMAIN z, NEW l \in DOMAIN z, z[k] = z[l]
               PROVE  k = l
    BY DEF Inj
  <2>1. k \in Nat /\ l \in Nat  BY <1>6
  <2>2. \/ k < j /\ k \in DOMAIN q /\ z[k] = q[k]
        \/ k = j /\ z[k] = i
        \/ k > j /\ k - 1 \in DOMAIN q /\ z[k] = q[k - 1]
    BY <1>7
  <2>3. \/ l < j /\ l \in DOMAIN q /\ z[l] = q[l]
        \/ l = j /\ z[l] = i
        \/ l > j /\ l - 1 \in DOMAIN q /\ z[l] = q[l - 1]
    BY <1>7
  <2> QED  BY <2>1, <2>2, <2>3, <1>8 DEF Inj
<1> QED  BY <1>1, <1>6, <1>7, <1>8

----------------------------------------------------------------------------
(* Good: what holds of a connection between the small steps of a handler   *)
(* that the socket lock protects, for a wire w that the handler found.      *)

OutType == CtlType \cup RespType

Told(d) == ReadyToSend(d) \/ d.wq # <<>> => d.has

Good(d, w, o) ==
    /\ d \in ConnType /\ w \in WireType /\ o \in Seq(OutType) /\ d.up
    /\ Core(d, w, o) /\ Told(d)

\* No response for the stream is on its way.
NoResp(o, i) == \A k \in DOMAIN o : o[k].ty = "resp" => o[k].i # i

\* What no step of the receive path changes but the handlers of settings,
\* windows and new streams.
Fixed(d, e) ==
    /\ e.wnd = d.wnd /\ e.init = d.init /\ e.new = d.new /\ e.need = d.need
    /\ e.has = d.has /\ e.wq = d.wq /\ e.up = d.up /\ e.last = d.last

\* A stream keeps what it has to send; it may move towards its end and lose
\* its request.
Kept(r, q) ==
    /\ q.wnd = r.wnd /\ q.resp = r.resp /\ q.xs = r.xs /\ q.h = r.h /\ q.b = r.b
    /\ q.t = r.t /\ q.blk = r.blk /\ q.tail = r.tail /\ q.post = r.post
    /\ q.req \in {"no", r.req}
    /\ q.st \in Live => r.st \in Live
    /\ q.st \in {"IDLE", "OPENED"} => r.st \in {"IDLE", "OPENED"}

\* A step that only takes from the connection: streams are freed or come
\* closer to their end.
Shrinks(d, e) ==
    /\ e \in ConnType /\ Fixed(d, e)
    /\ e.tree \subseteq d.tree /\ e.curS \in {0, d.curS}
    /\ \A i \in Streams : \/ e.s[i] = NewStream(0) /\ i \notin e.tree
                          \/ Kept(d.s[i], e.s[i])
    /\ e.curS # 0 => e.curS \in e.tree /\ e.s[e.curS].st = d.s[e.curS].st

\* A new stream has nothing to send.
LEMMA NewStreamFacts ==
    ASSUME NEW v \in Int
    PROVE  /\ NewStream(v) \in StreamType /\ Transmits(NewStream(v))
           /\ ~Active(NewStream(v)) /\ NewStream(v).xs = "no" /\ NewStream(v).req = "no"
           /\ NewStream(v).st = "IDLE" /\ NewStream(v).wnd = v
BY DEF NewStream, StreamType, States, Transmits, Active, HasSkb

\* Such a step keeps the invariant.
LEMMA ShrinksGood ==
    ASSUME NEW d, NEW e, NEW w, NEW o, Good(d, w, o), Shrinks(d, e), IdleInv(e)
    PROVE  Good(e, w, o)
<1>0. /\ d \in ConnType /\ e \in ConnType /\ w \in WireType /\ o \in Seq(OutType)
      /\ Fixed(d, e)
  BY DEF Good, Shrinks
<1>s. ASSUME NEW i \in Streams
      PROVE  \/ e.s[i] = NewStream(0) /\ i \notin e.tree
             \/ Kept(d.s[i], e.s[i])
  BY DEF Shrinks
<1>t. e.tree \subseteq d.tree /\ d.tree \subseteq Streams  BY <1>0 DEF Shrinks, ConnType
<1>n. /\ Transmits(NewStream(0)) /\ ~Active(NewStream(0)) /\ NewStream(0).xs = "no"
      /\ NewStream(0).req = "no"
  BY NewStreamFacts
<1>c. e.curS # 0 => /\ e.curS = d.curS /\ e.curS \in e.tree /\ e.curS \in Streams
                    /\ e.s[e.curS].st = d.s[e.curS].st
                    /\ Kept(d.s[e.curS], e.s[e.curS])
  BY <1>s, <1>t DEF Shrinks
<1>1. ASSUME NEW i \in Streams PROVE Transmits(e.s[i])
  <2>1. CASE e.s[i] = NewStream(0)  BY <2>1, <1>n
  <2>2. CASE Kept(d.s[i], e.s[i])
    <3>1. Transmits(d.s[i])  BY DEF Good, Core
    <3>2. d.s[i] \in StreamType /\ e.s[i] \in StreamType  BY <1>0 DEF ConnType
    <3> QED  BY <3>1, <3>2, <2>2 DEF Transmits, Kept, HasSkb, StreamType
  <2> QED  BY <2>1, <2>2, <1>s
<1>2. CurInv(e)
  BY <1>0, <1>c DEF Good, Core, CurInv, Kept, Fixed
<1>3. OutInv(e, o)
  <2>0. OutInv(d, o)  BY <1>0 DEF Good, Core
  <2>2. ASSUME NEW k \in DOMAIN o, o[k].ty = "resp", o[k].i \in e.tree PROVE Waits(e.s[o[k].i])
    <3>1. o[k].i \in d.tree /\ o[k].i \in Streams  BY <2>2, <1>t
    <3>2. Waits(d.s[o[k].i])  BY <2>0, <2>2, <3>1 DEF OutInv
    <3>3. Kept(d.s[o[k].i], e.s[o[k].i])  BY <3>1, <1>s, <2>2
    <3> QED  BY <3>2, <3>3 DEF Waits, Kept
  <2> QED  BY <2>0, <2>2 DEF OutInv
<1>4. WinInv(e, w)
  <2>0. WinInv(d, w) /\ e.wnd = d.wnd /\ e.init = d.init
    BY <1>0 DEF Good, Core, Fixed
  <2>1. ASSUME NEW i \in e.tree \ w.stale, e.s[i].st \in Live
        PROVE  w.view[i] = e.s[i].wnd + w.cinit - e.init
    BY <2>0, <2>1, <1>s, <1>t DEF WinInv, Kept
  <2> QED  BY <2>0, <2>1 DEF WinInv
<1>5. BlockInv(e, w)
  BY DEF Good, Core, BlockInv, Shrinks
<1>6. AckInv(e, w, o)
  <2> SUFFICES ASSUME e.need, ~w.cut, e.curS = w.blk
               PROVE  Msg("ack", 0) \in ToSet(o) \cup ToSet(e.wq) \cup
                          (IF e.curS = 0 THEN {} ELSE ToSet(e.s[e.curS].post))
    BY DEF AckInv
  <2>1. d.curS = e.curS
    BY DEF Good, Core, BlockInv, Shrinks
  <2>2. Msg("ack", 0) \in ToSet(o) \cup ToSet(d.wq) \cup
                          (IF d.curS = 0 THEN {} ELSE ToSet(d.s[d.curS].post))
    BY <1>0, <2>1 DEF Good, Core, AckInv, Fixed
  <2>3. e.wq = d.wq  BY <1>0 DEF Fixed
  <2>4. e.curS # 0 => e.s[e.curS].post = d.s[d.curS].post  BY <1>c DEF Kept
  <2> QED  BY <2>1, <2>2, <2>3, <2>4
<1>7. Told(e)
  <2>1. ASSUME NEW i \in ActiveStreams(e) PROVE i \in ActiveStreams(d)
    <3>1. i \in e.tree /\ Active(e.s[i]) /\ i \in Streams /\ i \in d.tree
      BY <1>t DEF ActiveStreams
    <3>2. Kept(d.s[i], e.s[i])  BY <3>1, <1>s
    <3> QED  BY <3>1, <3>2 DEF ActiveStreams, Active, HasSkb, Kept
  <2>2. ReadyToSend(e) => ReadyToSend(d)  BY <2>1, <1>0 DEF ReadyToSend, Fixed
  <2> QED  BY <2>2, <1>0 DEF Told, Good, Fixed
<1>8. e.up  BY <1>0 DEF Good, Fixed
<1>9. IdleInv(e)  OBVIOUS
<1>10. Core(e, w, o)  BY <1>1, <1>2, <1>3, <1>4, <1>5, <1>6, <1>9 DEF Core
<1> QED  BY <1>0, <1>10, <1>7, <1>8 DEF Good

----------------------------------------------------------------------------
(* The state machine of a stream on the receive path, and for RST_STREAM.   *)

\* The state machine moves the state of one stream.
Moved(d, i, e) ==
    /\ e \in ConnType /\ Fixed(d, e)
    /\ e.tree = d.tree /\ e.closed = d.closed /\ e.idle = d.idle /\ e.curS = d.curS
    /\ \A j \in Streams \ {i} : e.s[j] = d.s[j]
    /\ Kept(d.s[i], e.s[i]) /\ e.s[i].req = d.s[i].req

Types == {"HEADERS", "CONT", "DATA", "RST", "PRIORITY", "WINDOW_UPDATE"}

\* One stream is written.
LEMMA PutStream ==
    ASSUME NEW d \in ConnType, NEW i \in Streams, NEW r \in StreamType
    PROVE  LET e == [d EXCEPT !.s[i] = r]
           IN /\ e \in ConnType /\ Fixed(d, e) /\ e.res = d.res
              /\ e.tree = d.tree /\ e.closed = d.closed /\ e.idle = d.idle
              /\ e.curS = d.curS /\ e.curR = d.curR
              /\ e.s[i] = r /\ \A j \in Streams \ {i} : e.s[j] = d.s[j]
BY DEF ConnType, Fixed

\* Only the result is set.
LEMMA ResMoved ==
    ASSUME NEW d \in ConnType, NEW i \in Streams,
           NEW r \in {"OK", "IGNORE", "TERM_STREAM", "TERM_CONN"}
    PROVE  Moved(d, i, Res(d, r)) /\ Res(d, r).res = r /\ Res(d, r).s = d.s
BY DEF Moved, Res, ConnType, Fixed, Kept

\* The state is set.
LEMMA StateMoved ==
    ASSUME NEW d \in ConnType, NEW i \in Streams, NEW st \in States,
           st \in Live => d.s[i].st \in Live,
           st \in {"IDLE", "OPENED"} => d.s[i].st \in {"IDLE", "OPENED"}
    PROVE  Moved(d, i, SetState(d, i, st)) /\ SetState(d, i, st).s[i].st = st
<1> DEFINE r == [d.s[i] EXCEPT !.st = st]
<1>0. d.s[i] \in StreamType  BY DEF ConnType
<1>1. r \in StreamType /\ r.st = st /\ Kept(d.s[i], r) /\ r.req = d.s[i].req
  BY <1>0 DEF StreamType, Kept
<1>2. SetState(d, i, st) = [d EXCEPT !.s[i] = r]  BY DEF SetState
<1> HIDE DEF r
<1> QED  BY <1>1, <1>2, PutStream DEF Moved

\* Steps of one stream follow each other.
LEMMA MovedTrans ==
    ASSUME NEW d, NEW e, NEW g, NEW i, Moved(d, i, e), Moved(e, i, g)
    PROVE  Moved(d, i, g)
BY DEF Moved, Kept, Fixed

\* The state is set and the frame accepted.
LEMMA GoMoved ==
    ASSUME NEW d \in ConnType, NEW i \in Streams, NEW st \in States,
           st \in Live => d.s[i].st \in Live,
           st \in {"IDLE", "OPENED"} => d.s[i].st \in {"IDLE", "OPENED"}
    PROVE  Moved(d, i, Go(d, i, st)) /\ Go(d, i, st).s[i].st = st /\ Go(d, i, st).res = "OK"
<1> DEFINE e == SetState(d, i, st)
<1>1. Moved(d, i, e) /\ e.s[i].st = st  BY StateMoved
<1> HIDE DEF e
<1>2. Moved(e, i, Res(e, "OK")) /\ Res(e, "OK").res = "OK" /\ Res(e, "OK").s = e.s
  BY <1>1, ResMoved DEF Moved
<1> QED  BY <1>1, <1>2, MovedTrans DEF Go, e

\* The stream whose headers are received is set.
LEMMA CurMoved ==
    ASSUME NEW d \in ConnType, NEW i \in Streams, NEW j \in Streams \cup {0}
    PROVE  /\ Moved(d, i, SetCur(d, FALSE, j)) /\ SetCur(d, FALSE, j).s = d.s
           /\ SetCur(d, FALSE, j).res = d.res
BY DEF Moved, SetCur, ConnType, Fixed, Kept

\* END_STREAM was received.
LEMMA EosMoved ==
    ASSUME NEW d \in ConnType, NEW i \in Streams, NEW b \in BOOLEAN
    PROVE  LET e == [d EXCEPT !.s[i].eosR = b]
           IN Moved(d, i, e) /\ e.s[i].st = d.s[i].st /\ e.res = d.res
<1> DEFINE r == [d.s[i] EXCEPT !.eosR = b]
<1>0. d.s[i] \in StreamType  BY DEF ConnType
<1>1. r \in StreamType /\ r.st = d.s[i].st /\ Kept(d.s[i], r) /\ r.req = d.s[i].req
  BY <1>0 DEF StreamType, Kept
<1> DEFINE e == [d EXCEPT !.s[i].eosR = b]
<1>2. e = [d EXCEPT !.s[i] = r]  OBVIOUS
<1> HIDE DEF r, e
<1>3. Moved(d, i, e) /\ e.s[i].st = d.s[i].st /\ e.res = d.res
  BY <1>1, <1>2, PutStream DEF Moved
<1> QED  BY <1>3 DEF e

\* What the state machine may do to a stream when a frame is received.
Accepts(d, i, ty, e) ==
    /\ Moved(d, i, e)
    /\ d.s[i].st = "IDLE" /\ e.s[i].st # "IDLE" => ty = "HEADERS"
    /\ d.s[i].st = "REM_HALF_CLOSED" /\ e.s[i].st # d.s[i].st =>
          ty = "RST" \/ e.res = "TERM_STREAM"
    /\ e.res = "OK" /\ ty \in {"HEADERS", "CONT", "DATA"} =>
          d.s[i].st \in {"IDLE", "OPENED"} /\ e.s[i].st \in {"OPENED", "REM_HALF_CLOSED"}
    /\ e.res = "OK" /\ ty = "RST" => d.s[i].st # "IDLE" /\ e.s[i].st \notin Live
    /\ e.res = "TERM_STREAM" => ty \in {"HEADERS", "CONT", "DATA"}

\* A stream that is idle.
LEMMA IdleAccepts ==
    ASSUME NEW d \in ConnType, NEW i \in Streams, NEW ty \in Types, NEW f, NEW send \in BOOLEAN,
           ~send \/ ty = "RST", d.s[i].st = "IDLE"
    PROVE  Accepts(d, i, ty, IdleFsm(d, i, ty, f, send))
<1> DEFINE e == IdleFsm(d, i, ty, f, send)
<1>1. CASE ty = "HEADERS" /\ {"EH", "ES"} \subseteq f
  <2>1. e = Go(d, i, "REM_HALF_CLOSED")  BY <1>1 DEF IdleFsm
  <2> QED  BY <1>1, <2>1, GoMoved DEF Accepts, States, Live
<1>2. CASE ty = "HEADERS" /\ "EH" \in f /\ "ES" \notin f
  <2>1. e = Go(d, i, "OPENED")  BY <1>2 DEF IdleFsm
  <2> QED  BY <1>2, <2>1, GoMoved DEF Accepts, States, Live
<1>3. CASE ty = "HEADERS" /\ "EH" \notin f
  <2> DEFINE g == Go(d, i, "OPENED")
             h == SetCur(g, FALSE, i)
             b == h.s[i].eosR \/ "ES" \in f
  <2>1. e = [h EXCEPT !.s[i].eosR = b]  BY <1>3 DEF IdleFsm
  <2> HIDE DEF e
  <2>2. Moved(d, i, g) /\ g.s[i].st = "OPENED" /\ g.res = "OK"
    BY GoMoved DEF States, Live
  <2> HIDE DEF g
  <2>3. Moved(g, i, h) /\ h.s = g.s /\ h.res = g.res  BY <2>2, CurMoved DEF Moved
  <2> HIDE DEF h
  <2>4. Moved(h, i, e) /\ e.s[i].st = h.s[i].st /\ e.res = h.res
    <3>1. h \in ConnType /\ b \in BOOLEAN  BY <2>3 DEF Moved
    <3> HIDE DEF b
    <3> QED  BY <2>1, <3>1, EosMoved
  <2>5. Moved(d, i, e)  BY <2>2, <2>3, <2>4, MovedTrans
  <2>6. e.s[i].st = "OPENED" /\ e.res = "OK"  BY <2>2, <2>3, <2>4
  <2>7. Accepts(d, i, ty, e)  BY <1>3, <2>5, <2>6 DEF Accepts
  <2> QED  BY <2>7 DEF e
<1>4. CASE ty = "PRIORITY"
  <2>1. e = Res(d, "OK")  BY <1>4 DEF IdleFsm
  <2> QED  BY <1>4, <2>1, ResMoved DEF Accepts
<1>5. CASE ty \notin {"HEADERS", "PRIORITY"}
  <2>1. e = Res(d, "TERM_CONN")  BY <1>5 DEF IdleFsm
  <2> QED  BY <1>5, <2>1, ResMoved DEF Accepts
<1>6. \/ {"EH", "ES"} \subseteq f \/ ("EH" \in f /\ "ES" \notin f) \/ "EH" \notin f  OBVIOUS
<1> QED  BY <1>1, <1>2, <1>3, <1>4, <1>5, <1>6

\* A stream whose request is being received.
LEMMA OpenedAccepts ==
    ASSUME NEW d \in ConnType, NEW i \in Streams, NEW ty \in Types, NEW f, NEW send \in BOOLEAN,
           ~send \/ ty = "RST", d.s[i].st = "OPENED"
    PROVE  Accepts(d, i, ty, OpenedFsm(d, i, ty, f, send))
<1> DEFINE e == OpenedFsm(d, i, ty, f, send)
<1>1. CASE ty = "RST"
  <2>1. e = Go(d, i, IF send THEN "LOC_CLOSED" ELSE "CLOSED")  BY <1>1 DEF OpenedFsm
  <2> QED  BY <1>1, <2>1, GoMoved DEF Accepts, States, Live
<1>2. CASE \/ ty = "CONT" /\ "EMPTY" \in f /\ "EH" \notin f
           \/ ty = "DATA" /\ "EMPTY" \in f /\ "ES" \notin f
  <2>1. e = Res(d, "TERM_CONN")  BY <1>2 DEF OpenedFsm
  <2> QED  BY <1>2, <2>1, ResMoved DEF Accepts
<1>3. CASE ty = "CONT" /\ "EH" \in f
  <2> DEFINE g == IF d.s[i].eosR THEN Go(d, i, "REM_HALF_CLOSED") ELSE Res(d, "OK")
  <2>1. e = SetCur(g, FALSE, 0)  BY <1>3 DEF OpenedFsm
  <2> HIDE DEF e
  <2>2. Moved(d, i, g) /\ g.s[i].st \in {"OPENED", "REM_HALF_CLOSED"} /\ g.res = "OK"
    BY GoMoved, ResMoved DEF States, Live
  <2> HIDE DEF g
  <2>c. g \in ConnType  BY <2>2 DEF Moved
  <2>3. Moved(g, i, e) /\ e.s = g.s /\ e.res = g.res  BY <2>1, <2>c, CurMoved
  <2>4. Accepts(d, i, ty, e)  BY <1>3, <2>2, <2>3, MovedTrans DEF Accepts
  <2> QED  BY <2>4 DEF e
<1>4. CASE ty = "HEADERS" /\ {"EH", "ES"} \subseteq f
  <2> DEFINE g == Go(d, i, "REM_HALF_CLOSED")
             h == SetCur(g, FALSE, 0)
  <2>1. e = [h EXCEPT !.s[i].eosR = TRUE]  BY <1>4 DEF OpenedFsm
  <2> HIDE DEF e
  <2>2. Moved(d, i, g) /\ g.s[i].st = "REM_HALF_CLOSED" /\ g.res = "OK"
    BY GoMoved DEF States, Live
  <2> HIDE DEF g
  <2>3. Moved(g, i, h) /\ h.s = g.s /\ h.res = g.res  BY <2>2, CurMoved DEF Moved
  <2> HIDE DEF h
  <2>4. Moved(h, i, e) /\ e.s[i].st = h.s[i].st /\ e.res = h.res
    BY <2>1, <2>3, EosMoved, ZenonT(60) DEF Moved
  <2>5. Moved(d, i, e)  BY <2>2, <2>3, <2>4, MovedTrans
  <2>6. e.s[i].st = "REM_HALF_CLOSED" /\ e.res = "OK"  BY <2>2, <2>3, <2>4
  <2>7. Accepts(d, i, ty, e)  BY <1>4, <2>5, <2>6 DEF Accepts
  <2> QED  BY <2>7 DEF e
<1>5. CASE \/ ty = "HEADERS" /\ ~({"EH", "ES"} \subseteq f)
           \/ ty = "CONT" /\ f \cap {"EH", "EMPTY"} = {}
  <2> DEFINE g == Res(d, "OK")
             h == SetCur(g, FALSE, i)
             b == h.s[i].eosR \/ (ty = "HEADERS" /\ "ES" \in f)
  <2>1. e = [h EXCEPT !.s[i].eosR = b]  BY <1>5 DEF OpenedFsm
  <2> HIDE DEF e
  <2>2. Moved(d, i, g) /\ g.s = d.s /\ g.res = "OK"  BY ResMoved
  <2> HIDE DEF g
  <2>3. Moved(g, i, h) /\ h.s = g.s /\ h.res = g.res  BY <2>2, CurMoved DEF Moved
  <2> HIDE DEF h
  <2>4. Moved(h, i, e) /\ e.s[i].st = h.s[i].st /\ e.res = h.res
    <3>1. h \in ConnType /\ b \in BOOLEAN  BY <2>3 DEF Moved
    <3> HIDE DEF b
    <3> QED  BY <2>1, <3>1, EosMoved
  <2>5. Moved(d, i, e)  BY <2>2, <2>3, <2>4, MovedTrans
  <2>6. e.s[i].st = "OPENED" /\ e.res = "OK"  BY <2>2, <2>3, <2>4
  <2>7. Accepts(d, i, ty, e)  BY <1>5, <2>5, <2>6 DEF Accepts
  <2> QED  BY <2>7 DEF e
<1>6. CASE ty = "DATA" /\ "ES" \in f
  <2>1. e = Go(d, i, "REM_HALF_CLOSED")  BY <1>6 DEF OpenedFsm
  <2> QED  BY <1>6, <2>1, GoMoved DEF Accepts, States, Live
<1>7. CASE \/ ty = "DATA" /\ "EMPTY" \notin f /\ "ES" \notin f
           \/ ty \in {"PRIORITY", "WINDOW_UPDATE"}
  <2>1. e = Res(d, "OK")  BY <1>7 DEF OpenedFsm
  <2> QED  BY <1>7, <2>1, ResMoved DEF Accepts
<1> QED  BY <1>1, <1>2, <1>3, <1>4, <1>5, <1>6, <1>7 DEF Types

\* A stream whose request is complete, or that is closed by one side or both.
LEMMA LateAccepts ==
    ASSUME NEW d \in ConnType, NEW i \in Streams, NEW ty \in Types, NEW f, NEW send \in BOOLEAN,
           ~send \/ ty = "RST"
    PROVE  /\ d.s[i].st = "REM_HALF_CLOSED" =>
                 Accepts(d, i, ty, RemHalfClosedFsm(d, i, ty, f, send))
           /\ d.s[i].st = "LOC_CLOSED" => Accepts(d, i, ty, LocClosedFsm(d, i, ty, send))
           /\ d.s[i].st = "CLOSED" => Accepts(d, i, ty, ClosedFsm(d, ty, send))
<1>1. ASSUME d.s[i].st = "REM_HALF_CLOSED"
      PROVE  Accepts(d, i, ty, RemHalfClosedFsm(d, i, ty, f, send))
  <2> DEFINE e == RemHalfClosedFsm(d, i, ty, f, send)
  <2>1. CASE ty = "RST"
    <3>1. e = Go(d, i, "CLOSED")  BY <2>1 DEF RemHalfClosedFsm
    <3> QED  BY <1>1, <2>1, <3>1, GoMoved DEF Accepts, States, Live
  <2>2. CASE ty \in {"PRIORITY", "WINDOW_UPDATE"}
    <3>1. e = Res(d, "OK")  BY <2>2 DEF RemHalfClosedFsm
    <3> QED  BY <1>1, <2>2, <3>1, ResMoved DEF Accepts
  <2>3. CASE ty \in {"HEADERS", "CONT", "DATA"}
    <3> DEFINE g == SetState(d, i, "CLOSED")
    <3>1. e = Res(g, "TERM_STREAM")  BY <2>3 DEF RemHalfClosedFsm
    <3>2. Moved(d, i, g) /\ g.s[i].st = "CLOSED"  BY <1>1, StateMoved DEF States, Live
    <3> HIDE DEF g
    <3>3. Moved(g, i, e) /\ e.res = "TERM_STREAM" /\ e.s = g.s  BY <3>1, <3>2, ResMoved DEF Moved
    <3> HIDE DEF e
    <3>4. Accepts(d, i, ty, e)  BY <1>1, <2>3, <3>2, <3>3, MovedTrans DEF Accepts
    <3> QED  BY <3>4 DEF e
  <2> QED  BY <2>1, <2>2, <2>3 DEF Types
<1>2. ASSUME d.s[i].st = "LOC_CLOSED" PROVE Accepts(d, i, ty, LocClosedFsm(d, i, ty, send))
  <2> DEFINE e == LocClosedFsm(d, i, ty, send)
  <2>1. CASE ~send /\ ty = "RST"
    <3>1. e = Go(d, i, "CLOSED")  BY <2>1 DEF LocClosedFsm
    <3> QED  BY <1>2, <2>1, <3>1, GoMoved DEF Accepts, States, Live
  <2>2. CASE ~send /\ ty = "WINDOW_UPDATE"
    <3>1. e = Res(d, "OK")  BY <2>2 DEF LocClosedFsm
    <3> QED  BY <1>2, <2>2, <3>1, ResMoved DEF Accepts
  <2>3. CASE send \/ ty \notin {"RST", "WINDOW_UPDATE"}
    <3>1. e = Res(d, "IGNORE")  BY <2>3 DEF LocClosedFsm
    <3> QED  BY <1>2, <2>3, <3>1, ResMoved DEF Accepts
  <2> QED  BY <2>1, <2>2, <2>3
<1>3. ASSUME d.s[i].st = "CLOSED" PROVE Accepts(d, i, ty, ClosedFsm(d, ty, send))
  <2> DEFINE e == ClosedFsm(d, ty, send)
  <2>1. CASE send
    <3>1. e = Res(d, "IGNORE")  BY <2>1 DEF ClosedFsm
    <3> QED  BY <1>3, <2>1, <3>1, ResMoved DEF Accepts
  <2>2. CASE ~send /\ ty = "PRIORITY"
    <3>1. e = Res(d, "OK")  BY <2>2 DEF ClosedFsm
    <3> QED  BY <1>3, <2>2, <3>1, ResMoved DEF Accepts
  <2>3. CASE ~send /\ ty # "PRIORITY"
    <3>1. e = Res(d, "TERM_CONN")  BY <2>3 DEF ClosedFsm
    <3> QED  BY <1>3, <2>3, <3>1, ResMoved DEF Accepts
  <2> QED  BY <2>1, <2>2, <2>3
<1> QED  BY <1>1, <1>2, <1>3

\* The pointers of the connection to a stream are reset.
LEMMA ResetFields ==
    ASSUME NEW d \in ConnType, NEW i \in Streams
    PROVE  LET e == ResetOnClose(d, i)
           IN /\ e \in ConnType /\ Fixed(d, e) /\ e.res = d.res /\ e.s = d.s
              /\ e.tree = d.tree /\ e.closed = d.closed /\ e.idle = d.idle
              /\ e.curS \in {0, d.curS} /\ e.curS # i /\ (d.curS # i => e.curS = d.curS)
<1>1. d.curS \in Streams \cup {0} /\ d.curR \in Streams \cup {0} /\ i # 0
  BY StreamsNat DEF ConnType
<1> QED  BY <1>1 DEF ResetOnClose, ConnType, Fixed

\* What the state machine makes of a connection when a frame is received, or
\* when RST_STREAM is sent.
FsmResult(d, w, o, i, ty, e) ==
    /\ Good(e, w, o) /\ Fixed(d, e)
    /\ e.tree = d.tree /\ e.closed = d.closed /\ e.idle = d.idle
    /\ Kept(d.s[i], e.s[i]) /\ e.s[i].req = d.s[i].req
    /\ \A j \in Streams \ {i} : e.s[j] = d.s[j]
    /\ e.res = "OK" /\ ty \in {"HEADERS", "CONT", "DATA"} =>
          /\ d.s[i].st \in {"IDLE", "OPENED"}
          /\ e.s[i].st \in {"OPENED", "REM_HALF_CLOSED"}
    /\ e.res = "OK" /\ ty = "RST" =>
          e.s[i].st \notin Live /\ \A k \in DOMAIN e.idle : e.idle[k] # i
    /\ e.res = "TERM_STREAM" => ty \in {"HEADERS", "CONT", "DATA"}

\* tfw_h2_stream_fsm() for a frame that is received, and for RST_STREAM.
LEMMA FsmGood ==
    ASSUME NEW d, NEW w, NEW o, Good(d, w, o), NEW i \in Streams, NEW ty \in Types, NEW f,
           NEW send \in BOOLEAN, ~send \/ ty = "RST",
           ty = "HEADERS" => \A k \in DOMAIN d.idle : d.idle[k] # i,
           NEW e, e = Fsm(d, i, ty, f, send)
    PROVE  FsmResult(d, w, o, i, ty, e)
<1> DEFINE g == IF BadBlock(d, i, ty, send) THEN Res(d, "TERM_CONN")
                ELSE StateFsm(d, i, ty, f, send)
<1>0. d \in ConnType /\ d.s[i] \in StreamType  BY DEF Good, ConnType
<1>1. Accepts(d, i, ty, g)
  <2>1. CASE BadBlock(d, i, ty, send)
    <3>1. g = Res(d, "TERM_CONN")  BY <2>1
    <3> HIDE DEF g
    <3> QED  BY <1>0, <3>1, ResMoved DEF Accepts
  <2>2. CASE ~BadBlock(d, i, ty, send)
    <3>1. g = StateFsm(d, i, ty, f, send)  BY <2>2
    <3> HIDE DEF g
    <3>2. CASE d.s[i].st = "IDLE"
      <4>1. g = IdleFsm(d, i, ty, f, send)  BY <3>1, <3>2 DEF StateFsm
      <4> QED  BY <1>0, <3>2, <4>1, IdleAccepts
    <3>3. CASE d.s[i].st = "OPENED"
      <4>1. g = OpenedFsm(d, i, ty, f, send)  BY <3>1, <3>3 DEF StateFsm
      <4> QED  BY <1>0, <3>3, <4>1, OpenedAccepts
    <3>4. CASE d.s[i].st = "REM_HALF_CLOSED"
      <4>1. g = RemHalfClosedFsm(d, i, ty, f, send)  BY <3>1, <3>4 DEF StateFsm
      <4> QED  BY <1>0, <3>4, <4>1, LateAccepts
    <3>5. CASE d.s[i].st = "LOC_CLOSED"
      <4>1. g = LocClosedFsm(d, i, ty, send)  BY <3>1, <3>5 DEF StateFsm
      <4> QED  BY <1>0, <3>5, <4>1, LateAccepts
    <3>6. CASE d.s[i].st = "CLOSED"
      <4>1. g = ClosedFsm(d, ty, send)  BY <3>1, <3>6 DEF StateFsm
      <4> QED  BY <1>0, <3>6, <4>1, LateAccepts
    <3>7. d.s[i].st \in {"IDLE", "OPENED", "REM_HALF_CLOSED", "LOC_CLOSED", "CLOSED"}
      BY <1>0 DEF StreamType, States
    <3> QED  BY <3>2, <3>3, <3>4, <3>5, <3>6, <3>7
  <2> QED  BY <2>1, <2>2
<1>2. e = IF ty = "RST" \/ g.res = "TERM_STREAM" THEN ResetOnClose(g, i) ELSE g
  BY DEF Fsm
<1> HIDE DEF g
<1>3. Moved(d, i, g) /\ g \in ConnType  BY <1>1 DEF Accepts, Moved
<1>4. /\ e \in ConnType /\ Fixed(g, e) /\ e.s = g.s /\ e.res = g.res
      /\ e.tree = g.tree /\ e.closed = g.closed /\ e.idle = g.idle
      /\ e.curS \in {0, g.curS}
      /\ ty = "RST" \/ g.res = "TERM_STREAM" => e.curS # i
  <2>1. CASE ty = "RST" \/ g.res = "TERM_STREAM"
    <3>1. e = ResetOnClose(g, i)  BY <1>2, <2>1
    <3> QED  BY <1>3, <3>1, ResetFields
  <2>2. CASE ~(ty = "RST" \/ g.res = "TERM_STREAM")
    BY <1>2, <1>3, <2>2 DEF Fixed
  <2> QED  BY <2>1, <2>2
<1>5. /\ Fixed(d, e) /\ e.tree = d.tree /\ e.closed = d.closed /\ e.idle = d.idle
      /\ e.curS \in {0, d.curS}
      /\ \A j \in Streams \ {i} : e.s[j] = d.s[j]
      /\ Kept(d.s[i], e.s[i]) /\ e.s[i].req = d.s[i].req
  BY <1>3, <1>4 DEF Moved, Fixed
<1>6. ASSUME d.s[i].st = "IDLE", e.s[i].st # "IDLE" PROVE ty = "HEADERS"
  BY <1>6, <1>1, <1>4 DEF Accepts
<1>7. ASSUME e.curS # 0 PROVE e.curS \in e.tree /\ e.s[e.curS].st = d.s[e.curS].st
  <2>1. e.curS = d.curS /\ d.curS \in d.tree /\ d.s[d.curS].st = "REM_HALF_CLOSED" /\ d.curS \in Streams
    BY <1>5, <1>7 DEF Good, Core, CurInv, ConnType
  <2>2. CASE e.curS # i  BY <2>1, <2>2, <1>5
  <2>3. CASE e.curS = i
    BY <2>1, <2>3, <1>1, <1>4, <1>5 DEF Accepts
  <2> QED  BY <2>2, <2>3
<1>8. Shrinks(d, e)
  <2>1. ASSUME NEW j \in Streams PROVE Kept(d.s[j], e.s[j])
    <3>1. CASE j = i  BY <3>1, <1>5
    <3>2. CASE j # i
      <4>1. e.s[j] = d.s[j]  BY <3>2, <1>5
      <4> QED  BY <4>1 DEF Kept
    <3> QED  BY <3>1, <3>2
  <2> QED  BY <1>4, <1>5, <1>7, <2>1 DEF Shrinks
<1>9. IdleInv(e)
  <2>1. IdleInv(d)  BY <1>5 DEF Good, Core
  <2>2. ASSUME NEW k \in DOMAIN e.idle PROVE e.s[e.idle[k]].st = "IDLE"
    <3>1. d.idle[k] \in Streams /\ d.s[d.idle[k]].st = "IDLE"  BY <2>1, <1>5, <1>0 DEF IdleInv, ConnType
    <3>2. CASE d.idle[k] = i  BY <3>1, <3>2, <1>5, <1>6
    <3>3. CASE d.idle[k] # i  BY <3>1, <3>3, <1>5
    <3> QED  BY <3>2, <3>3
  <2> QED  BY <2>1, <2>2, <1>5 DEF IdleInv
<1>10. Good(e, w, o)  BY <1>8, <1>9, ShrinksGood
<1>11. ASSUME e.res = "OK", ty \in {"HEADERS", "CONT", "DATA"}
       PROVE  d.s[i].st \in {"IDLE", "OPENED"} /\ e.s[i].st \in {"OPENED", "REM_HALF_CLOSED"}
  BY <1>1, <1>4, <1>11 DEF Accepts
<1>12. ASSUME e.res = "OK", ty = "RST", NEW k \in DOMAIN e.idle PROVE e.idle[k] # i
  <2>1. d.s[i].st # "IDLE"  BY <1>1, <1>4, <1>12 DEF Accepts
  <2> QED  BY <2>1, <1>5, <1>12 DEF Good, Core, IdleInv
<1>14. ASSUME e.res = "OK", ty = "RST" PROVE e.s[i].st \notin Live
  BY <1>1, <1>4, <1>14 DEF Accepts
<1>15. e.res = "TERM_STREAM" => ty \in {"HEADERS", "CONT", "DATA"}
  BY <1>1, <1>4 DEF Accepts
<1>13. /\ Good(e, w, o) /\ Fixed(d, e)
       /\ e.tree = d.tree /\ e.closed = d.closed /\ e.idle = d.idle
       /\ Kept(d.s[i], e.s[i]) /\ e.s[i].req = d.s[i].req
       /\ \A j \in Streams \ {i} : e.s[j] = d.s[j]
       /\ e.res = "OK" /\ ty \in {"HEADERS", "CONT", "DATA"} =>
             /\ d.s[i].st \in {"IDLE", "OPENED"}
             /\ e.s[i].st \in {"OPENED", "REM_HALF_CLOSED"}
       /\ e.res = "OK" /\ ty = "RST" =>
             e.s[i].st \notin Live /\ \A k \in DOMAIN e.idle : e.idle[k] # i
       /\ e.res = "TERM_STREAM" => ty \in {"HEADERS", "CONT", "DATA"}
  BY <1>5, <1>10, <1>11, <1>12, <1>14, <1>15
<1> QED  BY <1>13 DEF FsmResult

\* A frame that is received.
LEMMA FsmRecv ==
    ASSUME NEW d, NEW w, NEW o, Good(d, w, o), NEW i \in Streams, NEW ty \in Types, NEW f,
           ty = "HEADERS" => \A k \in DOMAIN d.idle : d.idle[k] # i
    PROVE  FsmResult(d, w, o, i, ty, Fsm(d, i, ty, f, FALSE))
BY FsmGood, Zenon

\* RST_STREAM that is sent.
LEMMA FsmSendRst ==
    ASSUME NEW d, NEW w, NEW o, Good(d, w, o), NEW i \in Streams
    PROVE  FsmResult(d, w, o, i, "RST", Fsm(d, i, "RST", {}, TRUE))
<1>1. "RST" \in Types /\ "RST" # "HEADERS"  BY DEF Types
<1> QED  BY <1>1, FsmGood, Zenon

----------------------------------------------------------------------------
(* The queues of streams and the storage.                                   *)

\* A stream enters the queue of closed streams.
LEMMA AddClosedGood ==
    ASSUME NEW d, NEW w, NEW o, Good(d, w, o), NEW i \in Streams
    PROVE  LET e == AddClosed(d, i)
           IN /\ Good(e, w, o) /\ Fixed(d, e) /\ e.tree = d.tree /\ e.s = d.s /\ e.curS = d.curS
              /\ e.res = d.res
<1> DEFINE e == AddClosed(d, i)
<1>0. d \in ConnType /\ IdleInv(d) /\ d.closed \in Seq(Streams)  BY DEF Good, Core, ConnType
<1>1. CASE Contains(d.closed, i) \/ Contains(d.idle, i)
  <2>1. e = d  BY <1>1 DEF AddClosed
  <2> QED  BY <2>1 DEF Fixed
<1>2. CASE ~(Contains(d.closed, i) \/ Contains(d.idle, i))
  <2>1. e = [d EXCEPT !.closed = Append(d.closed, i)]  BY <1>2 DEF AddClosed
  <2>2. /\ Append(d.closed, i) \in Seq(Streams)
        /\ \A k \in DOMAIN Append(d.closed, i) :
              \/ Append(d.closed, i)[k] = i
              \/ k \in DOMAIN d.closed /\ Append(d.closed, i)[k] = d.closed[k]
    BY <1>0
  <2>3. (\A k \in DOMAIN d.idle : d.idle[k] # i) /\ (\A k \in DOMAIN d.closed : d.closed[k] # i)
    <3>1. d.idle \in Seq(Streams)  BY <1>0 DEF ConnType
    <3> QED  BY <3>1, <1>0, <1>2 DEF Contains
  <2> HIDE DEF e
  <2>4. /\ e \in ConnType /\ Fixed(d, e) /\ e.tree = d.tree /\ e.s = d.s /\ e.curS = d.curS
        /\ e.idle = d.idle /\ e.closed = Append(d.closed, i) /\ e.res = d.res
    BY <2>1, <2>2, <1>0 DEF ConnType, Fixed
  <2>5. Shrinks(d, e)
    <3>1. e.curS # 0 => e.curS \in e.tree  BY <2>4 DEF Good, Core, CurInv
    <3> QED  BY <2>4, <3>1 DEF Shrinks, Kept
  <2>6. IdleInv(e)
    <3>1. ASSUME NEW k \in DOMAIN e.closed
          PROVE  \A l \in DOMAIN e.idle : e.closed[k] # e.idle[l]
      <4>1. CASE e.closed[k] = i  BY <4>1, <2>3, <2>4
      <4>2. CASE k \in DOMAIN d.closed /\ e.closed[k] = d.closed[k]
        BY <4>2, <1>0, <2>4 DEF IdleInv
      <4> QED  BY <4>1, <4>2, <2>2, <2>4
    <3>2. ASSUME NEW k \in DOMAIN e.closed, NEW l \in DOMAIN e.closed, e.closed[k] = e.closed[l]
          PROVE  k = l
      <4>1. Inj(d.closed)  BY <1>0 DEF IdleInv, Inj
      <4>2. k \in 1..(Len(d.closed) + 1) /\ l \in 1..(Len(d.closed) + 1)  BY <1>0, <2>4
      <4>3. \A m \in 1..(Len(d.closed) + 1) :
               \/ m = Len(d.closed) + 1 /\ e.closed[m] = i
               \/ m \in DOMAIN d.closed /\ e.closed[m] = d.closed[m]
        BY <1>0, <2>4
      <4> QED  BY <4>1, <4>2, <4>3, <2>3, <3>2 DEF Inj
    <3> QED  BY <3>1, <3>2, <1>0, <2>4 DEF IdleInv
  <2>7. Good(e, w, o)  BY <2>5, <2>6, ShrinksGood
  <2>8. Good(e, w, o) /\ Fixed(d, e) /\ e.tree = d.tree /\ e.s = d.s /\ e.curS = d.curS /\ e.res = d.res
    BY <2>4, <2>7
  <2> QED  BY <2>8 DEF e
<1> QED  BY <1>1, <1>2

\* A stream that is freed.
LEMMA CleanGood ==
    ASSUME NEW d, NEW w, NEW o, Good(d, w, o), NEW i \in Streams,
           \A k \in DOMAIN d.idle : d.idle[k] # i
    PROVE  LET e == StreamClean(d, i)
           IN /\ Good(e, w, o) /\ Fixed(d, e) /\ e.tree = d.tree \ {i} /\ e.res = d.res
              /\ e.s[i] = NewStream(0) /\ \A j \in Streams \ {i} : e.s[j] = d.s[j]
              /\ e.curS \in {0, d.curS} /\ (d.curS # i => e.curS = d.curS)
<1> DEFINE g == ResetOnClose(d, i)
           h == [g EXCEPT !.s[i] = NewStream(0)]
           e == StreamClean(d, i)
<1>0. d \in ConnType /\ IdleInv(d) /\ CurInv(d)  BY DEF Good, Core
<1>1. /\ g \in ConnType /\ Fixed(d, g) /\ g.res = d.res /\ g.s = d.s
      /\ g.tree = d.tree /\ g.closed = d.closed /\ g.idle = d.idle
      /\ g.curS \in {0, d.curS} /\ g.curS # i /\ (d.curS # i => g.curS = d.curS)
  BY <1>0, ResetFields
<1>2. e = [h EXCEPT !.tree = g.tree \ {i}]  BY <1>1 DEF StreamClean, ConnType
<1> HIDE DEF g
<1>3. /\ h \in ConnType /\ Fixed(g, h) /\ h.res = g.res
      /\ h.tree = g.tree /\ h.closed = g.closed /\ h.idle = g.idle
      /\ h.curS = g.curS
      /\ h.s[i] = NewStream(0) /\ \A j \in Streams \ {i} : h.s[j] = g.s[j]
  <2>1. NewStream(0) \in StreamType  BY NewStreamFacts
  <2> QED  BY <1>1, <2>1, PutStream
<1> HIDE DEF h, e
<1>4. /\ e \in ConnType /\ Fixed(h, e) /\ e.res = h.res /\ e.s = h.s
      /\ e.tree = g.tree \ {i} /\ e.closed = h.closed /\ e.idle = h.idle /\ e.curS = h.curS
  <2>1. g.tree \ {i} \in SUBSET Streams  BY <1>1 DEF ConnType
  <2> QED  BY <1>2, <1>3, <2>1 DEF ConnType, Fixed
<1>5. /\ Fixed(d, e) /\ e.res = d.res /\ e.tree = d.tree \ {i} /\ e.closed = d.closed /\ e.idle = d.idle
      /\ e.curS \in {0, d.curS} /\ e.curS # i /\ (d.curS # i => e.curS = d.curS)
      /\ e.s[i] = NewStream(0) /\ \A j \in Streams \ {i} : e.s[j] = d.s[j]
  BY <1>1, <1>3, <1>4 DEF Fixed
<1>6. Shrinks(d, e)
  <2>1. ASSUME NEW j \in Streams 
        PROVE  \/ e.s[j] = NewStream(0) /\ j \notin e.tree
               \/ Kept(d.s[j], e.s[j])
    BY <1>5 DEF Kept
  <2>2. e.curS # 0 => e.curS \in e.tree /\ e.s[e.curS].st = d.s[e.curS].st
    BY <1>0, <1>5 DEF CurInv, ConnType
  <2> QED  BY <1>4, <1>5, <2>1, <2>2 DEF Shrinks
<1>7. IdleInv(e)
  <2>1. ASSUME NEW k \in DOMAIN e.idle PROVE e.idle[k] \in e.tree /\ e.s[e.idle[k]].st = "IDLE"
    <3>1. d.idle[k] \in d.tree /\ d.s[d.idle[k]].st = "IDLE" /\ d.idle[k] \in Streams /\ d.idle[k] # i
      BY <1>0, <1>5 DEF IdleInv, ConnType
    <3> QED  BY <3>1, <1>5
  <2> QED  BY <2>1, <1>0, <1>5 DEF IdleInv
<1>8. Good(e, w, o)  BY <1>6, <1>7, ShrinksGood
<1>9. /\ Good(e, w, o) /\ Fixed(d, e) /\ e.tree = d.tree \ {i} /\ e.res = d.res
      /\ e.s[i] = NewStream(0) /\ \A j \in Streams \ {i} : e.s[j] = d.s[j]
      /\ e.curS \in {0, d.curS} /\ (d.curS # i => e.curS = d.curS)
  BY <1>5, <1>8
<1> QED  BY <1>9 DEF e

\* tfw_h2_remove_idle_streams()
LEMMA RemoveIdleGood ==
    ASSUME NEW d, NEW w, NEW o, Good(d, w, o), NEW i \in Streams
    PROVE  LET e == RemoveIdle(d, i)
           IN Good(e, w, o) /\ Fixed(d, e) /\ e.tree = d.tree
<1> DEFINE n == Below(d.idle, i)
           q == SubSeq(d.idle, 1, n)
           t == SubSeq(d.idle, n + 1, Len(d.idle))
           s == [j \in Streams |-> IF Contains(q, j) THEN [d.s[j] EXCEPT !.st = "CLOSED"] ELSE d.s[j]]
           e == RemoveIdle(d, i)
<1>0. /\ d \in ConnType /\ IdleInv(d) /\ CurInv(d)
      /\ d.idle \in Seq(Streams) /\ d.closed \in Seq(Streams)
  BY DEF Good, Core, ConnType
<1>1. n \in 0..Len(d.idle)  BY <1>0, BelowType
<1>2. e = [d EXCEPT !.s = s, !.idle = t, !.closed = d.closed \o q]
  BY DEF RemoveIdle
<1> HIDE DEF n
<1>3. /\ q \in Seq(Streams) /\ t \in Seq(Streams)
      /\ \A k \in DOMAIN q : q[k] = d.idle[k] /\ k \in DOMAIN d.idle /\ k <= n
      /\ \A k \in DOMAIN t : t[k] = d.idle[n + k] /\ n + k \in DOMAIN d.idle /\ n + k > n /\ k \in Nat
  BY <1>0, <1>1
<1> HIDE DEF q, t
<1>4. ASSUME NEW j \in Streams
      PROVE  /\ s[j] \in StreamType /\ Kept(d.s[j], s[j])
             /\ (\A k \in DOMAIN q : q[k] # j) => s[j] = d.s[j]
             /\ d.s[j].st # "IDLE" => s[j] = d.s[j]
  <2>0. d.s[j] \in StreamType  BY <1>0 DEF ConnType
  <2>1. CASE ~Contains(q, j)
    <3>1. s[j] = d.s[j]  BY <2>1
    <3> QED  BY <2>0, <3>1 DEF Kept
  <2>2. CASE Contains(q, j)
    <3>1. s[j] = [d.s[j] EXCEPT !.st = "CLOSED"]  BY <2>2
    <3>2. PICK k \in DOMAIN q : q[k] = j  BY <2>2, <1>3 DEF Contains
    <3>3. d.s[j].st = "IDLE"  BY <3>2, <1>0, <1>3 DEF IdleInv
    <3> HIDE DEF s
    <3>4. s[j] \in StreamType /\ Kept(d.s[j], s[j])  BY <2>0, <3>1 DEF StreamType, Kept, States, Live
    <3> QED  BY <3>2, <3>3, <3>4
  <2> QED  BY <2>1, <2>2
<1>5. s \in [Streams -> StreamType]  BY <1>4
<1>6. d.closed \o q \in Seq(Streams)  BY <1>0, <1>3
<1> HIDE DEF s, e
<1>7. /\ e \in ConnType /\ Fixed(d, e) /\ e.tree = d.tree /\ e.curS = d.curS
      /\ e.s = s /\ e.idle = t /\ e.closed = d.closed \o q
  BY <1>0, <1>2, <1>3, <1>5, <1>6 DEF ConnType, Fixed
<1>8. Shrinks(d, e)
  <2>1. e.curS # 0 => e.curS \in e.tree /\ e.s[e.curS].st = d.s[e.curS].st
    BY <1>0, <1>4, <1>7 DEF CurInv, ConnType
  <2> QED  BY <1>4, <1>7, <2>1 DEF Shrinks
<1>9. IdleInv(e)
  <2>1. ASSUME NEW k \in DOMAIN t
        PROVE  t[k] \in e.tree /\ e.s[t[k]].st = "IDLE" /\ \A m \in DOMAIN q : q[m] # t[k]
    <3>1. t[k] = d.idle[n + k] /\ n + k \in DOMAIN d.idle /\ n + k > n  BY <1>3
    <3>2. \A m \in DOMAIN q : q[m] # t[k]
      <4>1. ASSUME NEW m \in DOMAIN q PROVE m # n + k
        BY <1>0, <1>1, <1>3, <3>1
      <4> QED  BY <4>1, <3>1, <1>0, <1>3 DEF IdleInv
    <3>3. t[k] \in Streams /\ t[k] \in d.tree /\ d.s[t[k]].st = "IDLE"
      BY <3>1, <1>0, <1>3 DEF IdleInv
    <3>4. e.s[t[k]] = d.s[t[k]]  BY <3>2, <3>3, <1>4, <1>7
    <3> QED  BY <3>2, <3>3, <3>4, <1>7
  <2>2. ASSUME NEW k \in DOMAIN t, NEW l \in DOMAIN t, t[k] = t[l] PROVE k = l
    <3>1. n + k = n + l  BY <2>2, <1>0, <1>3 DEF IdleInv
    <3> QED  BY <3>1, <1>1, <1>3
  <2>3. ASSUME NEW k \in DOMAIN e.closed
        PROVE  \A l \in DOMAIN t : e.closed[k] # t[l]
    <3>1. CASE k \in DOMAIN d.closed /\ e.closed[k] = d.closed[k]
      BY <3>1, <1>0, <1>3, <1>7 DEF IdleInv
    <3>2. CASE k - Len(d.closed) \in DOMAIN q /\ e.closed[k] = q[k - Len(d.closed)]
      BY <3>2, <1>0, <1>3, <1>7, <2>1 DEF IdleInv
    <3> QED  BY <3>1, <3>2, <1>0, <1>3, <1>7, JoinedFrom
  <2>4. ASSUME NEW k \in DOMAIN e.closed, NEW l \in DOMAIN e.closed, e.closed[k] = e.closed[l]
        PROVE  k = l
    <3>0. k \in Nat /\ l \in Nat /\ Len(d.closed) \in Nat  BY <1>0, <1>6, <1>7
    <3>1. \/ k \in DOMAIN d.closed /\ e.closed[k] = d.closed[k]
          \/ k - Len(d.closed) \in DOMAIN q /\ e.closed[k] = q[k - Len(d.closed)]
      BY <1>0, <1>3, <1>7, JoinedFrom
    <3>2. \/ l \in DOMAIN d.closed /\ e.closed[l] = d.closed[l]
          \/ l - Len(d.closed) \in DOMAIN q /\ e.closed[l] = q[l - Len(d.closed)]
      BY <1>0, <1>3, <1>7, JoinedFrom
    <3>3. \A m \in DOMAIN d.closed : \A x \in DOMAIN q : d.closed[m] # q[x]
      BY <1>0, <1>3 DEF IdleInv
    <3>4. CASE k \in DOMAIN d.closed /\ e.closed[k] = d.closed[k]
      BY <2>4, <3>2, <3>3, <3>4, <1>0 DEF IdleInv
    <3>5. CASE k - Len(d.closed) \in DOMAIN q /\ e.closed[k] = q[k - Len(d.closed)]
      <4>1. l - Len(d.closed) \in DOMAIN q /\ e.closed[l] = q[l - Len(d.closed)]
        BY <2>4, <3>2, <3>3, <3>5
      <4>3. \A x, y \in DOMAIN q : q[x] = q[y] => x = y  BY <1>0, <1>3 DEF IdleInv
      <4>4. q[k - Len(d.closed)] = q[l - Len(d.closed)]  BY <2>4, <3>5, <4>1
      <4>2. k - Len(d.closed) = l - Len(d.closed)  BY <4>3, <4>4, <4>1, <3>5
      <4> QED  BY <4>2, <3>0
    <3> QED  BY <3>1, <3>4, <3>5
  <2> QED  BY <2>1, <2>2, <2>3, <2>4, <1>7 DEF IdleInv
<1>10. Good(e, w, o)  BY <1>8, <1>9, ShrinksGood
<1> QED  BY <1>7, <1>10 DEF e

\* tfw_h2_closed_streams_shrink()
LEMMA ShrinkGood ==
    ASSUME NEW d, NEW w, NEW o, Good(d, w, o)
    PROVE  LET e == Shrink(d)
           IN /\ Good(e, w, o) /\ Fixed(d, e) /\ e.tree \subseteq d.tree
              /\ \A k \in DOMAIN e.closed : \E l \in DOMAIN d.closed : e.closed[k] = d.closed[l]
<1> DEFINE m == Max({0, Len(d.closed) - MaxClosed, Cardinality(d.tree) - MaxStreams + 1})
           n == Min({Len(d.closed), m})
           freed == {d.closed[k] : k \in 1..n}
           t == SubSeq(d.closed, n + 1, Len(d.closed))
           s == [j \in Streams |-> IF j \in freed THEN NewStream(0) ELSE d.s[j]]
           e == Shrink(d)
<1>0. /\ d \in ConnType /\ IdleInv(d) /\ CurInv(d)
      /\ d.closed \in Seq(Streams) /\ d.idle \in Seq(Streams) /\ d.tree \subseteq Streams
      /\ d.s \in [Streams -> StreamType]
      /\ d.curS \in Streams \cup {0} /\ d.curR \in Streams \cup {0}
  BY DEF Good, Core, ConnType
<1>m. m \in Nat
  <2>1. Cardinality(d.tree) \in Nat  BY <1>0, StreamsNat, FS_Subset, FS_CardinalityType
  <2> DEFINE a == Len(d.closed) - MaxClosed
             b == Cardinality(d.tree) - MaxStreams + 1
  <2>2. a \in Int /\ b \in Int  BY <2>1, <1>0, H2Bounds
  <2> HIDE DEF a, b
  <2>3. \E x \in {0, a, b} : \A y \in {0, a, b} : x >= y  BY <2>2
  <2>4. Max({0, a, b}) \in {0, a, b} /\ Max({0, a, b}) >= 0  BY <2>3, MaxIs
  <2> QED  BY <2>2, <2>4 DEF a, b
<1> HIDE DEF m
<1>n. n \in 0..Len(d.closed)
  <2>1. Len(d.closed) \in Nat  BY <1>0
  <2>2. \E x \in {Len(d.closed), m} : \A y \in {Len(d.closed), m} : x <= y  BY <2>1, <1>m
  <2>3. n \in {Len(d.closed), m} /\ n <= Len(d.closed)  BY <2>2, MinIs
  <2> QED  BY <2>1, <2>3, <1>m
<1>1. e = [d EXCEPT !.s = s, !.tree = d.tree \ freed, !.closed = t,
                    !.curS = IF d.curS \in freed THEN 0 ELSE d.curS,
                    !.curR = IF d.curR \in freed THEN 0 ELSE d.curR]
  BY DEF Shrink, m
<1> HIDE DEF n
<1>2. freed \subseteq Streams /\ \A j \in freed : \E k \in DOMAIN d.closed : k <= n /\ d.closed[k] = j
  BY <1>0, <1>n
<1>3. /\ t \in Seq(Streams)
      /\ \A k \in DOMAIN t : t[k] = d.closed[n + k] /\ n + k \in DOMAIN d.closed /\ n + k > n /\ k \in Nat
  BY <1>0, <1>n
<1> HIDE DEF freed, t
<1>4. s \in [Streams -> StreamType]
  <2>1. NewStream(0) \in StreamType  BY NewStreamFacts
  <2> QED  BY <1>0, <2>1
<1>5. \A j \in Streams : s[j] = IF j \in freed THEN NewStream(0) ELSE d.s[j]  OBVIOUS
<1> HIDE DEF s, e
<1>6. /\ e \in ConnType /\ Fixed(d, e) /\ e.tree = d.tree \ freed /\ e.s = s
      /\ e.curS = (IF d.curS \in freed THEN 0 ELSE d.curS)
      /\ e.idle = d.idle /\ e.closed = t
  <2>1. /\ d.tree \ freed \in SUBSET Streams
        /\ (IF d.curS \in freed THEN 0 ELSE d.curS) \in Streams \cup {0}
        /\ (IF d.curR \in freed THEN 0 ELSE d.curR) \in Streams \cup {0}
    BY <1>0
  <2> QED  BY <1>0, <1>1, <1>3, <1>4, <2>1, ZenonT(60) DEF ConnType, Fixed
<1>7. Shrinks(d, e)
  <2>1. ASSUME NEW j \in Streams
        PROVE  \/ e.s[j] = NewStream(0) /\ j \notin e.tree
               \/ Kept(d.s[j], e.s[j])
    BY <1>5, <1>6 DEF Kept
  <2>2. e.curS # 0 => e.curS \in e.tree /\ e.s[e.curS].st = d.s[e.curS].st
    BY <1>0, <1>5, <1>6 DEF CurInv
  <2> QED  BY <1>6, <2>1, <2>2 DEF Shrinks
<1>8. IdleInv(e)
  <2>1. ASSUME NEW k \in DOMAIN e.idle PROVE e.idle[k] \in e.tree /\ e.s[e.idle[k]].st = "IDLE"
    <3>1. d.idle[k] \in d.tree /\ d.s[d.idle[k]].st = "IDLE" /\ d.idle[k] \in Streams
      BY <1>0, <1>6 DEF IdleInv
    <3>2. d.idle[k] \notin freed  BY <1>0, <1>2, <1>6 DEF IdleInv
    <3> QED  BY <3>1, <3>2, <1>5, <1>6
  <2>2. ASSUME NEW k \in DOMAIN t PROVE \A l \in DOMAIN e.idle : t[k] # e.idle[l]
    <3>1. t[k] = d.closed[n + k] /\ n + k \in DOMAIN d.closed  BY <1>3
    <3> QED  BY <3>1, <1>0, <1>6 DEF IdleInv
  <2>3. ASSUME NEW k \in DOMAIN t, NEW l \in DOMAIN t, t[k] = t[l] PROVE k = l
    <3>1. n + k = n + l  BY <2>3, <1>0, <1>3 DEF IdleInv
    <3> QED  BY <3>1, <1>n, <1>3
  <2> QED  BY <2>1, <2>2, <2>3, <1>0, <1>6 DEF IdleInv
<1>9. Good(e, w, o)  BY <1>7, <1>8, ShrinksGood
<1> QED  BY <1>3, <1>6, <1>9 DEF e

\* A change of one stream, and of the window the client counts for it, that
\* keeps the invariant.
LEMMA PutCoreWire ==
    ASSUME NEW d \in ConnType, NEW w \in WireType, NEW o \in Seq(OutType), Core(d, w, o),
           NEW i \in Streams, NEW r \in StreamType, Transmits(r),
           i = d.curS => /\ r.st = "REM_HALF_CLOSED" /\ r.xs \in {"cont", "trlc"}
                         /\ ToSet(d.s[i].post) \subseteq ToSet(r.post),
           d.s[i].st = "IDLE" => r.st = "IDLE",
           \A k \in DOMAIN o : o[k].ty = "resp" /\ o[k].i = i /\ i \in d.tree => Waits(r),
           NEW v \in WireType, v.blk = w.blk, v.cut = w.cut, v.stale = w.stale, v.conn = w.conn,
           v.cinit = w.cinit, \A j \in Streams \ {i} : v.view[j] = w.view[j],
           r.st \in Live /\ i \in d.tree \ w.stale => v.view[i] = r.wnd + w.cinit - d.init
    PROVE  Core([d EXCEPT !.s[i] = r], v, o)
<1> DEFINE e == [d EXCEPT !.s[i] = r]
<1>0. /\ e \in ConnType /\ Fixed(d, e) /\ e.res = d.res
      /\ e.tree = d.tree /\ e.closed = d.closed /\ e.idle = d.idle
      /\ e.curS = d.curS
      /\ e.s[i] = r /\ \A j \in Streams \ {i} : e.s[j] = d.s[j]
  BY PutStream
<1>t. /\ d.tree \subseteq Streams /\ d.curS \in Streams \cup {0} /\ d.idle \in Seq(Streams)
      /\ e.last = d.last /\ e.wq = d.wq /\ e.wnd = d.wnd /\ e.init = d.init /\ e.need = d.need
  BY <1>0 DEF ConnType, Fixed
<1> HIDE DEF e
<1>1. ASSUME NEW j \in Streams PROVE Transmits(e.s[j])
  BY <1>0 DEF Core
<1>2. CurInv(e)
  BY <1>0, <1>t DEF Core, CurInv
<1>3. IdleInv(e)
  <2>1. IdleInv(d)  BY DEF Core
  <2>2. ASSUME NEW k \in DOMAIN d.idle PROVE e.s[d.idle[k]].st = "IDLE"
    BY <1>0, <1>t, <2>1 DEF IdleInv
  <2> QED  BY <2>1, <2>2, <1>0, <1>t DEF IdleInv
<1>4. OutInv(e, o)
  <2>1. OutInv(d, o)  BY DEF Core
  <2>3. ASSUME NEW k \in DOMAIN o, o[k].ty = "resp", o[k].i \in e.tree PROVE Waits(e.s[o[k].i])
    <3>1. CASE o[k].i = i  BY <2>3, <3>1, <1>0
    <3>2. CASE o[k].i # i  BY <2>1, <2>3, <3>2, <1>0, <1>t DEF OutInv
    <3> QED  BY <3>1, <3>2
  <2> QED  BY <2>1, <2>3, <1>0, <1>t DEF OutInv
<1>5. WinInv(e, v)
  <2>1. WinInv(d, w)  BY DEF Core
  <2>2. ASSUME NEW j \in e.tree \ v.stale, e.s[j].st \in Live
        PROVE  v.view[j] = e.s[j].wnd + v.cinit - e.init
    <3>1. CASE j = i  BY <2>1, <2>2, <3>1, <1>0, <1>t DEF WinInv
    <3>2. CASE j # i  BY <2>1, <2>2, <3>2, <1>0, <1>t DEF WinInv
    <3> QED  BY <3>1, <3>2
  <2> QED  BY <2>1, <2>2, <1>t DEF WinInv
<1>6. BlockInv(e, v)  BY <1>0 DEF Core, BlockInv
<1>7. AckInv(e, v, o)
  <2>1. AckInv(d, w, o)  BY DEF Core
  <2>2. d.curS # 0 => ToSet(d.s[d.curS].post) \subseteq ToSet(e.s[d.curS].post)
    <3>1. CASE d.curS = i  BY <3>1, <1>0
    <3>2. CASE d.curS # i  BY <3>2, <1>0, <1>t
    <3> QED  BY <3>1, <3>2
  <2> QED  BY <2>1, <2>2, <1>0, <1>t DEF AckInv
<1>8. Core(e, v, o)  BY <1>1, <1>2, <1>3, <1>4, <1>5, <1>6, <1>7 DEF Core
<1> QED  BY <1>8 DEF e

\* A change of one stream that keeps the invariant.
LEMMA PutCore ==
    ASSUME NEW d \in ConnType, NEW w \in WireType, NEW o \in Seq(OutType), Core(d, w, o),
           NEW i \in Streams, NEW r \in StreamType, Transmits(r),
           i = d.curS => /\ r.st = "REM_HALF_CLOSED" /\ r.xs \in {"cont", "trlc"}
                         /\ ToSet(d.s[i].post) \subseteq ToSet(r.post),
           d.s[i].st = "IDLE" => r.st = "IDLE",
           \A k \in DOMAIN o : o[k].ty = "resp" /\ o[k].i = i /\ i \in d.tree => Waits(r),
           r.st \in Live => d.s[i].st \in Live /\ r.wnd = d.s[i].wnd
    PROVE  Core([d EXCEPT !.s[i] = r], w, o)
<1>1. r.st \in Live /\ i \in d.tree \ w.stale => w.view[i] = r.wnd + w.cinit - d.init
  BY DEF Core, WinInv
<1> QED  BY <1>1, PutCoreWire

\* No stream becomes active: nobody has to be told.
LEMMA PutTold ==
    ASSUME NEW d \in ConnType, NEW i \in Streams, NEW r \in StreamType,
           Active(r) => Active(d.s[i])
    PROVE  LET e == [d EXCEPT !.s[i] = r]
           IN (ReadyToSend(e) => ReadyToSend(d)) /\ (Told(d) => Told(e))
<1> DEFINE e == [d EXCEPT !.s[i] = r]
<1>0. /\ Fixed(d, e) /\ e.tree = d.tree
      /\ e.s[i] = r /\ \A j \in Streams \ {i} : e.s[j] = d.s[j]
  BY PutStream
<1>t. d.tree \subseteq Streams  BY DEF ConnType
<1> HIDE DEF e
<1>1. ActiveStreams(e) \subseteq ActiveStreams(d)
  BY <1>0, <1>t DEF ActiveStreams
<1>2. ReadyToSend(e) => ReadyToSend(d)  BY <1>0, <1>1 DEF ReadyToSend, Fixed
<1>3. Told(d) => Told(e)  BY <1>0, <1>2 DEF Told, Fixed
<1> QED  BY <1>2, <1>3 DEF e

\* A stream leaves the queue it is in.
LEMMA DequeueGood ==
    ASSUME NEW d, NEW w, NEW o, Good(d, w, o), NEW i \in Streams
    PROVE  LET e == Dequeue(d, i)
           IN /\ Good(e, w, o) /\ Fixed(d, e) /\ e.tree = d.tree /\ e.s = d.s /\ e.res = d.res
              /\ \A k \in DOMAIN e.idle : e.idle[k] # i
              /\ \A k \in DOMAIN e.idle : \E l \in DOMAIN d.idle : e.idle[k] = d.idle[l]
<1> DEFINE e == Dequeue(d, i)
<1>0. d \in ConnType /\ IdleInv(d)  BY DEF Good, Core
<1>2. e = [d EXCEPT !.closed = Without(d.closed, i), !.idle = Without(d.idle, i)]
  BY DEF Dequeue
<1> HIDE DEF e
<1>4. /\ Inj(d.idle) /\ d.idle \in Seq(Streams)
      /\ Inj(d.closed) /\ d.closed \in Seq(Streams)
  BY <1>0 DEF IdleInv, Inj, ConnType
<1>5. /\ Without(d.closed, i) \in Seq(Streams) /\ Without(d.idle, i) \in Seq(Streams)
      /\ Inj(Without(d.idle, i)) /\ Inj(Without(d.closed, i))
      /\ \A k \in DOMAIN Without(d.idle, i) : Without(d.idle, i)[k] # i
      /\ \A k \in DOMAIN Without(d.idle, i) : \E l \in DOMAIN d.idle : Without(d.idle, i)[k] = d.idle[l]
      /\ \A k \in DOMAIN Without(d.closed, i) :
            \E l \in DOMAIN d.closed : Without(d.closed, i)[k] = d.closed[l]
  BY <1>4, WithoutFacts
<1>6. /\ e \in ConnType /\ Fixed(d, e) /\ e.s = d.s /\ e.tree = d.tree /\ e.curS = d.curS
      /\ e.closed = Without(d.closed, i) /\ e.idle = Without(d.idle, i) /\ e.res = d.res
  BY <1>0, <1>2, <1>5 DEF ConnType, Fixed
<1>9. Shrinks(d, e)
  <2>1. e.curS # 0 => e.curS \in e.tree  BY <1>6 DEF Good, Core, CurInv
  <2> QED  BY <1>6, <2>1 DEF Shrinks, Kept
<1>10. IdleInv(e)
  <2>1. ASSUME NEW k \in DOMAIN e.idle PROVE e.idle[k] \in e.tree /\ e.s[e.idle[k]].st = "IDLE"
    <3>1. PICK l \in DOMAIN d.idle : e.idle[k] = d.idle[l]  BY <1>5, <1>6
    <3>2. d.idle[l] \in d.tree /\ d.s[d.idle[l]].st = "IDLE" /\ d.idle[l] \in Streams
      BY <1>0, <1>4 DEF IdleInv
    <3> QED  BY <3>1, <3>2, <1>6
  <2>2. ASSUME NEW k \in DOMAIN e.closed, NEW l \in DOMAIN e.idle PROVE e.closed[k] # e.idle[l]
    <3>1. PICK m \in DOMAIN d.closed : e.closed[k] = d.closed[m]  BY <1>5, <1>6
    <3>2. PICK n \in DOMAIN d.idle : e.idle[l] = d.idle[n]  BY <1>5, <1>6
    <3> QED  BY <3>1, <3>2, <1>0 DEF IdleInv
  <2> QED  BY <2>1, <2>2, <1>5, <1>6 DEF IdleInv, Inj
<1>11. Good(e, w, o)  BY <1>9, <1>10, ShrinksGood
<1>12. /\ Good(e, w, o) /\ Fixed(d, e) /\ e.tree = d.tree /\ e.s = d.s /\ e.res = d.res
       /\ \A k \in DOMAIN e.idle : e.idle[k] # i
       /\ \A k \in DOMAIN e.idle : \E l \in DOMAIN d.idle : e.idle[k] = d.idle[l]
  BY <1>5, <1>6, <1>11
<1> QED  BY <1>12 DEF e

\* The stream leaves its queue and loses its request.
LEMMA UnlinkGood ==
    ASSUME NEW d, NEW w, NEW o, Good(d, w, o), NEW i \in Streams
    PROVE  LET e == Unlink(d, i)
           IN /\ Good(e, w, o) /\ Fixed(d, e) /\ e.tree = d.tree /\ e.res = d.res
              /\ e.s[i] = [d.s[i] EXCEPT !.req = "no"]
              /\ \A j \in Streams \ {i} : e.s[j] = d.s[j]
              /\ \A k \in DOMAIN e.idle : e.idle[k] # i
<1> DEFINE g == Dequeue(d, i)
           e == Unlink(d, i)
<1>1. /\ Good(g, w, o) /\ Fixed(d, g) /\ g.tree = d.tree /\ g.s = d.s /\ g.res = d.res
      /\ \A k \in DOMAIN g.idle : g.idle[k] # i
  BY DequeueGood
<1> DEFINE r == [g.s[i] EXCEPT !.req = "no"]
<1>2. e = [g EXCEPT !.s[i] = r]  BY DEF Unlink
<1> HIDE DEF g, e
<1>c. g \in ConnType /\ g.s[i] \in StreamType /\ IdleInv(g) /\ CurInv(g)  BY <1>1 DEF Good, ConnType, Core
<1>r. r \in StreamType /\ Kept(g.s[i], r) /\ r.st = g.s[i].st  BY <1>c DEF StreamType, Kept
<1> HIDE DEF r
<1>p. /\ e \in ConnType /\ Fixed(g, e) /\ e.tree = g.tree /\ e.idle = g.idle /\ e.res = g.res
      /\ e.s[i] = r /\ e.closed = g.closed /\ e.curS = g.curS
      /\ \A j \in Streams \ {i} : e.s[j] = g.s[j]
  BY <1>2, <1>c, <1>r, PutStream
<1>k. ASSUME NEW j \in Streams PROVE Kept(g.s[j], e.s[j]) /\ e.s[j].st = g.s[j].st
  <2>1. CASE j = i  BY <2>1, <1>r, <1>p
  <2>2. CASE j # i  BY <2>2, <1>p DEF Kept
  <2> QED  BY <2>1, <2>2
<1>s. Shrinks(g, e)
  <2>1. e.curS # 0 => e.curS \in e.tree /\ e.curS \in Streams  BY <1>c, <1>p DEF CurInv, ConnType
  <2> QED  BY <1>k, <1>p, <2>1 DEF Shrinks
<1>i. IdleInv(e)
  <2>1. \A k \in DOMAIN g.idle : g.idle[k] \in Streams  BY <1>c DEF ConnType
  <2> QED  BY <1>c, <1>k, <1>p, <2>1 DEF IdleInv, Fixed
<1>3. /\ Good(e, w, o) /\ Fixed(g, e) /\ e.tree = g.tree /\ e.idle = g.idle /\ e.res = g.res
      /\ e.s[i] = [g.s[i] EXCEPT !.req = "no"]
      /\ \A j \in Streams \ {i} : e.s[j] = g.s[j]
  BY <1>1, <1>p, <1>s, <1>i, ShrinksGood DEF r
<1>4. /\ Good(e, w, o) /\ Fixed(d, e) /\ e.tree = d.tree /\ e.res = d.res
      /\ e.s[i] = [d.s[i] EXCEPT !.req = "no"]
      /\ \A j \in Streams \ {i} : e.s[j] = d.s[j]
      /\ \A k \in DOMAIN e.idle : e.idle[k] # i
  BY <1>1, <1>3 DEF Fixed
<1> QED  BY <1>4 DEF e

\* tfw_h2_current_stream_send_rst()
LEMMA ToClosedGood ==
    ASSUME NEW d, NEW w, NEW o, Good(d, w, o), NEW i \in Streams
    PROVE  LET e == ToClosed(d, i)
           IN /\ Good(e, w, o) /\ Fixed(d, e) /\ e.tree = d.tree
              /\ e.s[i].st = d.s[i].st
<1> DEFINE g == Unlink(d, i)
           e == ToClosed(d, i)
<1>1. /\ Good(g, w, o) /\ Fixed(d, g) /\ g.tree = d.tree
      /\ g.s[i] = [d.s[i] EXCEPT !.req = "no"]
  BY UnlinkGood
<1>2. e = AddClosed(g, i)  BY DEF ToClosed
<1>3. d.s[i] \in StreamType  BY DEF Good, ConnType
<1>4. g.s[i].st = d.s[i].st  BY <1>1, <1>3 DEF StreamType
<1> HIDE DEF g, e
<1>5. Good(e, w, o) /\ Fixed(g, e) /\ e.tree = g.tree /\ e.s = g.s
  BY <1>1, <1>2, AddClosedGood DEF Fixed
<1>6. Good(e, w, o) /\ Fixed(d, e) /\ e.tree = d.tree /\ e.s[i].st = d.s[i].st
  BY <1>1, <1>4, <1>5 DEF Fixed
<1> QED  BY <1>6 DEF e

\* The message layer takes a frame of request data.
LEMMA RequestGood ==
    ASSUME NEW d, NEW w, NEW o, Good(d, w, o), NEW i \in Streams,
           d.s[i].xs = "no", d.s[i].st \in {"OPENED", "REM_HALF_CLOSED"}
    PROVE  Good(Request(d, i), w, o)
<1> DEFINE q == IF d.s[i].st = "REM_HALF_CLOSED" THEN "full" ELSE "part"
           r == [d.s[i] EXCEPT !.req = q]
           e == Request(d, i)
<1>0. /\ d \in ConnType /\ d.s[i] \in StreamType /\ Transmits(d.s[i]) /\ w \in WireType
      /\ o \in Seq(OutType) /\ Core(d, w, o) /\ Told(d)
  BY DEF Good, ConnType, Core
<1>1. e = [d EXCEPT !.s[i] = r]  BY DEF Request
<1>q. q \in {"part", "full"} /\ (d.s[i].st = "OPENED" => q # "full")  OBVIOUS
<1> HIDE DEF q
<1>2. /\ r \in StreamType /\ r.st = d.s[i].st /\ r.xs = d.s[i].xs /\ r.post = d.s[i].post
      /\ r.wnd = d.s[i].wnd /\ r.h = d.s[i].h /\ r.req = q /\ r.blk = d.s[i].blk
      /\ r.b = d.s[i].b /\ r.t = d.s[i].t /\ r.resp = d.s[i].resp /\ r.tail = d.s[i].tail
  BY <1>0, <1>q DEF StreamType
<1> HIDE DEF r, e
<1>3. Transmits(r)  BY <1>0, <1>2, <1>q DEF Transmits, HasSkb
<1>5. i # d.curS
  BY <1>0, StreamsNat DEF Core, CurInv
<1>6. \A k \in DOMAIN o : o[k].ty = "resp" /\ o[k].i = i /\ i \in d.tree => Waits(r)
  BY <1>0 DEF Core, OutInv, Waits
<1>7. Core(e, w, o)  BY <1>0, <1>1, <1>2, <1>3, <1>5, <1>6, PutCore
<1>8. e \in ConnType /\ Fixed(d, e)  BY <1>0, <1>1, <1>2, PutStream
<1>9. Told(e)
  <2>1. Active(r) => Active(d.s[i])  BY <1>2 DEF Active, HasSkb
  <2> QED  BY <1>0, <1>1, <1>2, <2>1, PutTold
<1>10. Good(e, w, o)  BY <1>0, <1>7, <1>8, <1>9 DEF Good, Fixed
<1> QED  BY <1>10 DEF e

\* The client uses a stream, which may be older than the last one.
LEMMA LastGood ==
    ASSUME NEW d, NEW w, NEW o, Good(d, w, o), NEW i \in Streams
    PROVE  LET e == [d EXCEPT !.last = i]
           IN /\ Good(e, w, o) /\ e.last = i /\ e.tree = d.tree /\ e.s = d.s /\ e.idle = d.idle
              /\ e.closed = d.closed /\ e.init = d.init
<1> DEFINE e == [d EXCEPT !.last = i]
<1>0. /\ d \in ConnType /\ w \in WireType /\ o \in Seq(OutType) /\ d.up /\ Told(d)
      /\ (\A j \in Streams : Transmits(d.s[j])) /\ CurInv(d) /\ IdleInv(d) /\ OutInv(d, o)
      /\ WinInv(d, w) /\ BlockInv(d, w) /\ AckInv(d, w, o)
  BY DEF Good, Core
<1>1. /\ e \in ConnType /\ e.last = i /\ e.tree = d.tree /\ e.s = d.s /\ e.idle = d.idle
      /\ e.closed = d.closed /\ e.init = d.init /\ e.curS = d.curS /\ e.wnd = d.wnd
      /\ e.wq = d.wq /\ e.need = d.need /\ e.has = d.has /\ e.up = d.up
  BY <1>0 DEF ConnType
<1> HIDE DEF e
<1>4. CurInv(e)  BY <1>0, <1>1 DEF CurInv
<1>5. IdleInv(e)  BY <1>0, <1>1 DEF IdleInv
<1>6. OutInv(e, o)  BY <1>0, <1>1 DEF OutInv
<1>7. WinInv(e, w)  BY <1>0, <1>1 DEF WinInv
<1>8. BlockInv(e, w) /\ AckInv(e, w, o)  BY <1>0, <1>1 DEF BlockInv, AckInv
<1>9. Told(e)  BY <1>0, <1>1 DEF Told, ReadyToSend, ActiveStreams
<1>10. Good(e, w, o)  BY <1>0, <1>1, <1>4, <1>5, <1>6, <1>7, <1>8, <1>9 DEF Good, Core
<1> QED  BY <1>1, <1>10 DEF e

\* tfw_h2_stream_create() for a stream of which nothing is left.
LEMMA CreateGood ==
    ASSUME NEW d, NEW w, NEW o, Good(d, w, o), NEW i \in Streams, i \notin d.tree,
           NoResp(o, i), i \notin w.stale, w.view[i] = w.cinit
    PROVE  LET e == Create(d, i)
           IN /\ Good(e, w, o) /\ Fixed(d, e) /\ i \in e.tree /\ e.s[i].st = "IDLE"
              /\ e.idle = d.idle /\ e.closed = d.closed
              /\ \A k \in DOMAIN e.idle : e.idle[k] # i
<1> DEFINE r == NewStream(d.init)
           g == [d EXCEPT !.s[i] = r]
           e == Create(d, i)
<1>0. /\ d \in ConnType /\ w \in WireType /\ o \in Seq(OutType) /\ d.up /\ Told(d)
      /\ (\A j \in Streams : Transmits(d.s[j])) /\ CurInv(d) /\ IdleInv(d) /\ OutInv(d, o)
      /\ WinInv(d, w) /\ BlockInv(d, w) /\ AckInv(d, w, o)
  BY DEF Good, Core
<1>t. d.init \in Int /\ w.cinit \in Int /\ d.tree \subseteq Streams /\ i # 0
  BY <1>0, StreamsNat DEF ConnType, WireType
<1>r. /\ r \in StreamType /\ Transmits(r) /\ ~Active(r) /\ r.xs = "no" /\ r.req = "no"
      /\ r.st = "IDLE" /\ r.wnd = d.init
  BY <1>t, NewStreamFacts
<1>1. e = [g EXCEPT !.tree = d.tree \cup {i}]  BY DEF Create
<1> HIDE DEF r
<1>2. /\ g \in ConnType /\ Fixed(d, g) /\ g.tree = d.tree /\ g.closed = d.closed
      /\ g.idle = d.idle /\ g.curS = d.curS
      /\ g.s[i] = r /\ \A j \in Streams \ {i} : g.s[j] = d.s[j]
  BY <1>0, <1>r, PutStream
<1> HIDE DEF g, e
<1>3. /\ e \in ConnType /\ Fixed(g, e) /\ e.tree = d.tree \cup {i} /\ e.closed = g.closed
      /\ e.idle = g.idle /\ e.curS = g.curS /\ e.s = g.s
  <2>1. d.tree \cup {i} \in SUBSET Streams  BY <1>t
  <2> QED  BY <1>1, <1>2, <2>1 DEF ConnType, Fixed
<1>4. /\ Fixed(d, e) /\ e.tree = d.tree \cup {i} /\ e.closed = d.closed
      /\ e.idle = d.idle /\ e.curS = d.curS
      /\ e.s[i] = r /\ \A j \in Streams \ {i} : e.s[j] = d.s[j]
  BY <1>2, <1>3 DEF Fixed
<1>f. /\ e.last = d.last /\ e.wq = d.wq /\ e.wnd = d.wnd /\ e.init = d.init /\ e.need = d.need
      /\ e.has = d.has /\ e.up = d.up
  BY <1>4 DEF Fixed
<1>5. \A k \in DOMAIN d.idle : d.idle[k] # i  BY <1>0 DEF IdleInv
<1>7. CurInv(e)
  BY <1>0, <1>4, <1>f, <1>t DEF CurInv
<1>8. IdleInv(e)
  <2>1. \A k \in DOMAIN d.idle : d.idle[k] \in Streams  BY <1>0 DEF ConnType
  <2> QED  BY <1>0, <1>4, <1>f, <1>5, <2>1 DEF IdleInv
<1>9. OutInv(e, o)
  <2>2. ASSUME NEW k \in DOMAIN o, o[k].ty = "resp", o[k].i \in e.tree PROVE Waits(e.s[o[k].i])
    <3>2. o[k].i # i  BY <2>2 DEF NoResp
    <3> QED  BY <3>2, <2>2, <1>0, <1>4, <1>t DEF OutInv
  <2> QED  BY <2>2, <1>0, <1>f DEF OutInv
<1>10. WinInv(e, w)
  <2>1. ASSUME NEW j \in e.tree \ w.stale, e.s[j].st \in Live
        PROVE  w.view[j] = e.s[j].wnd + w.cinit - e.init
    <3>1. CASE j = i  BY <3>1, <1>4, <1>f, <1>r, <1>t
    <3>2. CASE j # i  BY <3>2, <2>1, <1>0, <1>4, <1>f, <1>t DEF WinInv
    <3> QED  BY <3>1, <3>2
  <2> QED  BY <2>1, <1>0, <1>f DEF WinInv
<1>11. BlockInv(e, w)  BY <1>0, <1>4 DEF BlockInv
<1>12. AckInv(e, w, o)
  <2>1. d.curS # 0 => e.s[d.curS] = d.s[d.curS]  BY <1>0, <1>4, <1>t DEF CurInv
  <2> QED  BY <2>1, <1>0, <1>4, <1>f DEF AckInv
<1>13. Told(e)
  <2>1. ActiveStreams(e) \subseteq ActiveStreams(d)  BY <1>4, <1>r, <1>t DEF ActiveStreams
  <2> QED  BY <2>1, <1>0, <1>f DEF Told, ReadyToSend
<1>14. \A j \in Streams : Transmits(e.s[j])  BY <1>0, <1>4, <1>r
<1>15. Good(e, w, o)
  BY <1>0, <1>3, <1>f, <1>7, <1>8, <1>9, <1>10, <1>11, <1>12, <1>13, <1>14 DEF Good, Core
<1> QED  BY <1>4, <1>5, <1>15, <1>r DEF e

\* A stream enters the queue of idle streams.
LEMMA AddIdleGood ==
    ASSUME NEW d, NEW w, NEW o, Good(d, w, o), NEW i \in Streams, i \in d.tree, d.s[i].st = "IDLE",
           \A k \in DOMAIN d.idle : d.idle[k] # i,
           \A k \in DOMAIN d.closed : d.closed[k] # i
    PROVE  LET e == AddIdle(d, i)
           IN Good(e, w, o) /\ Fixed(d, e) /\ e.tree = d.tree /\ e.s = d.s
<1> DEFINE z == InsertAt(d.idle, Behind(d.idle, i) + 1, i)
           e == AddIdle(d, i)
<1>0. d \in ConnType /\ IdleInv(d) /\ d.idle \in Seq(Streams) /\ CurInv(d)  BY DEF Good, Core, ConnType
<1>1. Behind(d.idle, i) + 1 \in 1..(Len(d.idle) + 1)
  <2>1. Behind(d.idle, i) \in 0..Len(d.idle) /\ Len(d.idle) \in Nat  BY <1>0, BelowType
  <2> QED  BY <2>1
<1>2. /\ z \in Seq(Streams)
      /\ \A k \in DOMAIN z : z[k] = i \/ \E l \in DOMAIN d.idle : z[k] = d.idle[l]
      /\ Inj(z)
  <2>1. Inj(d.idle)  BY <1>0 DEF IdleInv, Inj
  <2> QED  BY <1>0, <1>1, <2>1, InsertFacts
<1>3. e = [d EXCEPT !.idle = z]  BY DEF AddIdle
<1> HIDE DEF z, e
<1>4. /\ e \in ConnType /\ Fixed(d, e) /\ e.tree = d.tree /\ e.s = d.s /\ e.curS = d.curS
      /\ e.idle = z /\ e.closed = d.closed
  BY <1>0, <1>2, <1>3 DEF ConnType, Fixed
<1>5. Shrinks(d, e)
  BY <1>0, <1>4 DEF Shrinks, Kept, CurInv
<1>6. IdleInv(e)
  <2>1. ASSUME NEW k \in DOMAIN e.idle
        PROVE  /\ e.idle[k] \in e.tree /\ e.s[e.idle[k]].st = "IDLE"
               /\ \A l \in DOMAIN e.closed : e.closed[l] # e.idle[k]
    <3>1. CASE e.idle[k] = i  BY <3>1, <1>4
    <3>2. CASE \E l \in DOMAIN d.idle : e.idle[k] = d.idle[l]
      BY <3>2, <1>0, <1>4 DEF IdleInv
    <3> QED  BY <3>1, <3>2, <1>2, <1>4
  <2> QED  BY <2>1, <1>0, <1>2, <1>4 DEF IdleInv, Inj, Fixed
<1>7. Good(e, w, o)  BY <1>5, <1>6, ShrinksGood
<1> QED  BY <1>4, <1>7 DEF e

----------------------------------------------------------------------------
(* The handlers of the receive path.                                        *)

\* A connection that was closed.
LEMMA TermFacts ==
    ASSUME NEW d
    PROVE  /\ Term(d) \in ConnType /\ ~Term(d).up /\ Term(d).curS = 0 /\ ~Term(d).need
           /\ Term(d).wq = <<>> /\ Term(d).last = 0 /\ Term(d).tree = {} /\ Term(d).res = "OK"
           /\ Term(d).has = FALSE
<1>1. NewConn \in ConnType
  <2>1. NewStream(0) \in StreamType  BY NewStreamFacts
  <2>2. [i \in Streams |-> NewStream(0)] \in [Streams -> StreamType]  BY <2>1
  <2>3. DefWnd \in Nat  BY H2Bounds
  <2> QED  BY <2>2, <2>3 DEF NewConn, ConnType
<1>2. NewConn.curS = 0 /\ NewConn.need = FALSE /\ NewConn.wq = <<>> /\ NewConn.last = 0
      /\ NewConn.tree = {} /\ NewConn.res = "OK" /\ NewConn.has = FALSE
  BY DEF NewConn
<1> QED  BY <1>1, <1>2 DEF Term, ConnType

\* What a handler leaves: a connection that is good or closed, and frames to send.
Handled(x, w, o) ==
    /\ x.m \in Seq(CtlType)
    /\ Good(x.d, w, o) \/ \E g : x.d = Term(g)

\* The frames that handlers send.
LEMMA MsgType ==
    ASSUME NEW ty \in {"ack", "ctl", "rst"}, NEW i \in Streams \cup {0}
    PROVE  /\ <<Msg(ty, i)>> \in Seq(CtlType) /\ Len(<<Msg(ty, i)>>) = 1
           /\ <<Msg(ty, i)>>[1] = Msg(ty, i) /\ Msg(ty, i).ty = ty
BY DEF Msg, CtlType

\* STREAM_RECV_PROCESS
LEMMA RecvProcessHandled ==
    ASSUME NEW d, NEW w, NEW o, Good(d, w, o), NEW i \in Streams, i \in d.tree,
           NEW ty \in {"HEADERS", "CONT", "DATA"}, NEW f,
           ty = "HEADERS" => \A k \in DOMAIN d.idle : d.idle[k] # i
    PROVE  Handled(RecvProcess(d, i, ty, f), w, o)
<1> DEFINE e == Fsm(d, i, ty, f, FALSE)
           x == RecvProcess(d, i, ty, f)
<1>1. /\ Good(e, w, o) /\ Fixed(d, e) /\ e.tree = d.tree
      /\ Kept(d.s[i], e.s[i])
      /\ e.res = "OK" =>
            /\ d.s[i].st \in {"IDLE", "OPENED"}
            /\ e.s[i].st \in {"OPENED", "REM_HALF_CLOSED"}
  <2>1. ty \in Types  BY DEF Types
  <2>2. FsmResult(d, w, o, i, ty, e)  BY <2>1, FsmRecv
  <2> HIDE DEF e
  <2> QED  BY <2>2 DEF FsmResult
<1>2. e.res \in {"OK", "IGNORE", "TERM_STREAM", "TERM_CONN"}  BY <1>1 DEF Good, ConnType
<1>4. CASE e.res = "TERM_CONN"
  <2>1. x = [d |-> Term(e), m |-> <<>>]  BY <1>4 DEF RecvProcess
  <2> HIDE DEF x, e
  <2> QED  BY <2>1 DEF Handled, x
<1>5. CASE e.res = "TERM_STREAM"
  <2>1. x = [d |-> ToClosed(e, i), m |-> <<Msg("rst", i)>>]  BY <1>5 DEF RecvProcess
  <2> HIDE DEF x, e
  <2>2. Good(ToClosed(e, i), w, o)  BY <1>1, ToClosedGood
  <2> QED  BY <2>1, <2>2, MsgType DEF Handled, x
<1>6. CASE e.res = "IGNORE"
  <2>1. x = [d |-> e, m |-> <<>>]  BY <1>6 DEF RecvProcess
  <2> HIDE DEF x, e
  <2> QED  BY <2>1, <1>1 DEF Handled, x
<1>7. CASE e.res = "OK"
  <2>1. x = [d |-> Request(e, i), m |-> <<>>]  BY <1>1, <1>7 DEF RecvProcess
  <2> HIDE DEF x, e
  <2>2. Transmits(d.s[i])  BY DEF Good, Core
  <2>3. e.s[i].xs = "no"  BY <1>1, <1>7, <2>2 DEF Transmits, Kept
  <2>4. Good(Request(e, i), w, o)  BY <1>1, <1>7, <2>3, RequestGood
  <2> QED  BY <2>1, <2>4 DEF Handled, x
<1> QED  BY <1>2, <1>4, <1>5, <1>6, <1>7

\* An error of a stream that is not closed.
LEMMA RstStreamHandled ==
    ASSUME NEW d, NEW w, NEW o, Good(d, w, o), NEW i \in Streams, i \in d.tree
    PROVE  LET x == RstStream(d, i)
           IN /\ Handled(x, w, o)
              /\ Good(x.d, w, o) => x.d.s[i].st \notin Live
<1> DEFINE e == Fsm(d, i, "RST", {}, TRUE)
           x == RstStream(d, i)
<1>1. /\ Good(e, w, o) /\ Fixed(d, e) /\ e.tree = d.tree
      /\ e.res = "OK" => e.s[i].st \notin Live
  <2>1. FsmResult(d, w, o, i, "RST", e)  BY FsmSendRst
  <2> HIDE DEF e
  <2> QED  BY <2>1 DEF FsmResult
<1>2. CASE e.res # "OK"
  <2>1. x = [d |-> Term(e), m |-> <<>>]  BY <1>2 DEF RstStream
  <2> HIDE DEF x, e
  <2>2. ~Good(Term(e), w, o)  BY TermFacts DEF Good
  <2>3. Handled(x, w, o)  BY <2>1 DEF Handled
  <2> QED  BY <2>1, <2>2, <2>3 DEF x
<1>3. CASE e.res = "OK"
  <2>1. x = [d |-> ToClosed(e, i), m |-> <<Msg("rst", i)>>]  BY <1>3 DEF RstStream
  <2> HIDE DEF x, e
  <2>2. /\ Good(ToClosed(e, i), w, o) /\ Fixed(e, ToClosed(e, i))
        /\ ToClosed(e, i).s[i].st = e.s[i].st
    BY <1>1, ToClosedGood
  <2>3. Handled(x, w, o)  BY <2>1, <2>2, MsgType DEF Handled
  <2>4. x.d.s[i].st \notin Live  BY <1>1, <1>3, <2>1, <2>2
  <2> QED  BY <2>3, <2>4 DEF x
<1> QED  BY <1>2, <1>3

\* CONTINUATION and DATA.
LEMMA PayloadHandled ==
    ASSUME NEW d, NEW w, NEW o, Good(d, w, o), NEW i \in Streams, NEW ty \in {"CONT", "DATA"}, NEW f
    PROVE  Handled(Payload(d, i, ty, f), w, o)
<1>1. CASE i > d.last \/ ~NotClosed(d, i)
  <2>1. Payload(d, i, ty, f) = [d |-> Term(d), m |-> <<>>]  BY <1>1 DEF Payload
  <2> QED  BY <2>1 DEF Handled
<1>2. CASE ~(i > d.last \/ ~NotClosed(d, i))
  <2>1. Payload(d, i, ty, f) = RecvProcess(d, i, ty, f)  BY <1>2 DEF Payload
  <2>2. i \in d.tree  BY <1>2 DEF NotClosed
  <2> QED  BY <2>1, <2>2, RecvProcessHandled
<1> QED  BY <1>1, <1>2

\* RST_STREAM
LEMMA RstHandled ==
    ASSUME NEW d, NEW w, NEW o, Good(d, w, o), NEW i \in Streams
    PROVE  Handled(Rst(d, i), w, o)
<1> DEFINE e == Fsm(d, i, "RST", {}, FALSE)
           g == Unlink(e, i)
           x == Rst(d, i)
<1>1. CASE i > d.last
  <2>1. x = [d |-> Term(d), m |-> <<>>]  BY <1>1 DEF Rst
  <2> QED  BY <2>1 DEF Handled
<1>2. CASE ~(i > d.last) /\ ~NotClosed(d, i)
  <2>1. x = [d |-> d, m |-> <<>>]  BY <1>2 DEF Rst
  <2> QED  BY <2>1 DEF Handled
<1>3. CASE ~(i > d.last) /\ NotClosed(d, i)
  <2>1. x = [d |-> IF e.res = "OK" THEN StreamClean(g, i) ELSE Term(e), m |-> <<>>]
    BY <1>3 DEF Rst
  <2>2. /\ Good(e, w, o) /\ Fixed(d, e) /\ e.tree = d.tree
        /\ e.res = "OK" => \A k \in DOMAIN e.idle : e.idle[k] # i
    <3>1. "RST" \in Types /\ "RST" # "HEADERS"  BY DEF Types
    <3>2. FsmResult(d, w, o, i, "RST", e)  BY <3>1, FsmRecv
    <3> HIDE DEF e, g, x
    <3> QED  BY <3>2 DEF FsmResult
  <2> HIDE DEF x, e
  <2>3. CASE e.res # "OK"  BY <2>1, <2>3 DEF Handled, x
  <2>4. CASE e.res = "OK"
    <3>1. Good(g, w, o) /\ Fixed(e, g) /\ \A k \in DOMAIN g.idle : g.idle[k] # i
      <4>1. Good(e, w, o)  BY <2>2
      <4> QED  BY <4>1, UnlinkGood, ZenonT(60)
    <3> HIDE DEF g
    <3>3. Good(StreamClean(g, i), w, o)  BY <3>1, CleanGood
    <3> QED  BY <2>1, <2>4, <3>3 DEF Handled, x
  <2> QED  BY <2>3, <2>4
<1> QED  BY <1>1, <1>2, <1>3

\* PRIORITY
LEMMA PriorityHandled ==
    ASSUME NEW d, NEW w, NEW o, Good(d, w, o), NEW i \in Streams, NEW self \in BOOLEAN,
           i \in d.tree \/ i <= d.last \/ (NoResp(o, i) /\ \A k \in DOMAIN d.closed : d.closed[k] # i),
           i \notin d.tree => i \notin w.stale /\ w.view[i] = w.cinit
    PROVE  Handled(Priority(d, i, self), w, o)
<1> DEFINE d1 == IF i \in d.tree THEN d ELSE Shrink(d)
           d2 == IF i \in d.tree THEN d1 ELSE AddIdle(Create(d1, i), i)
           e == Fsm(d2, i, "PRIORITY", {}, FALSE)
           full == i \notin d.tree /\ i > d.last /\ Cardinality(d1.tree) = MaxStreams
           old == i \notin d.tree /\ i <= d.last
           x == Priority(d, i, self)
<1>t. d.last \in Nat /\ i \in Nat  BY StreamsNat DEF Good, ConnType
<1>p. x = CASE old -> [d |-> d, m |-> <<>>]
            [] full -> [d |-> Term(d1), m |-> <<>>]
            [] OTHER -> CASE e.res = "TERM_CONN" -> [d |-> Term(e), m |-> <<>>]
                          [] e.res # "TERM_CONN" /\ (e.res = "IGNORE" \/ ~self) ->
                                [d |-> e, m |-> <<>>]
                          [] e.res = "OK" /\ self ->
                                IF e.s[i].st = "IDLE" THEN [d |-> Term(e), m |-> <<>>]
                                ELSE RstStream(e, i)
  BY DEF Priority
<1>o. ~(old /\ full)  BY <1>t
<1>1. CASE old
  <2> HIDE DEF d1, d2, e, full, old, x
  <2>1. x = [d |-> d, m |-> <<>>]  BY <1>1, <1>p, <1>o
  <2> QED  BY <2>1 DEF Handled, x
<1>2. CASE full
  <2> HIDE DEF d1, d2, e, full, old, x
  <2>1. x = [d |-> Term(d1), m |-> <<>>]  BY <1>2, <1>p, <1>o
  <2> QED  BY <2>1 DEF Handled, x
<1>3. CASE ~old /\ ~full
  <2>2. Good(d2, w, o) /\ i \in d2.tree
    <3>1. CASE i \in d.tree  BY <3>1
    <3>2. CASE i \notin d.tree
      <4>1. d1 = Shrink(d) /\ d2 = AddIdle(Create(d1, i), i)  BY <3>2
      <4>2. d.last < i  BY <1>3, <1>t, <3>2
      <4> HIDE DEF d1, d2
      <4>3. /\ Good(d1, w, o) /\ d1.tree \subseteq d.tree
            /\ \A k \in DOMAIN d1.closed : \E l \in DOMAIN d.closed : d1.closed[k] = d.closed[l]
        BY <4>1, ShrinkGood
      <4>7. ~(i <= d.last)  BY <4>2, <1>t
      <4>4. i \notin d1.tree /\ NoResp(o, i) /\ \A k \in DOMAIN d1.closed : d1.closed[k] # i
        BY <3>2, <4>7, <4>3
      <4> DEFINE g == Create(d1, i)
      <4>5. /\ Good(g, w, o) /\ i \in g.tree /\ g.s[i].st = "IDLE"
            /\ \A k \in DOMAIN g.idle : g.idle[k] # i
            /\ \A k \in DOMAIN g.closed : g.closed[k] # i
        BY <3>2, <4>3, <4>4, CreateGood
      <4>6. d2 = AddIdle(g, i)  BY <4>1
      <4> HIDE DEF g
      <4> QED  BY <4>5, <4>6, AddIdleGood
    <3> QED  BY <3>1, <3>2
  <2> HIDE DEF d1, d2, full, old, x
  <2>3. Good(e, w, o) /\ e.tree = d2.tree /\ e.res # "TERM_STREAM"
    <3>1. "PRIORITY" \in Types /\ "PRIORITY" # "HEADERS"  BY DEF Types
    <3>2. FsmResult(d2, w, o, i, "PRIORITY", e)  BY <2>2, <3>1, FsmRecv
    <3> HIDE DEF e
    <3> QED  BY <3>2 DEF FsmResult
  <2> HIDE DEF e
  <2>1. x = CASE e.res = "TERM_CONN" -> [d |-> Term(e), m |-> <<>>]
             [] e.res # "TERM_CONN" /\ (e.res = "IGNORE" \/ ~self) -> [d |-> e, m |-> <<>>]
             [] e.res = "OK" /\ self ->
                   IF e.s[i].st = "IDLE" THEN [d |-> Term(e), m |-> <<>>]
                   ELSE RstStream(e, i)
    BY <1>3, <1>p
  <2>4. e.res \in {"OK", "IGNORE", "TERM_STREAM", "TERM_CONN"}  BY <2>3 DEF Good, ConnType
  <2>5. CASE e.res = "TERM_CONN"
    <3>1. x = [d |-> Term(e), m |-> <<>>]  BY <2>1, <2>5
    <3> QED  BY <3>1 DEF Handled, x
  <2>6. CASE e.res # "TERM_CONN" /\ (e.res = "IGNORE" \/ ~self)
    <3>1. x = [d |-> e, m |-> <<>>]  BY <2>1, <2>6
    <3> QED  BY <3>1, <2>3 DEF Handled, x
  <2>7. CASE e.res = "OK" /\ self
    <3>1. x = IF e.s[i].st = "IDLE" THEN [d |-> Term(e), m |-> <<>>] ELSE RstStream(e, i)
      BY <2>1, <2>7
    <3>2. CASE e.s[i].st = "IDLE"
      <4>1. x = [d |-> Term(e), m |-> <<>>]  BY <3>1, <3>2
      <4> QED  BY <4>1 DEF Handled, x
    <3>3. CASE e.s[i].st # "IDLE"
      <4>1. x = RstStream(e, i)  BY <3>1, <3>3
      <4>2. Handled(RstStream(e, i), w, o)  BY <2>2, <2>3, RstStreamHandled
      <4> QED  BY <4>1, <4>2 DEF x
    <3> QED  BY <3>2, <3>3
  <2> QED  BY <2>3, <2>4, <2>5, <2>6, <2>7
<1> QED  BY <1>1, <1>2, <1>3

\* HEADERS of a stream that is new, or known and of any age.
LEMMA HeadersHandled ==
    ASSUME NEW d, NEW w, NEW o, Good(d, w, o), NEW i \in Streams, NEW f, NEW self \in BOOLEAN,
           NotClosed(d, i) \/ i <= d.last \/ NoResp(o, i),
           ~NotClosed(d, i) => i \notin w.stale /\ w.view[i] = w.cinit
    PROVE  Handled(Headers(d, i, f, self), w, o)
<1> DEFINE known == NotClosed(d, i)
           d1 == RemoveIdle(d, i)
           d2 == IF known THEN d1 ELSE Shrink(d1)
           d3 == [d2 EXCEPT !.last = i]
           d4 == IF ~known THEN Create(d3, i)
                 ELSE IF d3.s[i].st = "IDLE" THEN Dequeue(d3, i) ELSE d3
           old == ~known /\ d.last >= i
           full == ~known /\ d.last < i /\ Cardinality(d2.tree) = MaxStreams
           x == Headers(d, i, f, self)
<1>p. x = CASE old -> [d |-> Term(d), m |-> <<>>]
            [] full -> [d |-> d2, m |-> <<Msg("rst", i)>>]
            [] OTHER ->
                IF self
                THEN [d |-> IF known THEN ToClosed(d3, i) ELSE d3, m |-> <<Msg("rst", i)>>]
                ELSE IF ~known /\ i \in d3.tree
                THEN [d |-> Term(d3), m |-> <<>>]
                ELSE RecvProcess(d4, i, "HEADERS", f)
  BY DEF Headers
<1>t. d.last \in Nat /\ i \in Nat  BY StreamsNat DEF Good, ConnType
<1>o. ~(old /\ full)  BY <1>t
<1>1. Good(d1, w, o) /\ Fixed(d, d1) /\ d1.tree = d.tree  BY RemoveIdleGood
<1> HIDE DEF d1
<1>2. /\ Good(d2, w, o) /\ d2.last = d.last /\ d2.tree \subseteq d.tree
      /\ known => d2.tree = d.tree
  <2>1. CASE known  BY <2>1, <1>1 DEF Fixed
  <2>2. CASE ~known
    <3>1. d2 = Shrink(d1)  BY <2>2
    <3> HIDE DEF d2, known
    <3>2. Good(d2, w, o) /\ Fixed(d1, d2) /\ d2.tree \subseteq d1.tree  BY <1>1, <3>1, ShrinkGood
    <3> QED  BY <2>2, <3>2, <1>1 DEF Fixed
  <2> QED  BY <2>1, <2>2
<1> HIDE DEF d2
<1>3. Good(d3, w, o) /\ d3.last = i /\ d3.tree = d2.tree
  BY <1>2, LastGood
<1>4. known => i \in d3.tree  BY <1>2, <1>3 DEF NotClosed
<1>5. ASSUME ~old, ~known => i \notin d3.tree
      PROVE  Good(d4, w, o) /\ i \in d4.tree /\ \A k \in DOMAIN d4.idle : d4.idle[k] # i
  <2>1. CASE ~known
    <3> DEFINE g == Create(d2, i)
    <3>1. /\ Good(g, w, o) /\ Fixed(d2, g) /\ i \in g.tree
          /\ \A k \in DOMAIN g.idle : g.idle[k] # i
      <4>1. i \notin d2.tree  BY <1>3, <1>5, <2>1
      <4>2. ~(i <= d.last)  BY <1>5, <1>t, <2>1
      <4>3. NoResp(o, i) /\ i \notin w.stale /\ w.view[i] = w.cinit  BY <2>1, <4>2
      <4> QED  BY <1>2, <4>1, <4>3, CreateGood
    <3>2. d4 = [g EXCEPT !.last = i]
      <4>1. d4 = Create(d3, i)  BY <2>1
      <4>2. d2 \in ConnType  BY <1>2 DEF Good
      <4> HIDE DEF d4
      <4> QED  BY <4>1, <4>2 DEF Create, ConnType
    <3> HIDE DEF g, d4
    <3> QED  BY <3>1, <3>2, LastGood
  <2>2. CASE known /\ d3.s[i].st = "IDLE"
    <3>1. d4 = Dequeue(d3, i)  BY <2>2
    <3>2. i \in d3.tree  BY <1>4, <2>2
    <3> HIDE DEF d4, d3
    <3> QED  BY <3>1, <3>2, <1>3, DequeueGood DEF Fixed
  <2>3. CASE known /\ d3.s[i].st # "IDLE"
    <3>1. d4 = d3  BY <2>3
    <3>2. i \in d3.tree  BY <1>4, <2>3
    <3> HIDE DEF d4, d3
    <3>3. \A k \in DOMAIN d3.idle : d3.idle[k] # i  BY <1>3, <2>3 DEF Good, Core, IdleInv
    <3> QED  BY <3>1, <3>2, <3>3, <1>3
  <2> QED  BY <2>1, <2>2, <2>3
<1> HIDE DEF known, d3, d4, x
<1>6. CASE old
  <2> HIDE DEF old, full
  <2>1. x = [d |-> Term(d), m |-> <<>>]  BY <1>6, <1>p, <1>o
  <2> QED  BY <2>1 DEF Handled, x
<1>7. CASE full
  <2> HIDE DEF old, full
  <2>1. x = [d |-> d2, m |-> <<Msg("rst", i)>>]  BY <1>7, <1>p, <1>o
  <2> QED  BY <2>1, <1>2, MsgType DEF Handled, x
<1>8. CASE ~old /\ ~full
  <2> HIDE DEF old, full
  <2>1. x = IF self
            THEN [d |-> IF known THEN ToClosed(d3, i) ELSE d3, m |-> <<Msg("rst", i)>>]
            ELSE IF ~known /\ i \in d3.tree
            THEN [d |-> Term(d3), m |-> <<>>]
            ELSE RecvProcess(d4, i, "HEADERS", f)
    BY <1>8, <1>p
  <2>2. CASE self
    <3> DEFINE e == IF known THEN ToClosed(d3, i) ELSE d3
    <3>1. x = [d |-> e, m |-> <<Msg("rst", i)>>]  BY <2>1, <2>2
    <3>2. Good(ToClosed(d3, i), w, o)  BY <1>3, ToClosedGood
    <3>3. Good(e, w, o)  BY <3>2, <1>3
    <3> HIDE DEF e
    <3> QED  BY <3>1, <3>3, MsgType DEF Handled, x
  <2>3. CASE ~self /\ ~known /\ i \in d3.tree
    <3>1. x = [d |-> Term(d3), m |-> <<>>]  BY <2>1, <2>3
    <3> QED  BY <3>1 DEF Handled, x
  <2>4. CASE ~self /\ ~(~known /\ i \in d3.tree)
    <3>1. x = RecvProcess(d4, i, "HEADERS", f)  BY <2>1, <2>4
    <3>2. Good(d4, w, o) /\ i \in d4.tree /\ \A k \in DOMAIN d4.idle : d4.idle[k] # i
      BY <1>5, <1>8, <2>4, <1>t
    <3>3. "HEADERS" \in {"HEADERS", "CONT", "DATA"}  OBVIOUS
    <3>4. Handled(RecvProcess(d4, i, "HEADERS", f), w, o)  BY <3>2, <3>3, RecvProcessHandled
    <3> QED  BY <3>1, <3>4 DEF x
  <2> QED  BY <2>2, <2>3, <2>4
<1> QED  BY <1>6, <1>7, <1>8

\* What the invariant does not speak of.
LEMMA CoreSame ==
    ASSUME NEW d, NEW e, NEW w, NEW o, Core(d, w, o),
           e.s = d.s, e.tree = d.tree, e.closed = d.closed, e.idle = d.idle,
           e.curS = d.curS, e.wnd = d.wnd, e.init = d.init, e.need = d.need, e.wq = d.wq
    PROVE  Core(e, w, o)
<1>1. CurInv(e) /\ IdleInv(e)  BY DEF Core, CurInv, IdleInv
<1>2. OutInv(e, o)  BY DEF Core, OutInv
<1>3. WinInv(e, w)  BY DEF Core, WinInv
<1>4. BlockInv(e, w) /\ AckInv(e, w, o)  BY DEF Core, BlockInv, AckInv
<1> QED  BY <1>1, <1>2, <1>3, <1>4 DEF Core

\* The window of a stream that is gone or that sends nothing any more.
LEMMA WireMoves ==
    ASSUME NEW d, NEW w, NEW o, Good(d, w, o), NEW i \in Streams,
           i \in d.tree => d.s[i].st \notin Live,
           NEW v \in WireType, v.blk = w.blk, v.cut = w.cut, w.stale \ {i} \subseteq v.stale,
           v.conn = w.conn, v.cinit = w.cinit, \A j \in Streams \ {i} : v.view[j] = w.view[j]
    PROVE  Good(d, v, o)
<1>1. Core(d, w, o) /\ d \in ConnType  BY DEF Good
<1>t. d.tree \subseteq Streams  BY <1>1 DEF ConnType
<1>2. WinInv(d, v)
  <2>0. WinInv(d, w)  BY <1>1 DEF Core
  <2>1. ASSUME NEW j \in d.tree \ v.stale, d.s[j].st \in Live
        PROVE  v.view[j] = d.s[j].wnd + v.cinit - d.init
    <3>1. j # i /\ j \in d.tree \ w.stale /\ v.view[j] = w.view[j]  BY <2>1, <1>t
    <3> QED  BY <2>0, <2>1, <3>1 DEF WinInv
  <2> QED  BY <2>0, <2>1 DEF WinInv
<1>3. BlockInv(d, v) /\ AckInv(d, v, o)  BY <1>1 DEF Core, BlockInv, AckInv
<1>4. Core(d, v, o)  BY <1>1, <1>2, <1>3 DEF Core
<1> QED  BY <1>4 DEF Good

\* The client begins a stream that the connection does not have.
LEMMA BeginGood ==
    ASSUME NEW d, NEW w, NEW o, Good(d, w, o), NEW i \in Streams
    PROVE  LET v == Begin(w, d, i)
           IN /\ Good(d, v, o)
              /\ ~NotClosed(d, i) => i \notin v.stale /\ v.view[i] = v.cinit
              /\ v.over = w.over /\ v.conn = w.conn /\ v.mixed = w.mixed /\ v.cut = w.cut
<1> DEFINE v == Begin(w, d, i)
<1>1. CASE NotClosed(d, i)
  <2>1. v = w  BY <1>1 DEF Begin
  <2> QED  BY <1>1, <2>1
<1>2. CASE ~NotClosed(d, i)
  <2> DEFINE f == [w.view EXCEPT ![i] = w.cinit]
  <2>0. w \in WireType  BY DEF Good
  <2>1. f \in [Streams -> Int] /\ f[i] = w.cinit /\ \A j \in Streams \ {i} : f[j] = w.view[j]
    BY <2>0 DEF WireType
  <2>2. v = [w EXCEPT !.view = f, !.stale = w.stale \ {i}]  BY <1>2, <2>0 DEF Begin, WireType
  <2>3. w.stale \ {i} \in SUBSET Streams  BY <2>0 DEF WireType
  <2> HIDE DEF f, v
  <2>4. /\ v \in WireType /\ v.blk = w.blk /\ v.cut = w.cut /\ v.stale = w.stale \ {i}
        /\ v.conn = w.conn /\ v.cinit = w.cinit /\ v.view = f /\ v.over = w.over
        /\ v.mixed = w.mixed
    BY <2>0, <2>1, <2>2, <2>3 DEF WireType
  <2>5. i \in d.tree => d.s[i].st \notin Live  BY <1>2 DEF NotClosed, Live
  <2>6. Good(d, v, o)  BY <2>1, <2>4, <2>5, WireMoves
  <2> QED  BY <2>1, <2>4, <2>6 DEF v
<1> QED  BY <1>1, <1>2

\* tfw_h2_conn_set_has_data(): a connection that becomes ready is told to the kernel.
LEMMA HasDataGood ==
    ASSUME NEW d, NEW g \in ConnType, NEW v \in WireType, NEW o \in Seq(OutType), Core(g, v, o), g.up,
           Told(d), g.has = d.has, g.wq = d.wq
    PROVE  Good(SetHasData(g, ReadyToSend(d)), v, o)
<1> DEFINE b == g.has \/ (~ReadyToSend(d) /\ ReadyToSend(g))
           e == SetHasData(g, ReadyToSend(d))
<1>1. e = [g EXCEPT !.has = b]  BY DEF SetHasData
<1>2. b \in BOOLEAN  BY DEF ConnType, ReadyToSend
<1>3. ReadyToSend(g) \/ g.wq # <<>> => b  BY DEF Told
<1> HIDE DEF b, e
<1>4. /\ e \in ConnType /\ e.has = b /\ e.s = g.s /\ e.tree = g.tree /\ e.closed = g.closed
      /\ e.idle = g.idle /\ e.last = g.last /\ e.curS = g.curS /\ e.wnd = g.wnd
      /\ e.init = g.init /\ e.need = g.need /\ e.wq = g.wq /\ e.up = g.up
  BY <1>1, <1>2 DEF ConnType
<1>5. Core(e, v, o)  BY <1>4, CoreSame
<1>6. Told(e)  BY <1>3, <1>4 DEF Told, ReadyToSend, ActiveStreams
<1> QED  BY <1>4, <1>5, <1>6 DEF Good, e

\* WINDOW_UPDATE of the connection.
LEMMA ConnWndHandled ==
    ASSUME NEW d, NEW w, NEW o, Good(d, w, o), NEW n \in WndIncrs
    PROVE  Handled(WndUpdate(d, 0, n), [w EXCEPT !.conn = @ + n], o)
<1> DEFINE v == [w EXCEPT !.conn = @ + n]
           g == [d EXCEPT !.wnd = @ + n]
           x == WndUpdate(d, 0, n)
<1>0. /\ d \in ConnType /\ w \in WireType /\ o \in Seq(OutType) /\ d.up /\ Told(d)
      /\ (\A j \in Streams : Transmits(d.s[j])) /\ CurInv(d) /\ IdleInv(d) /\ OutInv(d, o)
      /\ WinInv(d, w) /\ BlockInv(d, w) /\ AckInv(d, w, o)
  BY DEF Good, Core
<1>t. d.last \in Nat /\ n \in Nat /\ d.wnd \in Nat /\ w.conn \in Int
  <2> HIDE DEF v, g, x
  <2>1. d.last \in Streams \cup {0}  BY <1>0 DEF ConnType
  <2>2. d.last \in Nat  BY <2>1, StreamsNat
  <2>3. n \in Nat  BY H2Bounds
  <2>4. d.wnd \in Nat  BY <1>0 DEF ConnType
  <2>5. w.conn \in Int  BY <1>0 DEF WireType
  <2> QED  BY <2>2, <2>3, <2>4, <2>5
<1>a. d.wnd + n \in Nat /\ w.conn + n \in Int  BY <1>t
<1>1. x = [d |-> IF n = 0 \/ d.wnd + n > MaxWnd THEN Term(d)
                 ELSE SetHasData(g, ReadyToSend(d)), m |-> <<>>]
  BY <1>t DEF WndUpdate
<1>2. CASE n = 0 \/ d.wnd + n > MaxWnd
  <2>1. x = [d |-> Term(d), m |-> <<>>]  BY <1>1, <1>2
  <2> HIDE DEF x, v
  <2>2. Handled(x, v, o)  BY <2>1 DEF Handled
  <2> QED  BY <2>2 DEF x, v
<1>3. CASE ~(n = 0 \/ d.wnd + n > MaxWnd)
  <2>1. x = [d |-> SetHasData(g, ReadyToSend(d)), m |-> <<>>]  BY <1>1, <1>3
  <2>2. /\ g \in ConnType /\ g.has = d.has /\ g.s = d.s /\ g.tree = d.tree /\ g.closed = d.closed
        /\ g.idle = d.idle /\ g.last = d.last /\ g.curS = d.curS /\ g.wnd = d.wnd + n
        /\ g.init = d.init /\ g.need = d.need /\ g.wq = d.wq /\ g.up = d.up
    BY <1>0, <1>a DEF ConnType
  <2>3. /\ v \in WireType /\ v.conn = w.conn + n /\ v.view = w.view /\ v.stale = w.stale
        /\ v.blk = w.blk /\ v.cut = w.cut /\ v.cinit = w.cinit
    BY <1>0, <1>a DEF WireType
  <2> HIDE DEF x, g, v
  <2>4. WinInv(g, v)
    <3>1. v.conn >= g.wnd
      <4>1. w.conn >= d.wnd  BY <1>0 DEF WinInv
      <4> QED  BY <4>1, <1>t, <2>2, <2>3
    <3> QED  BY <3>1, <1>0, <2>2, <2>3 DEF WinInv
  <2>5. CurInv(g) /\ IdleInv(g)  BY <1>0, <2>2 DEF CurInv, IdleInv
  <2>6. OutInv(g, o)  BY <1>0, <2>2 DEF OutInv
  <2>7. BlockInv(g, v) /\ AckInv(g, v, o)  BY <1>0, <2>2, <2>3 DEF BlockInv, AckInv
  <2>8. Core(g, v, o)  BY <1>0, <2>2, <2>4, <2>5, <2>6, <2>7 DEF Core
  <2>9. Good(SetHasData(g, ReadyToSend(d)), v, o)  BY <1>0, <2>2, <2>3, <2>8, HasDataGood
  <2>10. Handled(x, v, o)  BY <2>1, <2>9 DEF Handled
  <2> QED  BY <2>10 DEF x, v
<1> QED  BY <1>2, <1>3

\* WINDOW_UPDATE of a stream.
LEMMA StreamWndHandled ==
    ASSUME NEW d, NEW w, NEW o, Good(d, w, o), NEW i \in Streams, NEW n \in WndIncrs
    PROVE  Handled(WndUpdate(d, i, n), [w EXCEPT !.view[i] = @ + n], o)
<1> DEFINE v == [w EXCEPT !.view[i] = @ + n]
           e == Fsm(d, i, "WINDOW_UPDATE", {}, FALSE)
           q == [e.s[i] EXCEPT !.wnd = e.s[i].wnd + n]
           r == TryUnblock(q)
           x == WndUpdate(d, i, n)
<1>0. d \in ConnType /\ w \in WireType /\ o \in Seq(OutType) /\ d.tree \subseteq Streams
  BY DEF Good, ConnType
<1>t. d.last \in Nat /\ n \in Nat /\ i \in Nat /\ i # 0
  BY <1>0, StreamsNat, H2Bounds DEF ConnType
<1>a. w.view \in [Streams -> Int] /\ w.view[i] + n \in Int  BY <1>0, <1>t DEF WireType
<1>b. [w.view EXCEPT ![i] = @ + n] \in [Streams -> Int]  BY <1>a
<1>v. /\ v \in WireType /\ v.conn = w.conn /\ v.stale = w.stale /\ v.blk = w.blk /\ v.cut = w.cut
      /\ v.cinit = w.cinit
      /\ v.view[i] = w.view[i] + n /\ \A j \in Streams \ {i} : v.view[j] = w.view[j]
  BY <1>0, <1>a, <1>b DEF WireType
<1> HIDE DEF v
<1>1. CASE i > d.last
  <2>1. x = [d |-> Term(d), m |-> <<>>]  BY <1>1 DEF WndUpdate
  <2> QED  BY <2>1 DEF Handled
<1>2. CASE ~(i > d.last) /\ ~NotClosed(d, i)
  <2>1. x = [d |-> d, m |-> <<>>]  BY <1>2, <1>t DEF WndUpdate
  <2>3. i \in d.tree => d.s[i].st \notin Live  BY <1>2 DEF NotClosed, Live
  <2>4. Good(d, v, o)  BY <2>3, <1>v, WireMoves
  <2> QED  BY <2>1, <2>4 DEF Handled, v
<1>3. CASE ~(i > d.last) /\ NotClosed(d, i)
  <2>x. x = CASE e.res # "OK" -> [d |-> Term(e), m |-> <<>>]
              [] e.res = "OK" /\ (n = 0 \/ e.s[i].wnd + n > MaxWnd) -> RstStream(e, i)
              [] OTHER -> [d |-> SetHasData([e EXCEPT !.s[i] = r], ReadyToSend(e)), m |-> <<>>]
    BY <1>3, <1>t DEF WndUpdate
  <2>i. i \in d.tree  BY <1>3 DEF NotClosed
  <2>1. Good(e, w, o) /\ Fixed(d, e) /\ e.tree = d.tree
    <3>1. "WINDOW_UPDATE" \in Types /\ "WINDOW_UPDATE" # "HEADERS"  BY DEF Types
    <3>2. FsmResult(d, w, o, i, "WINDOW_UPDATE", e)  BY <3>1, FsmRecv
    <3> HIDE DEF e
    <3> QED  BY <3>2 DEF FsmResult
  <2> HIDE DEF x, e
  <2>e. i \in e.tree /\ e \in ConnType /\ e.s[i] \in StreamType
        /\ Core(e, w, o) /\ e.up /\ Told(e)
    BY <2>1, <2>i DEF Fixed, Good, ConnType
  <2>2. CASE e.res # "OK"
    <3>1. x = [d |-> Term(e), m |-> <<>>]  BY <2>x, <2>2
    <3> QED  BY <3>1 DEF Handled, x, v
  <2>3. CASE e.res = "OK" /\ (n = 0 \/ e.s[i].wnd + n > MaxWnd)
    <3>1. x = RstStream(e, i)  BY <2>x, <2>3
    <3>2. /\ Handled(x, w, o)
          /\ Good(x.d, w, o) => x.d.s[i].st \notin Live
      BY <2>1, <2>e, <3>1, RstStreamHandled
    <3>3. ASSUME Good(x.d, w, o) PROVE Good(x.d, v, o)
      BY <3>2, <3>3, <2>e, <1>v, WireMoves
    <3>4. Handled(x, v, o)  BY <3>2, <3>3 DEF Handled
    <3> QED  BY <3>4 DEF x, v
  <2>4. CASE e.res = "OK" /\ ~(n = 0 \/ e.s[i].wnd + n > MaxWnd)
    <3> DEFINE g == [e EXCEPT !.s[i] = r]
    <3>1. x = [d |-> SetHasData(g, ReadyToSend(e)), m |-> <<>>]  BY <2>x, <2>4
    <3>2. /\ r \in StreamType /\ r.st = e.s[i].st /\ r.eosS = e.s[i].eosS /\ r.wnd = e.s[i].wnd + n
          /\ r.req = e.s[i].req /\ r.resp = e.s[i].resp /\ r.xs = e.s[i].xs
          /\ r.h = e.s[i].h /\ r.b = e.s[i].b /\ r.t = e.s[i].t /\ r.tail = e.s[i].tail
          /\ r.post = e.s[i].post /\ (r.blk => e.s[i].blk)
      <4>1. e.s[i].wnd + n \in Int /\ e.s[i].wnd \in Int  BY <2>e, <1>t DEF StreamType
      <4>2. q \in StreamType /\ q.wnd = e.s[i].wnd + n  BY <2>e, <4>1 DEF StreamType
      <4>3. /\ q.st = e.s[i].st /\ q.eosS = e.s[i].eosS /\ q.eosR = e.s[i].eosR
            /\ q.req = e.s[i].req /\ q.resp = e.s[i].resp /\ q.xs = e.s[i].xs
            /\ q.h = e.s[i].h /\ q.b = e.s[i].b /\ q.t = e.s[i].t /\ q.tail = e.s[i].tail
            /\ q.post = e.s[i].post /\ q.blk = e.s[i].blk
        BY <2>e, <4>1 DEF StreamType
      <4> HIDE DEF q
      <4> QED  BY <4>2, <4>3 DEF TryUnblock, StreamType
    <3> HIDE DEF r
    <3>3. g \in ConnType /\ Fixed(e, g)  BY <2>e, <3>2, PutStream
    <3>4. Core(g, v, o)
      <4>1. Transmits(r)
        <5>1. Transmits(e.s[i])  BY <2>e DEF Core
        <5> QED  BY <5>1, <3>2 DEF Transmits, HasSkb
      <4>2. i = e.curS => r.st = "REM_HALF_CLOSED" /\ r.xs \in {"cont", "trlc"}
        BY <2>e, <1>t, <3>2 DEF Core, CurInv
      <4>3. ASSUME r.st \in Live, i \in e.tree \ w.stale
            PROVE  v.view[i] = r.wnd + w.cinit - e.init
        <5>1. w.view[i] = e.s[i].wnd + w.cinit - e.init  BY <4>3, <2>e, <3>2 DEF Core, WinInv
        <5>2. e.s[i].wnd \in Int /\ w.cinit \in Int /\ e.init \in Int
          BY <1>0, <2>e DEF StreamType, ConnType, WireType
        <5> QED  BY <5>1, <5>2, <1>t, <1>v, <3>2
      <4>4. ASSUME NEW k \in DOMAIN o, o[k].ty = "resp", o[k].i = i PROVE Waits(r)
        BY <4>4, <2>e, <3>2 DEF Core, OutInv, Waits
      <4> QED  BY <1>0, <1>v, <2>e, <3>2, <4>1, <4>2, <4>3, <4>4, PutCoreWire
    <3> HIDE DEF g
    <3>5. g.has = e.has /\ g.wq = e.wq /\ g.up  BY <3>3, <2>e DEF Fixed
    <3>6. Good(SetHasData(g, ReadyToSend(e)), v, o)  BY <1>0, <1>v, <2>e, <3>3, <3>4, <3>5, HasDataGood
    <3> QED  BY <3>1, <3>6 DEF Handled, x, v
  <2> QED  BY <2>2, <2>3, <2>4
<1> QED  BY <1>1, <1>2, <1>3

----------------------------------------------------------------------------
(* The inductive invariant as a predicate of a state.                       *)

PushType == [on : BOOLEAN, cur : Streams \cup {0}, left : Nat]

\* What the client sees is right.
WireOK(w) == ~w.over /\ w.conn >= 0 /\ (w.mixed => w.cut)

Safe(d, w, o, p) ==
    /\ d \in ConnType /\ d.res = "OK" /\ w \in WireType /\ o \in Seq(OutType) /\ p \in PushType
    /\ WireOK(w)
    /\ d.up => Core(d, w, o) /\ PushInv(d, p) /\ (~w.cut => w.blk = d.curS)
    /\ ~d.up => d.curS = 0 /\ ~d.need

\* The inductive invariant in terms of that predicate.
LEMMA SafeIs == IInv <=> Safe(c, wire, out, push) /\ recv \in Nat
BY DEF IInv, TypeOK, Safe, WireOK, WindowsKept, BlocksContiguous, PushType, OutType

\* Nobody pushes: the connection is good.
LEMMA SafeGood ==
    ASSUME NEW d, NEW w, NEW o, NEW p, Safe(d, w, o, p), d.up, ~p.on
    PROVE  Good(d, w, o)
BY DEF Safe, Good, PushInv, Told

\* And back: a good connection that nobody pushes is safe.
LEMMA GoodSafe ==
    ASSUME NEW d, NEW w, NEW o, NEW p \in PushType, Good(d, w, o), ~p.on, WireOK(w),
           d.res = "OK", ~w.cut => w.blk = d.curS
    PROVE  Safe(d, w, o, p)
BY DEF Safe, Good, PushInv, Told

\* The observer follows the connection: a block is cut when its stream is freed.
LEMMA ObserveCore ==
    ASSUME NEW d \in ConnType, NEW w \in WireType, NEW o, Core(d, w, o), d.up
    PROVE  LET v == Observe(w, d)
           IN Core(d, v, o) /\ (~v.cut => v.blk = d.curS)
<1> DEFINE v == Observe(w, d)
<1>1. /\ v.cut = (w.cut \/ w.blk \notin {0, d.curS}) /\ v.blk = w.blk /\ v.stale = w.stale
      /\ v.conn = w.conn /\ v.view = w.view /\ v.cinit = w.cinit
  BY DEF Observe, WireType
<1> HIDE DEF v
<1>2. BlockInv(d, w) /\ WinInv(d, w) /\ AckInv(d, w, o) /\ d.tree \subseteq Streams
  BY DEF Core, ConnType
<1>3. ~v.cut => v.blk = d.curS  BY <1>1, <1>2 DEF BlockInv
<1>4. BlockInv(d, v)  BY <1>3 DEF BlockInv
<1>5. WinInv(d, v)  BY <1>1, <1>2 DEF WinInv
<1>6. AckInv(d, v, o)  BY <1>1, <1>2 DEF AckInv
<1>7. Core(d, v, o)  BY <1>4, <1>5, <1>6 DEF Core
<1> QED  BY <1>3, <1>7 DEF v

\* The observer keeps the type of the wire, and what it has seen.
LEMMA ObserveType ==
    ASSUME NEW d \in ConnType, NEW w \in WireType
    PROVE  Observe(w, d) \in WireType /\ (WireOK(w) => WireOK(Observe(w, d)))
<1> DEFINE v == Observe(w, d)
           b == w.cut \/ (d.up /\ w.blk \notin {0, d.curS})
<1>2. b \in BOOLEAN  BY DEF ConnType, WireType
<1>3. v = [w EXCEPT !.cut = b]  BY DEF Observe
<1>b. w.cut => b  OBVIOUS
<1> HIDE DEF b, v
<1>4. v \in WireType /\ v.cut = b /\ v.over = w.over /\ v.conn = w.conn /\ v.mixed = w.mixed
  BY <1>2, <1>3 DEF WireType
<1>5. WireOK(w) => WireOK(v)  BY <1>4, <1>b DEF WireOK
<1> QED  BY <1>4, <1>5 DEF v

\* Control frames that enter the work queue.
LEMMA AppendGood ==
    ASSUME NEW d, NEW w, NEW o, Good(d, w, o), NEW m \in Seq(CtlType)
    PROVE  Good(d, w, o \o m) /\ ToSet(o) \subseteq ToSet(o \o m) /\ ToSet(m) \subseteq ToSet(o \o m)
<1> DEFINE z == o \o m
<1>0. o \in Seq(OutType) /\ m \in Seq(OutType)  BY DEF Good, OutType
<1>1. z \in Seq(OutType)  BY <1>0, Joined
<1>2. ASSUME NEW k \in DOMAIN z, z[k].ty = "resp"
      PROVE  k \in DOMAIN o /\ z[k] = o[k]
  <2>1. \/ k \in DOMAIN o /\ z[k] = o[k]
        \/ k - Len(o) \in DOMAIN m /\ z[k] = m[k - Len(o)]
    BY <1>0, JoinedFrom
  <2>2. \A l \in DOMAIN m : m[l].ty # "resp"
    <3>1. \A l \in DOMAIN m : m[l] \in CtlType  OBVIOUS
    <3> QED  BY <3>1 DEF CtlType
  <2> QED  BY <2>1, <2>2, <1>2
<1>3. ToSet(o) \subseteq ToSet(z) /\ ToSet(m) \subseteq ToSet(z)
  <2>1. /\ Len(o) \in Nat /\ Len(m) \in Nat /\ Len(z) = Len(o) + Len(m)
        /\ \A k \in 1..Len(o) : z[k] = o[k]
        /\ \A k \in 1..Len(m) : z[Len(o) + k] = m[k]
    BY <1>0, Joined
  <2>d. DOMAIN o = 1..Len(o) /\ DOMAIN m = 1..Len(m) /\ DOMAIN z = 1..Len(z)  BY <1>0, <1>1
  <2> HIDE DEF z
  <2>2. ASSUME NEW k \in DOMAIN o PROVE o[k] \in ToSet(z)
    <3>1. k \in DOMAIN z /\ z[k] = o[k]  BY <2>1, <2>d
    <3> QED  BY <3>1 DEF ToSet
  <2>3. ASSUME NEW k \in DOMAIN m PROVE m[k] \in ToSet(z)
    <3>1. Len(o) + k \in DOMAIN z /\ z[Len(o) + k] = m[k]  BY <2>1, <2>d
    <3> QED  BY <3>1 DEF ToSet
  <2> QED  BY <2>2, <2>3 DEF ToSet
<1> HIDE DEF z
<1>4. OutInv(d, z)
  <2>1. OutInv(d, o)  BY DEF Good, Core
  <2>2. ASSUME NEW k \in DOMAIN z, z[k].ty = "resp"
        PROVE  /\ z[k].i \in d.tree => Waits(d.s[z[k].i])
               /\ \A l \in DOMAIN z : z[l].ty = "resp" /\ z[l].i = z[k].i => l = k
    BY <2>1, <2>2, <1>2 DEF OutInv
  <2> QED  BY <2>1, <2>2 DEF OutInv
<1>5. AckInv(d, w, z)  BY <1>3 DEF Good, Core, AckInv
<1>6. Core(d, w, z)  BY <1>4, <1>5 DEF Good, Core
<1> QED  BY <1>1, <1>3, <1>6 DEF Good, z

\* A connection that was closed.
LEMMA ClosedSafe ==
    ASSUME NEW g, NEW w \in WireType, WireOK(w), NEW p \in PushType, NEW o \in Seq(OutType)
    PROVE  Safe(Term(g), w, o, p) /\ [Term(g) EXCEPT !.res = "OK"] = Term(g)
<1>1. /\ Term(g) \in ConnType /\ ~Term(g).up /\ Term(g).curS = 0 /\ ~Term(g).need
      /\ Term(g).res = "OK"
  BY TermFacts
<1>2. \A d \in ConnType : d.res = "OK" => [d EXCEPT !.res = "OK"] = d  BY DEF ConnType
<1> QED  BY <1>1, <1>2 DEF Safe

\* The result of the last handler is forgotten.
LEMMA ResGood ==
    ASSUME NEW d, NEW w, NEW o, Good(d, w, o)
    PROVE  LET e == [d EXCEPT !.res = "OK"]
           IN Good(e, w, o) /\ e.res = "OK" /\ e.curS = d.curS
<1> DEFINE e == [d EXCEPT !.res = "OK"]
<1>1. /\ e \in ConnType /\ e.has = d.has /\ e.s = d.s /\ e.tree = d.tree /\ e.closed = d.closed
      /\ e.idle = d.idle /\ e.last = d.last /\ e.curS = d.curS /\ e.wnd = d.wnd
      /\ e.init = d.init /\ e.need = d.need /\ e.wq = d.wq /\ e.up = d.up /\ e.res = "OK"
  BY DEF Good, ConnType
<1> HIDE DEF e
<1>2. Core(e, w, o)  BY <1>1, CoreSame DEF Good
<1>3. Told(e)  BY <1>1 DEF Good, Told, ReadyToSend, ActiveStreams
<1> QED  BY <1>1, <1>2, <1>3 DEF Good, e

\* A handler of the receive path keeps the invariant.
LEMMA HandledSafe ==
    ASSUME NEW x, NEW v \in WireType, WireOK(v), NEW o \in Seq(OutType), Handled(x, v, o),
           NEW p \in PushType, ~p.on,
           NEW e, e = [x.d EXCEPT !.res = "OK"],
           NEW z, z = IF x.d.up THEN o \o x.m ELSE <<>>
    PROVE  Safe(e, Observe(v, e), z, p)
<1>1. CASE Good(x.d, v, o)
  <2>1. z = o \o x.m  BY <1>1 DEF Good
  <2>2. Good(x.d, v, z)  BY <1>1, <2>1, AppendGood DEF Handled
  <2>3. Good(e, v, z) /\ e.res = "OK"  BY <2>2, ResGood
  <2> DEFINE w == Observe(v, e)
  <2>4. /\ Core(e, w, z) /\ (~w.cut => w.blk = e.curS)
        /\ w \in WireType /\ WireOK(w)
    BY <2>3, ObserveCore, ObserveType DEF Good
  <2> HIDE DEF w
  <2>5. Good(e, w, z)  BY <2>3, <2>4 DEF Good
  <2>6. Safe(e, w, z, p)  BY <2>3, <2>4, <2>5, GoodSafe
  <2> QED  BY <2>6 DEF w
<1>2. CASE \E g : x.d = Term(g)
  <2>1. PICK g : x.d = Term(g)  BY <1>2
  <2>2. e = Term(g)  BY <2>1, ClosedSafe
  <2>a. ~Term(g).up  BY TermFacts
  <2>b. ~x.d.up  BY <2>1, <2>a
  <2>3. z = <<>>  BY <2>b
  <2>c. <<>> \in Seq(OutType)  OBVIOUS
  <2>d. z \in Seq(OutType)  BY <2>3, <2>c
  <2> DEFINE w == Observe(v, e)
  <2>e. e \in ConnType  BY <2>2, TermFacts
  <2>4. w \in WireType /\ WireOK(w)  BY <2>e, ObserveType
  <2> HIDE DEF w
  <2>5. Safe(Term(g), w, z, p)  BY <2>d, <2>4, ClosedSafe
  <2> QED  BY <2>2, <2>5 DEF w
<1> QED  BY <1>1, <1>2 DEF Handled

\* A push knows that there is data: the connection is good then, too.
LEMMA SafeUpGood ==
    ASSUME NEW d, NEW w, NEW o, NEW p, Safe(d, w, o, p), d.up
    PROVE  Good(d, w, o) /\ PushInv(d, p) /\ (~w.cut => w.blk = d.curS)
BY DEF Safe, Good, PushInv, Told

\* A step of another CPU does not disturb the push.
LEMMA PushKept ==
    ASSUME NEW d, NEW e, NEW w, NEW o, NEW p, PushInv(d, p), Good(e, w, o),
           e.has = d.has, e.wq = d.wq, e.tree = d.tree,
           p.cur # 0 => (e.s[p.cur].blk => d.s[p.cur].blk)
    PROVE  PushInv(e, p)
BY DEF PushInv, Good, Told

\* SETTINGS: the acknowledgement is queued.
LEMMA SettingsSafe ==
    ASSUME NEW d, NEW w, NEW o, NEW p, Safe(d, w, o, p), d.up, ~p.on, NEW n \in WndSettings,
           NEW e, e = [[d EXCEPT !.new = n, !.need = TRUE] EXCEPT !.res = "OK"],
           NEW v, v = [w EXCEPT !.sets = Append(@, n)]
    PROVE  Safe(e, v, o \o <<Msg("ack", 0)>>, p)
<1> DEFINE z == o \o <<Msg("ack", 0)>>
<1>1. Good(d, w, o) /\ (~w.cut => w.blk = d.curS) /\ p \in PushType /\ WireOK(w)
  BY SafeUpGood DEF Safe
<1>2. <<Msg("ack", 0)>> \in Seq(CtlType) /\ Msg("ack", 0) \in ToSet(<<Msg("ack", 0)>>)
  <2>1. Msg("ack", 0) \in CtlType  BY DEF Msg, CtlType
  <2> QED  BY <2>1 DEF ToSet
<1>3. Good(d, w, z) /\ Msg("ack", 0) \in ToSet(z)  BY <1>1, <1>2, AppendGood
<1> HIDE DEF z
<1>4. n \in Nat  BY H2Bounds
<1>5. /\ e \in ConnType /\ e.has = d.has /\ e.s = d.s /\ e.tree = d.tree /\ e.closed = d.closed
      /\ e.idle = d.idle /\ e.curS = d.curS /\ e.wnd = d.wnd
      /\ e.init = d.init /\ e.wq = d.wq /\ e.up = d.up /\ e.res = "OK"
  BY <1>3, <1>4 DEF Good, ConnType
<1>v. /\ v \in WireType /\ v.blk = w.blk /\ v.cut = w.cut /\ v.conn = w.conn /\ v.view = w.view
      /\ v.stale = w.stale /\ v.cinit = w.cinit /\ v.over = w.over /\ v.mixed = w.mixed
  <2>1. w \in WireType  BY <1>1 DEF Good
  <2>2. Append(w.sets, n) \in Seq(Nat)  BY <2>1, <1>4 DEF WireType
  <2>3. v = [w EXCEPT !.sets = Append(w.sets, n)]  OBVIOUS
  <2> QED  BY <2>1, <2>2, <2>3 DEF WireType
<1>6. CurInv(e) /\ IdleInv(e)  BY <1>3, <1>5 DEF Good, Core, CurInv, IdleInv
<1>7. OutInv(e, z)  BY <1>3, <1>5 DEF Good, Core, OutInv
<1>8. WinInv(e, v)  BY <1>3, <1>5, <1>v DEF Good, Core, WinInv
<1>9. BlockInv(e, v) /\ AckInv(e, v, z)  BY <1>3, <1>5, <1>v DEF Good, Core, BlockInv, AckInv
<1>10. Core(e, v, z)  BY <1>3, <1>5, <1>6, <1>7, <1>8, <1>9 DEF Good, Core
<1>11. Told(e)  BY <1>3, <1>5 DEF Good, Told, ReadyToSend, ActiveStreams
<1>12. Good(e, v, z)  BY <1>3, <1>5, <1>v, <1>10, <1>11 DEF Good
<1>14. WireOK(v)  BY <1>1, <1>v DEF WireOK
<1>13. Safe(e, v, z, p)  BY <1>1, <1>5, <1>v, <1>12, <1>14, GoodSafe
<1> QED  BY <1>13 DEF z

\* PING
LEMMA PingSafe ==
    ASSUME NEW d, NEW w, NEW o, NEW p, Safe(d, w, o, p), d.up, ~p.on,
           NEW e, e = [d EXCEPT !.res = "OK"]
    PROVE  Safe(e, w, o \o <<Msg("ctl", 0)>>, p)
<1>1. Good(d, w, o) /\ (~w.cut => w.blk = d.curS) /\ p \in PushType /\ WireOK(w)
  BY SafeUpGood DEF Safe
<1>2. <<Msg("ctl", 0)>> \in Seq(CtlType)  BY MsgType
<1>3. Good(d, w, o \o <<Msg("ctl", 0)>>)  BY <1>1, <1>2, AppendGood
<1>4. Good(e, w, o \o <<Msg("ctl", 0)>>) /\ e.res = "OK" /\ e.curS = d.curS  BY <1>3, ResGood
<1> QED  BY <1>1, <1>4, GoodSafe

\* Another CPU has the response.
LEMMA RespInitSafe ==
    ASSUME NEW d, NEW w, NEW o, NEW p, Safe(d, w, o, p), d.up,
           NEW i \in d.tree, NEW l \in Responses, d.s[i].req = "full",
           NEW e, e = [d EXCEPT !.s[i] = [@ EXCEPT !.req = "no", !.xs = "hdrs",
                          !.h = 0, !.b = 0, !.t = 0, !.resp = FALSE, !.blk = FALSE]]
    PROVE  Safe(e, w, Append(o, [ty |-> "resp", i |-> i, len |-> l]), p)
<1> DEFINE q == d.s[i]
           r == [q EXCEPT !.req = "no", !.xs = "hdrs",
                          !.h = 0, !.b = 0, !.t = 0, !.resp = FALSE, !.blk = FALSE]
           m == [ty |-> "resp", i |-> i, len |-> l]
           z == Append(o, m)
<1>1. /\ Good(d, w, o) /\ PushInv(d, p) /\ (~w.cut => w.blk = d.curS) /\ p \in PushType
      /\ WireOK(w) /\ d.res = "OK"
  BY SafeUpGood DEF Safe
<1>2. /\ d \in ConnType /\ w \in WireType /\ o \in Seq(OutType) /\ Core(d, w, o) /\ d.up /\ Told(d)
      /\ d.tree \subseteq Streams /\ i \in Streams /\ q \in StreamType /\ d.curS \in Streams \cup {0}
  BY <1>1 DEF Good, ConnType
<1>3. Transmits(q) /\ q.xs = "no" /\ q.tail = <<>> /\ q.st \notin {"IDLE", "OPENED"}
  BY <1>2 DEF Core, Transmits, HasSkb
<1>4. e = [d EXCEPT !.s[i] = r]  OBVIOUS
<1>5. /\ r \in StreamType /\ Transmits(r) /\ Waits(r) /\ r.st = q.st /\ r.wnd = q.wnd
      /\ ~Active(r) /\ r.post = q.post /\ ~r.blk
  <2>1. /\ r \in StreamType /\ r.req = "no" /\ r.xs = "hdrs" /\ r.h = 0 /\ r.b = 0 /\ r.t = 0
        /\ r.resp = FALSE /\ r.blk = FALSE /\ r.st = q.st /\ r.wnd = q.wnd /\ r.tail = q.tail
        /\ r.post = q.post
    BY <1>2 DEF StreamType
  <2> HIDE DEF r, q
  <2> QED  BY <2>1, <1>3 DEF Transmits, Waits, Active, HasSkb
<1>6. i # d.curS
  BY <1>2, <1>3, StreamsNat DEF Core, CurInv
<1>8. ASSUME NEW k \in DOMAIN o, o[k].ty = "resp" PROVE o[k].i # i
  BY <1>8, <1>2, <1>3 DEF Core, OutInv, Waits
<1> HIDE DEF r
<1>9. Core(e, w, o)
  <2>1. q.st = "IDLE" => r.st = "IDLE"  BY <1>5
  <2>2. r.st \in Live => q.st \in Live /\ r.wnd = q.wnd  BY <1>5
  <2> QED  BY <1>2, <1>4, <1>5, <1>6, <1>8, <2>1, <2>2, PutCore
<1>10. /\ e \in ConnType /\ Fixed(d, e) /\ e.res = d.res /\ e.tree = d.tree /\ e.curS = d.curS
       /\ e.s[i] = r /\ \A j \in Streams \ {i} : e.s[j] = d.s[j]
  <2> DEFINE g == [d EXCEPT !.s[i] = r]
  <2>1. /\ g \in ConnType /\ Fixed(d, g) /\ g.res = d.res /\ g.tree = d.tree /\ g.curS = d.curS
        /\ g.s[i] = r /\ \A j \in Streams \ {i} : g.s[j] = d.s[j]
    BY <1>2, <1>5, PutStream
  <2>2. e = g  BY <1>4
  <2> HIDE DEF g
  <2> QED  BY <2>1, <2>2
<1>11. Told(e)
  <2>1. Active(r) => Active(d.s[i])  BY <1>5
  <2> DEFINE g == [d EXCEPT !.s[i] = r]
  <2>2. Told(g)  BY <1>2, <1>5, <2>1, PutTold
  <2>3. e = g  BY <1>4
  <2> HIDE DEF g
  <2> QED  BY <2>2, <2>3
<1>12. m \in OutType /\ m.ty = "resp" /\ m.i = i
  BY <1>2 DEF OutType, RespType
<1> HIDE DEF m
<1>13. /\ z \in Seq(OutType) /\ Len(z) = Len(o) + 1 /\ z[Len(o) + 1] = m /\ Len(o) \in Nat
       /\ \A k \in 1..Len(o) : z[k] = o[k]
  BY <1>2, <1>12
<1> HIDE DEF z
<1>14. ASSUME NEW k \in DOMAIN z
       PROVE  (k \in DOMAIN o /\ z[k] = o[k]) \/ (k = Len(o) + 1 /\ z[k] = m)
  BY <1>13, <1>2
<1>15. OutInv(e, z)
  <2>1. OutInv(e, o)  BY <1>9 DEF Core
  <2>3. ASSUME NEW k \in DOMAIN z, z[k].ty = "resp"
        PROVE  /\ z[k].i \in e.tree => Waits(e.s[z[k].i])
               /\ \A j \in DOMAIN z : z[j].ty = "resp" /\ z[j].i = z[k].i => j = k
    <3>1. CASE k \in DOMAIN o /\ z[k] = o[k]
      BY <2>1, <2>3, <3>1, <1>8, <1>12, <1>14 DEF OutInv
    <3>2. CASE k = Len(o) + 1 /\ z[k] = m
      BY <3>2, <1>5, <1>8, <1>10, <1>12, <1>14
    <3> QED  BY <3>1, <3>2, <1>14
  <2> QED  BY <2>1, <2>3 DEF OutInv
<1>16. AckInv(e, w, z)
  <2>1. ToSet(o) \subseteq ToSet(z)
    <3>1. \A k \in DOMAIN o : k \in DOMAIN z /\ z[k] = o[k]  BY <1>2, <1>13
    <3> QED  BY <3>1 DEF ToSet
  <2> QED  BY <2>1, <1>9 DEF Core, AckInv
<1>17. Good(e, w, z)
  <2>1. Core(e, w, z)  BY <1>9, <1>15, <1>16 DEF Core
  <2>2. e.up  BY <1>2, <1>10 DEF Fixed
  <2> QED  BY <2>1, <2>2, <1>2, <1>10, <1>11, <1>13 DEF Good
<1>18. PushInv(e, p)
  <2>1. p.cur # 0 => (e.s[p.cur].blk => d.s[p.cur].blk)
    BY <1>1, <1>5, <1>10 DEF PushType
  <2>2. e.has = d.has /\ e.wq = d.wq  BY <1>10 DEF Fixed
  <2> QED  BY <1>1, <1>10, <1>17, <2>1, <2>2, PushKept
<1>19. Safe(e, w, z, p)
  BY <1>1, <1>10, <1>17, <1>18 DEF Safe, Good
<1> QED  BY <1>19 DEF z, m

\* Another CPU gives the request up.
LEMMA CloseReqSafe ==
    ASSUME NEW d, NEW w, NEW o, NEW p, Safe(d, w, o, p), d.up,
           NEW i \in d.tree, d.s[i].req = "full",
           NEW e, e = AddClosed(SetState([d EXCEPT !.s[i].req = "no"], i, "CLOSED"), i)
    PROVE  Safe(e, w, o, p)
<1> DEFINE q == d.s[i]
           r == [q EXCEPT !.req = "no", !.st = "CLOSED"]
           g == [d EXCEPT !.s[i] = r]
<1>1. /\ Good(d, w, o) /\ PushInv(d, p) /\ (~w.cut => w.blk = d.curS) /\ p \in PushType
      /\ WireOK(w) /\ d.res = "OK"
  BY SafeUpGood DEF Safe
<1>2. /\ d \in ConnType /\ w \in WireType /\ o \in Seq(OutType) /\ Core(d, w, o) /\ d.up /\ Told(d)
      /\ d.tree \subseteq Streams /\ i \in Streams /\ q \in StreamType /\ d.curS \in Streams \cup {0}
      /\ d.s \in [Streams -> StreamType]
  BY <1>1 DEF Good, ConnType
<1>3. Transmits(q) /\ q.xs = "no" /\ q.st \notin {"IDLE", "OPENED"}
  BY <1>2 DEF Core, Transmits, HasSkb
<1>4. e = AddClosed(g, i)
  <2>1. SetState([d EXCEPT !.s[i].req = "no"], i, "CLOSED") = g
    BY <1>2 DEF SetState, ConnType, StreamType
  <2> QED  BY <2>1
<1>5. /\ r \in StreamType /\ Transmits(r) /\ r.st = "CLOSED" /\ r.xs = "no" /\ r.req = "no"
      /\ (Active(r) => Active(q)) /\ r.blk = q.blk
  <2>1. /\ r \in StreamType /\ r.req = "no" /\ r.xs = q.xs /\ r.h = q.h /\ r.b = q.b /\ r.t = q.t
        /\ r.resp = q.resp /\ r.blk = q.blk /\ r.st = "CLOSED" /\ r.tail = q.tail
    BY <1>2 DEF StreamType, States
  <2> HIDE DEF r, q
  <2> QED  BY <2>1, <1>3 DEF Transmits, Active, HasSkb
<1>6. i # d.curS
  BY <1>2, <1>3, StreamsNat DEF Core, CurInv
<1>8. ASSUME NEW k \in DOMAIN o, o[k].ty = "resp" PROVE o[k].i # i
  BY <1>8, <1>2, <1>3 DEF Core, OutInv, Waits
<1> HIDE DEF r
<1>9. Core(g, w, o)
  <2>1. q.st # "IDLE" /\ r.st \notin Live  BY <1>3, <1>5 DEF Live
  <2> QED  BY <1>2, <1>5, <1>6, <1>8, <2>1, PutCore
<1>10. /\ g \in ConnType /\ Fixed(d, g) /\ g.res = d.res /\ g.tree = d.tree /\ g.curS = d.curS
       /\ g.s[i] = r /\ \A j \in Streams \ {i} : g.s[j] = d.s[j]
  BY <1>2, <1>5, PutStream
<1>11. Told(g)  BY <1>2, <1>5, PutTold
<1> HIDE DEF g
<1>12. Good(g, w, o)
  <2>1. g.up  BY <1>2, <1>10 DEF Fixed
  <2> QED  BY <2>1, <1>2, <1>9, <1>10, <1>11 DEF Good
<1>13. /\ Good(e, w, o) /\ e.has = g.has /\ e.wq = g.wq /\ e.tree = g.tree /\ e.s = g.s
       /\ e.curS = g.curS /\ e.res = g.res
  <2>1. Good(e, w, o)  BY <1>2, <1>4, <1>10, <1>12, AddClosedGood
  <2>2. /\ e.has = g.has /\ e.wq = g.wq /\ e.tree = g.tree /\ e.s = g.s
        /\ e.curS = g.curS /\ e.res = g.res
    BY <1>4, <1>10 DEF AddClosed, ConnType
  <2> QED  BY <2>1, <2>2
<1>14. PushInv(e, p)
  <2>1. p.cur # 0 => (e.s[p.cur].blk => d.s[p.cur].blk)
    BY <1>1, <1>5, <1>10, <1>13 DEF PushType
  <2>2. e.has = d.has /\ e.wq = d.wq  BY <1>10, <1>13 DEF Fixed
  <2> QED  BY <1>1, <1>10, <1>13, <2>1, <2>2, PushKept
<1> QED  BY <1>1, <1>10, <1>13, <1>14 DEF Safe, Good

\* The first message leaves the work queue; an acknowledgement is kept elsewhere.
LEMMA TailCore ==
    ASSUME NEW d, NEW w, NEW o \in Seq(OutType), Core(d, w, o), o # <<>>,
           Head(o) = Msg("ack", 0) =>
              Head(o) \in ToSet(d.wq) \cup (IF d.curS = 0 THEN {} ELSE ToSet(d.s[d.curS].post))
    PROVE  Core(d, w, Tail(o)) /\ Tail(o) \in Seq(OutType)
<1> DEFINE z == Tail(o)
<1>1. /\ z \in Seq(OutType) /\ Len(z) = Len(o) - 1 /\ Len(o) \in Nat /\ Len(o) > 0
      /\ \A k \in 1..Len(z) : z[k] = o[k + 1]
  OBVIOUS
<1>2. DOMAIN z = 1..Len(z) /\ DOMAIN o = 1..Len(o) /\ Head(o) = o[1]  BY <1>1
<1> HIDE DEF z
<1>3. \A k \in DOMAIN z : k + 1 \in DOMAIN o /\ z[k] = o[k + 1] /\ k \in Nat  BY <1>1, <1>2
<1>4. \A k \in DOMAIN o : k = 1 \/ (k - 1 \in DOMAIN z /\ o[k] = z[k - 1])
  <2> SUFFICES ASSUME NEW k \in DOMAIN o, k # 1 PROVE k - 1 \in DOMAIN z /\ o[k] = z[k - 1]
    OBVIOUS
  <2>1. k - 1 \in 1..Len(z) /\ (k - 1) + 1 = k  BY <1>1, <1>2
  <2>2. z[k - 1] = o[(k - 1) + 1]  BY <2>1, <1>1
  <2> QED  BY <2>1, <2>2, <1>2
<1>5. OutInv(d, z)
  <2>1. OutInv(d, o)  BY DEF Core
  <2>2. ASSUME NEW k \in DOMAIN z, z[k].ty = "resp"
        PROVE  /\ z[k].i \in d.tree => Waits(d.s[z[k].i])
               /\ \A l \in DOMAIN z : z[l].ty = "resp" /\ z[l].i = z[k].i => l = k
    <3>1. k + 1 \in DOMAIN o /\ z[k] = o[k + 1] /\ k \in Nat  BY <1>3
    <3>2. ASSUME NEW l \in DOMAIN z, z[l].ty = "resp", z[l].i = z[k].i PROVE l = k
      <4>1. l + 1 \in DOMAIN o /\ z[l] = o[l + 1] /\ l \in Nat  BY <1>3
      <4>2. l + 1 = k + 1  BY <2>1, <2>2, <3>1, <3>2, <4>1 DEF OutInv
      <4> QED  BY <3>1, <4>1, <4>2
    <3> QED  BY <2>1, <2>2, <3>1, <3>2 DEF OutInv
  <2> QED  BY <2>1, <2>2 DEF OutInv
<1>6. AckInv(d, w, z)
  <2>1. ToSet(o) \subseteq ToSet(z) \cup {Head(o)}  BY <1>2, <1>4 DEF ToSet
  <2> QED  BY <2>1 DEF Core, AckInv
<1>7. Core(d, w, z)  BY <1>5, <1>6 DEF Core
<1> QED  BY <1>1, <1>7 DEF z

\* An element that is appended, and the ones before it.
LEMMA Appended ==
    ASSUME NEW S, NEW q \in Seq(S), NEW m \in S
    PROVE  /\ Append(q, m) \in Seq(S) /\ m \in ToSet(Append(q, m))
           /\ ToSet(q) \subseteq ToSet(Append(q, m)) /\ Append(q, m) # <<>>
<1> DEFINE z == Append(q, m)
<1>1. /\ z \in Seq(S) /\ Len(z) = Len(q) + 1 /\ z[Len(q) + 1] = m /\ Len(q) \in Nat
      /\ \A k \in 1..Len(q) : z[k] = q[k]
  OBVIOUS
<1>2. DOMAIN z = 1..(Len(q) + 1) /\ DOMAIN q = 1..Len(q)  BY <1>1
<1> HIDE DEF z
<1>3. Len(q) + 1 \in DOMAIN z /\ \A k \in DOMAIN q : k \in DOMAIN z /\ z[k] = q[k]  BY <1>1, <1>2
<1>4. m \in ToSet(z) /\ ToSet(q) \subseteq ToSet(z)  BY <1>1, <1>3 DEF ToSet
<1>5. z # <<>>  BY <1>1
<1> QED  BY <1>1, <1>4, <1>5 DEF z

\* Where ss_do_send() may put a message.
WithResp(d, m) ==
    [d EXCEPT !.s[m.i] = [@ EXCEPT !.resp = TRUE, !.h = m.len.h, !.b = m.len.b, !.t = m.len.t],
              !.has = TRUE]
WithTail(d, m) == [d EXCEPT !.s[m.i].tail = Append(@, m)]
WithPost(d, m) == [d EXCEPT !.s[d.curS].post = Append(@, m)]
WithQueue(d, m) == [d EXCEPT !.wq = Append(@, m), !.has = TRUE]

\* ss_do_send(): a response reaches its stream.
LEMMA SendResp ==
    ASSUME NEW d, NEW w, NEW o, Good(d, w, o), o # <<>>, NEW m, m = Head(o), m.ty = "resp",
           NotClosed(d, m.i),
           NEW e, e = WithResp(d, m)
    PROVE  Good(e, w, Tail(o)) /\ e.res = d.res /\ e.curS = d.curS
<1> DEFINE i == m.i
           q == d.s[i]
           r == [q EXCEPT !.resp = TRUE, !.h = m.len.h, !.b = m.len.b, !.t = m.len.t]
           g == [d EXCEPT !.s[i] = r]
           z == Tail(o)
<1>1. d \in ConnType /\ w \in WireType /\ o \in Seq(OutType) /\ Core(d, w, o) /\ d.up /\ d.tree \subseteq Streams
  BY DEF Good, ConnType
<1>2. 1 \in DOMAIN o /\ m = o[1] /\ m \in OutType  BY <1>1
<1>3. i \in Streams /\ m.len \in Responses /\ i \in d.tree /\ q \in StreamType
  BY <1>1, <1>2 DEF OutType, CtlType, RespType, NotClosed, ConnType
<1>4. m.len.h \in Nat /\ m.len.h > 0 /\ m.len.b \in Nat /\ m.len.t \in Nat
  BY <1>3, H2Bounds
<1>5. Waits(q) /\ Transmits(q)
  BY <1>1, <1>2, <1>3 DEF Core, OutInv
<1>6. ASSUME NEW k \in DOMAIN z, z[k].ty = "resp" PROVE z[k].i # i
  <2>1. k + 1 \in DOMAIN o /\ z[k] = o[k + 1] /\ k + 1 # 1
    <3>1. Len(z) = Len(o) - 1 /\ Len(o) \in Nat /\ Len(o) > 0 /\ z \in Seq(OutType)
          /\ \A j \in 1..Len(z) : z[j] = o[j + 1]
      BY <1>1
    <3>2. DOMAIN z = 1..Len(z) /\ DOMAIN o = 1..Len(o)  BY <3>1, <1>1
    <3> HIDE DEF z
    <3> QED  BY <3>1, <3>2
  <2> QED  BY <2>1, <1>1, <1>2, <1>6 DEF Core, OutInv
<1>7. Core(d, w, z) /\ z \in Seq(OutType)
  <2>1. Head(o) # Msg("ack", 0)
    <3>1. Msg("ack", 0).ty = "ack"  BY DEF Msg
    <3> QED  BY <3>1
  <2> QED  BY <1>1, <2>1, TailCore
<1> HIDE DEF z
<1>8. /\ r \in StreamType /\ Transmits(r) /\ r.st = q.st /\ r.xs = "hdrs" /\ r.wnd = q.wnd
      /\ r.post = q.post
  <2>1. /\ r \in StreamType /\ r.xs = q.xs /\ r.st = q.st /\ r.h = m.len.h /\ r.req = q.req
        /\ r.blk = q.blk /\ r.wnd = q.wnd /\ r.post = q.post
    BY <1>3, <1>4 DEF StreamType
  <2>2. r.h > 0 /\ r.h # 0  BY <2>1, <1>4
  <2>3. q.xs = "hdrs" /\ ~q.blk /\ q.req = "no" /\ q.st \notin {"IDLE", "OPENED"}
    BY <1>5 DEF Waits, Transmits
  <2> HIDE DEF r, q
  <2> QED  BY <2>1, <2>2, <2>3 DEF Transmits
<1> HIDE DEF r
<1>9. i # d.curS
  <2>1. i # 0  BY <1>3, StreamsNat
  <2> QED  BY <2>1, <1>1, <1>5 DEF Core, CurInv, Waits
<1>10. Core(g, w, z)
  <2>1. (q.st = "IDLE" => r.st = "IDLE") /\ (r.st \in Live => q.st \in Live /\ r.wnd = q.wnd)
    BY <1>8
  <2> HIDE DEF i
  <2> QED  BY <1>1, <1>3, <1>5, <1>6, <1>7, <1>8, <1>9, <2>1, PutCore
<1>11. g \in ConnType /\ Fixed(d, g) /\ g.res = d.res /\ g.curS = d.curS
  BY <1>1, <1>3, <1>8, PutStream
<1>12. e = [g EXCEPT !.has = TRUE]  BY DEF r, WithResp
<1> HIDE DEF g
<1>13. /\ e \in ConnType /\ e.has = TRUE /\ e.s = g.s /\ e.tree = g.tree /\ e.closed = g.closed
       /\ e.idle = g.idle /\ e.last = g.last /\ e.curS = g.curS /\ e.wnd = g.wnd
       /\ e.init = g.init /\ e.need = g.need /\ e.wq = g.wq /\ e.up = g.up /\ e.res = g.res
  BY <1>11, <1>12 DEF ConnType
<1>14. Core(e, w, z)  BY <1>10, <1>13, CoreSame
<1>15. Good(e, w, z)  BY <1>1, <1>7, <1>11, <1>13, <1>14 DEF Good, Told, Fixed
<1> QED  BY <1>11, <1>13, <1>15 DEF z

\* ss_do_send(): RST_STREAM behind a response.
LEMMA SendBehind ==
    ASSUME NEW d, NEW w, NEW o, Good(d, w, o), o # <<>>, NEW m, m = Head(o), m.ty = "rst",
           NotClosed(d, m.i), HasSkb(d.s[m.i]),
           NEW e, e = WithTail(d, m)
    PROVE  Good(e, w, Tail(o)) /\ e.res = d.res /\ e.curS = d.curS
<1> DEFINE i == m.i
           q == d.s[i]
           r == [q EXCEPT !.tail = Append(q.tail, m)]
           g == [d EXCEPT !.s[i] = r]
           z == Tail(o)
<1>1. d \in ConnType /\ w \in WireType /\ o \in Seq(OutType) /\ Core(d, w, o) /\ d.up /\ d.tree \subseteq Streams
      /\ Told(d) /\ OutInv(d, o)
  BY DEF Good, ConnType, Core
<1>2. 1 \in DOMAIN o /\ m = o[1] /\ m \in OutType  BY <1>1
<1>3. i \in Streams /\ m \in CtlType /\ i \in d.tree /\ q \in StreamType
  BY <1>1, <1>2 DEF OutType, RespType, NotClosed, ConnType
<1>4. Append(q.tail, m) \in Seq(CtlType) /\ Append(q.tail, m) # <<>>
  <2>1. q.tail \in Seq(CtlType)  BY <1>3 DEF StreamType
  <2> HIDE DEF q
  <2> QED  BY <2>1, <1>3, Appended
<1>5. Transmits(q) /\ HasSkb(q)  BY <1>1, <1>3 DEF Core
<1>6. ASSUME NEW k \in DOMAIN o, o[k].ty = "resp" PROVE o[k].i # i
  BY <1>1, <1>3, <1>5, <1>6 DEF OutInv, Waits, Transmits
<1>8. /\ r \in StreamType /\ Transmits(r) /\ r.st = q.st /\ r.xs = q.xs /\ r.wnd = q.wnd
      /\ r.post = q.post /\ r.req = q.req /\ (Active(r) => Active(q))
  <2>1. /\ r \in StreamType /\ r.req = q.req /\ r.xs = q.xs /\ r.h = q.h /\ r.b = q.b /\ r.t = q.t
        /\ r.resp = q.resp /\ r.blk = q.blk /\ r.st = q.st /\ r.wnd = q.wnd /\ r.post = q.post
    BY <1>3, <1>4 DEF StreamType
  <2> HIDE DEF r, q
  <2> QED  BY <2>1, <1>5, SMTT(30) DEF Transmits, Active
<1>e. e = g  BY DEF WithTail
<1> HIDE DEF r
<1>9. i = d.curS => r.st = "REM_HALF_CLOSED" /\ r.xs \in {"cont", "trlc"}
  <2>1. i # 0  BY <1>3, StreamsNat
  <2> QED  BY <2>1, <1>1, <1>8 DEF Core, CurInv
<1>10. Core(g, w, o)
  <2>1. (q.st = "IDLE" => r.st = "IDLE") /\ (r.st \in Live => q.st \in Live /\ r.wnd = q.wnd)
    BY <1>8
  <2> HIDE DEF i
  <2> QED  BY <1>1, <1>3, <1>6, <1>8, <1>9, <2>1, PutCore
<1>11. g \in ConnType /\ Fixed(d, g) /\ g.res = d.res /\ g.curS = d.curS
  BY <1>1, <1>3, <1>8, PutStream
<1>12. Told(g)  BY <1>1, <1>3, <1>8, PutTold
<1> HIDE DEF g
<1>7. Core(g, w, z) /\ z \in Seq(OutType)
  <2>1. Head(o) # Msg("ack", 0)
    <3>1. Msg("ack", 0).ty = "ack"  BY DEF Msg
    <3> QED  BY <3>1
  <2> QED  BY <1>1, <1>10, <2>1, TailCore
<1>15. Good(g, w, z)  BY <1>1, <1>7, <1>11, <1>12 DEF Good, Fixed
<1> QED  BY <1>e, <1>11, <1>15 DEF z

\* ss_do_send(): a control frame is postponed behind the header block.
LEMMA SendPost ==
    ASSUME NEW d, NEW w, NEW o, Good(d, w, o), o # <<>>, NEW m, m = Head(o), m.ty # "resp",
           d.curS # 0,
           NEW e, e = WithPost(d, m)
    PROVE  Good(e, w, Tail(o)) /\ e.res = d.res /\ e.curS = d.curS
<1> DEFINE i == d.curS
           q == d.s[i]
           r == [q EXCEPT !.post = Append(q.post, m)]
           g == [d EXCEPT !.s[i] = r]
           z == Tail(o)
<1>1. d \in ConnType /\ w \in WireType /\ o \in Seq(OutType) /\ Core(d, w, o) /\ d.up /\ d.tree \subseteq Streams
      /\ Told(d) /\ OutInv(d, o)
  BY DEF Good, ConnType, Core
<1>2. 1 \in DOMAIN o /\ m = o[1] /\ m \in OutType  BY <1>1
<1>3. i \in Streams /\ m \in CtlType /\ i \in d.tree /\ q \in StreamType
      /\ q.st = "REM_HALF_CLOSED" /\ q.xs \in {"cont", "trlc"}
  BY <1>1, <1>2 DEF OutType, RespType, ConnType, Core, CurInv
<1>4. /\ Append(q.post, m) \in Seq(CtlType) /\ m \in ToSet(Append(q.post, m))
      /\ ToSet(q.post) \subseteq ToSet(Append(q.post, m))
  BY <1>3, Appended DEF StreamType
<1>5. Transmits(q)  BY <1>1, <1>3 DEF Core
<1>6. ASSUME NEW k \in DOMAIN o, o[k].ty = "resp" PROVE o[k].i # i
  BY <1>1, <1>3, <1>6 DEF OutInv, Waits
<1>8. /\ r \in StreamType /\ Transmits(r) /\ r.st = q.st /\ r.xs = q.xs /\ r.wnd = q.wnd
      /\ r.req = q.req /\ (Active(r) => Active(q)) /\ r.post = Append(q.post, m)
  <2>1. /\ r \in StreamType /\ r.req = q.req /\ r.xs = q.xs /\ r.h = q.h /\ r.b = q.b /\ r.t = q.t
        /\ r.resp = q.resp /\ r.blk = q.blk /\ r.st = q.st /\ r.wnd = q.wnd /\ r.tail = q.tail
        /\ r.post = Append(q.post, m)
    BY <1>3, <1>4 DEF StreamType
  <2> HIDE DEF r, q
  <2> QED  BY <2>1, <1>5 DEF Transmits, Active, HasSkb
<1>e. e = g  BY DEF WithPost
<1> HIDE DEF r
<1>10. Core(g, w, o)
  <2>1. (q.st = "IDLE" => r.st = "IDLE") /\ (r.st \in Live => q.st \in Live /\ r.wnd = q.wnd)
    BY <1>8
  <2>3. /\ r.st = "REM_HALF_CLOSED" /\ r.xs \in {"cont", "trlc"}
        /\ ToSet(q.post) \subseteq ToSet(r.post)
    BY <1>3, <1>4, <1>8
  <2> HIDE DEF i
  <2> QED  BY <1>1, <1>3, <1>6, <1>8, <2>1, <2>3, PutCore
<1>11. g \in ConnType /\ Fixed(d, g) /\ g.res = d.res /\ g.curS = d.curS /\ g.s[i] = r
  <2> HIDE DEF i
  <2> QED  BY <1>1, <1>3, <1>8, PutStream
<1>12. Told(g)  BY <1>1, <1>3, <1>8, PutTold
<1>13. m \in ToSet(g.s[g.curS].post)  BY <1>4, <1>8, <1>11
<1> HIDE DEF g
<1>7. Core(g, w, z) /\ z \in Seq(OutType)
  BY <1>1, <1>10, <1>11, <1>13, TailCore
<1>15. Good(g, w, z)  BY <1>1, <1>7, <1>11, <1>12 DEF Good, Fixed
<1> QED  BY <1>e, <1>11, <1>15 DEF z

\* ss_do_send(): a control frame enters the write queue.
LEMMA SendQueue ==
    ASSUME NEW d, NEW w, NEW o, Good(d, w, o), o # <<>>, NEW m, m = Head(o), m.ty # "resp",
           d.curS = 0,
           NEW e, e = WithQueue(d, m)
    PROVE  Good(e, w, Tail(o)) /\ e.res = d.res /\ e.curS = d.curS
<1>1. d \in ConnType /\ w \in WireType /\ o \in Seq(OutType) /\ Core(d, w, o) /\ d.up
  BY DEF Good
<1>2. 1 \in DOMAIN o /\ m = o[1] /\ m \in OutType  BY <1>1
<1>3. m \in CtlType /\ d.wq \in Seq(CtlType)  BY <1>1, <1>2 DEF OutType, RespType, ConnType
<1>4. /\ Append(d.wq, m) \in Seq(CtlType) /\ m \in ToSet(Append(d.wq, m))
      /\ ToSet(d.wq) \subseteq ToSet(Append(d.wq, m))
  BY <1>3, Appended
<1>5. /\ e \in ConnType /\ e.has = TRUE /\ e.s = d.s /\ e.tree = d.tree /\ e.closed = d.closed
      /\ e.idle = d.idle /\ e.last = d.last /\ e.curS = d.curS /\ e.wnd = d.wnd
      /\ e.init = d.init /\ e.need = d.need /\ e.wq = Append(d.wq, m) /\ e.up = d.up /\ e.res = d.res
  BY <1>1, <1>4 DEF ConnType, WithQueue
<1>6. CurInv(e) /\ IdleInv(e)  BY <1>1, <1>5 DEF Core, CurInv, IdleInv
<1>7. OutInv(e, o)  BY <1>1, <1>5 DEF Core, OutInv
<1>8. WinInv(e, w)  BY <1>1, <1>5 DEF Core, WinInv
<1>9. BlockInv(e, w) /\ AckInv(e, w, o)  BY <1>1, <1>4, <1>5 DEF Core, BlockInv, AckInv
<1>10. Core(e, w, o)  BY <1>1, <1>5, <1>6, <1>7, <1>8, <1>9 DEF Core
<1>11. Core(e, w, Tail(o)) /\ Tail(o) \in Seq(OutType)  BY <1>1, <1>4, <1>5, <1>10, TailCore
<1> QED  BY <1>1, <1>5, <1>11 DEF Good, Told

\* ss_do_send()
LEMMA DoSendSafe ==
    ASSUME NEW d, NEW w, NEW o, NEW p, Safe(d, w, o, p), d.up, ~p.on, o # <<>>
    PROVE  Safe(Deliver(d, Head(o)), w, Tail(o), p)
<1> DEFINE m == Head(o)
           behind == m.ty = "rst" /\ NotClosed(d, m.i) /\ HasSkb(d.s[m.i])
           e == Deliver(d, m)
<1>1. Good(d, w, o) /\ (~w.cut => w.blk = d.curS) /\ p \in PushType /\ WireOK(w) /\ d.res = "OK"
  BY SafeUpGood DEF Safe
<1>2. Good(e, w, Tail(o)) /\ e.res = d.res /\ e.curS = d.curS
  <2>1. CASE m.ty = "resp" /\ ~NotClosed(d, m.i)
    <3>1. e = d  BY <2>1 DEF Deliver
    <3>2. Head(o) # Msg("ack", 0)
      <4>1. Msg("ack", 0).ty = "ack"  BY DEF Msg
      <4> QED  BY <2>1, <4>1
    <3>3. Core(d, w, Tail(o)) /\ Tail(o) \in Seq(OutType)  BY <1>1, <3>2, TailCore DEF Good
    <3> QED  BY <1>1, <3>1, <3>3 DEF Good
  <2>2. CASE m.ty = "resp" /\ NotClosed(d, m.i)
    <3>1. e = WithResp(d, m)  BY <2>2 DEF Deliver, WithResp
    <3> HIDE DEF e, m
    <3> QED  BY <1>1, <2>2, <3>1, SendResp DEF m
  <2>3. CASE behind
    <3>1. e = WithTail(d, m)  BY <2>3 DEF Deliver, WithTail
    <3> HIDE DEF e
    <3> QED  BY <1>1, <2>3, <3>1, SendBehind
  <2>4. CASE ~behind /\ m.ty # "resp" /\ d.curS # 0
    <3>1. e = WithPost(d, m)  BY <2>4 DEF Deliver, WithPost
    <3> HIDE DEF e, behind
    <3> QED  BY <1>1, <2>4, <3>1, SendPost
  <2>5. CASE ~behind /\ m.ty # "resp" /\ d.curS = 0
    <3>1. e = WithQueue(d, m)  BY <2>5 DEF Deliver, WithQueue
    <3> HIDE DEF e, behind
    <3> QED  BY <1>1, <2>5, <3>1, SendQueue
  <2> QED  BY <2>1, <2>2, <2>3, <2>4, <2>5
<1> HIDE DEF e
<1>3. Safe(e, w, Tail(o), p)  BY <1>1, <1>2, GoodSafe
<1> QED  BY <1>3 DEF e

----------------------------------------------------------------------------
(* The sending path.  While a frame of a stream is made, the stream itself  *)
(* is between two states: Mid is the invariant with the exception of the    *)
(* streams in I, and the acknowledgement is followed on its own.            *)

Mid(d, w, o, I) ==
    /\ \A j \in Streams \ I : Transmits(d.s[j])
    /\ d.curS # 0 => /\ d.curS \in d.tree /\ d.s[d.curS].st = "REM_HALF_CLOSED"
                     /\ d.curS \in I \/ d.s[d.curS].xs \in {"cont", "trlc"}
                     /\ d.wq = <<>>
    /\ IdleInv(d) /\ OutInv(d, o) /\ WinInv(d, w)
    /\ ~w.cut => w.blk = d.curS

AckIn(d, w, A) == d.need /\ ~w.cut => Msg("ack", 0) \in A

Post(d) == IF d.curS = 0 THEN {} ELSE ToSet(d.s[d.curS].post)

Typed(x, o) ==
    /\ x \in [d : ConnType, w : WireType, left : Nat]
    /\ WireOK(x.w) /\ x.d.up /\ o \in Seq(OutType)

\* Between two frames the exception is not needed.
LEMMA MidCore ==
    ASSUME NEW d, NEW w, NEW o
    PROVE  /\ Core(d, w, o) /\ (~w.cut => w.blk = d.curS) =>
                 Mid(d, w, o, {}) /\ AckIn(d, w, ToSet(o) \cup ToSet(d.wq) \cup Post(d))
           /\ Mid(d, w, o, {}) /\ AckIn(d, w, ToSet(o) \cup ToSet(d.wq) \cup Post(d)) =>
                 Core(d, w, o)
BY DEF Core, Mid, AckIn, AckInv, BlockInv, CurInv, Post

\* A stream whose window is adjusted by new settings.
Aged(r, q) ==
    /\ q.st = r.st /\ q.eosS = r.eosS /\ q.eosR = r.eosR /\ q.req = r.req /\ q.resp = r.resp
    /\ q.xs = r.xs /\ q.h = r.h /\ q.b = r.b /\ q.t = r.t /\ q.tail = r.tail /\ q.post = r.post
    /\ q.blk => r.blk

\* What the entailment of control frames leaves alone.
Entailed(d, e) ==
    /\ e.tree = d.tree /\ e.closed = d.closed /\ e.idle = d.idle /\ e.last = d.last
    /\ e.curS = d.curS /\ e.curR = d.curR /\ e.wnd = d.wnd /\ e.up = d.up /\ e.res = d.res
    /\ d.has => e.has
    /\ \A j \in Streams : Aged(d.s[j], e.s[j])

\* The window of one stream is adjusted.
LEMMA AgedIs ==
    ASSUME NEW q \in StreamType, NEW k \in Int
    PROVE  LET r == TryUnblock([q EXCEPT !.wnd = k])
           IN r \in StreamType /\ Aged(q, r) /\ r.wnd = k
<1> DEFINE g == [q EXCEPT !.wnd = k]
           r == TryUnblock(g)
<1>1. g \in StreamType /\ Aged(q, g) /\ g.wnd = k  BY DEF StreamType, Aged
<1> HIDE DEF g
<1>2. r \in StreamType /\ Aged(g, r) /\ r.wnd = g.wnd  BY <1>1 DEF TryUnblock, StreamType, Aged
<1> HIDE DEF r
<1>3. Aged(q, r)  BY <1>1, <1>2 DEF Aged
<1> QED  BY <1>1, <1>2, <1>3 DEF r, g

\* tfw_h2_apply_new_settings(), field by field.
LEMMA ApplyFields ==
    ASSUME NEW d \in ConnType, d.need
    PROVE  LET e == ApplySettings(d)
           IN /\ e \in ConnType /\ Entailed(d, e) /\ e.wq = d.wq /\ e.init = d.new /\ ~e.need
              /\ \A j \in d.tree : d.s[j].st \in {"OPENED", "REM_HALF_CLOSED"} =>
                    e.s[j].wnd = d.s[j].wnd + d.new - d.init
<1> DEFINE live(j) == d.s[j].st \in {"OPENED", "REM_HALF_CLOSED"}
           k(j) == d.s[j].wnd + d.new - d.init
           q(j) == TryUnblock([d.s[j] EXCEPT !.wnd = k(j)])
           s == [j \in Streams |-> IF j \in d.tree THEN (IF live(j) THEN q(j) ELSE d.s[j]) ELSE d.s[j]]
           g == [d EXCEPT !.s = s, !.init = d.new, !.need = FALSE]
           b == g.has \/ (~ReadyToSend(d) /\ ReadyToSend(g))
           e == ApplySettings(d)
<1>0. /\ \A j \in Streams : d.s[j] \in StreamType /\ d.s[j].wnd \in Int
      /\ d.new \in Nat /\ d.init \in Nat /\ d.tree \subseteq Streams
  BY DEF ConnType, StreamType
<1>1. \A j \in Streams : k(j) \in Int  BY <1>0
<1>e. e = SetHasData(g, ReadyToSend(d))  BY DEF ApplySettings
<1> HIDE DEF k
<1>2. ASSUME NEW j \in Streams PROVE q(j) \in StreamType /\ Aged(d.s[j], q(j)) /\ q(j).wnd = k(j)
  BY <1>0, <1>1, AgedIs
<1>3. ASSUME NEW j \in Streams PROVE Aged(d.s[j], d.s[j])  BY DEF Aged
<1> HIDE DEF q
<1>4. s \in [Streams -> StreamType]  BY <1>0, <1>2
<1>5. \A j \in Streams : s[j] = IF j \in d.tree THEN (IF live(j) THEN q(j) ELSE d.s[j]) ELSE d.s[j]
  OBVIOUS
<1>6. \A j \in Streams : Aged(d.s[j], s[j])  BY <1>2, <1>3, <1>5
<1>7. \A j \in d.tree : live(j) => s[j].wnd = k(j)  BY <1>0, <1>2, <1>5
<1> HIDE DEF s
<1>8. /\ g \in ConnType /\ g.s = s /\ g.init = d.new /\ g.need = FALSE /\ g.wq = d.wq
      /\ g.tree = d.tree /\ g.closed = d.closed /\ g.idle = d.idle /\ g.last = d.last
      /\ g.curS = d.curS /\ g.curR = d.curR /\ g.wnd = d.wnd /\ g.up = d.up /\ g.res = d.res
      /\ g.has = d.has
  BY <1>0, <1>4 DEF ConnType
<1>9. e = [g EXCEPT !.has = b]  BY <1>e DEF SetHasData
<1>10. b \in BOOLEAN /\ (d.has => b)  BY <1>8 DEF ConnType, ReadyToSend
<1> HIDE DEF b, g, e
<1>11. /\ e \in ConnType /\ e.s = s /\ e.init = d.new /\ e.need = FALSE /\ e.wq = d.wq
       /\ e.tree = d.tree /\ e.closed = d.closed /\ e.idle = d.idle /\ e.last = d.last
       /\ e.curS = d.curS /\ e.curR = d.curR /\ e.wnd = d.wnd /\ e.up = d.up /\ e.res = d.res
       /\ e.has = b
  BY <1>8, <1>9, <1>10 DEF ConnType
<1>12. Entailed(d, e)  BY <1>6, <1>10, <1>11 DEF Entailed
<1>13. \A j \in d.tree : live(j) => e.s[j].wnd = d.s[j].wnd + d.new - d.init
  BY <1>7, <1>11 DEF k
<1> QED  BY <1>11, <1>12, <1>13 DEF e

\* The windows as the client counts them follow the SETTINGS that are acknowledged.
LEMMA WireSettingsFields ==
    ASSUME NEW d \in ConnType, NEW w \in WireType, NEW k \in Nat
    PROVE  LET v == WireSettings(w, d, k)
           IN /\ v \in WireType /\ v.blk = w.blk /\ v.cut = w.cut /\ v.conn = w.conn
              /\ v.mixed = w.mixed /\ v.over = w.over
              /\ v.stale = w.stale \cup {i \in d.tree : d.need /\ d.s[i].st = "IDLE"}
              /\ \A i \in Streams : v.view[i] = w.view[i] + v.cinit - w.cinit
<1> DEFINE m == IF k < Len(w.sets) THEN k ELSE Len(w.sets)
           u == IF m = 0 THEN w.cinit ELSE w.sets[m]
           f == [i \in Streams |-> w.view[i] + u - w.cinit]
           a == w.stale \cup {i \in d.tree : d.need /\ d.s[i].st = "IDLE"}
           q == SubSeq(w.sets, m + 1, Len(w.sets))
           v == WireSettings(w, d, k)
<1>0. w.view \in [Streams -> Int] /\ w.cinit \in Nat /\ w.sets \in Seq(Nat)  BY DEF WireType
<1>m. m \in 0..Len(w.sets)  BY <1>0
<1>3. v = [w EXCEPT !.view = f, !.cinit = u, !.sets = q, !.stale = a]  BY DEF WireSettings
<1> HIDE DEF m
<1>q. q \in Seq(Nat)  BY <1>0, <1>m
<1>u. u \in Nat
  <2>1. CASE m = 0  BY <2>1, <1>0
  <2>2. CASE m # 0
    <3>1. m \in DOMAIN w.sets  BY <2>2, <1>0, <1>m
    <3> QED  BY <2>2, <3>1, <1>0
  <2> QED  BY <2>1, <2>2
<1> HIDE DEF u, q
<1>1. f \in [Streams -> Int]  BY <1>0, <1>u
<1>2. a \in SUBSET Streams  BY DEF ConnType, WireType
<1>4. \A i \in Streams : f[i] = w.view[i] + u - w.cinit  OBVIOUS
<1> HIDE DEF f, a, v
<1>5. /\ v \in WireType /\ v.blk = w.blk /\ v.cut = w.cut /\ v.conn = w.conn
      /\ v.mixed = w.mixed /\ v.over = w.over /\ v.stale = a /\ v.view = f /\ v.cinit = u
  BY <1>1, <1>2, <1>3, <1>q, <1>u DEF WireType
<1> QED  BY <1>4, <1>5 DEF v, a

\* Streams of another age: what is not about windows is kept.
LEMMA AgedMid ==
    ASSUME NEW d \in ConnType, NEW e \in ConnType, NEW w, NEW v, NEW o, NEW I, Mid(d, w, o, I),
           Entailed(d, e), d.curS # 0 => e.wq = <<>>,
           v.blk = w.blk, v.cut = w.cut, WinInv(e, v)
    PROVE  Mid(e, v, o, I)
<1>0. /\ e.tree = d.tree /\ e.closed = d.closed /\ e.idle = d.idle /\ e.last = d.last
      /\ e.curS = d.curS /\ \A j \in Streams : Aged(d.s[j], e.s[j])
      /\ d.tree \subseteq Streams
  BY DEF Entailed, ConnType
<1>1. ASSUME NEW j \in Streams \ I PROVE Transmits(e.s[j])
  <2>1. Transmits(d.s[j]) /\ Aged(d.s[j], e.s[j])  BY <1>0 DEF Mid
  <2> QED  BY <2>1 DEF Aged, Transmits, HasSkb
<1>2. ASSUME e.curS # 0
      PROVE  /\ e.curS \in e.tree /\ e.s[e.curS].st = "REM_HALF_CLOSED"
             /\ e.curS \in I \/ e.s[e.curS].xs \in {"cont", "trlc"}
             /\ e.wq = <<>>
  BY <1>0, <1>2 DEF Mid, Aged
<1>3. IdleInv(e)
  <2>1. IdleInv(d)  BY DEF Mid
  <2>2. \A k \in DOMAIN d.idle : d.idle[k] \in Streams  BY DEF ConnType
  <2> QED  BY <1>0, <2>1, <2>2 DEF IdleInv, Aged
<1>4. OutInv(e, o)
  <2>1. OutInv(d, o)  BY DEF Mid
  <2>2. ASSUME NEW j \in Streams, Waits(d.s[j]) PROVE Waits(e.s[j])
    BY <2>2, <1>0 DEF Waits, Aged
  <2> QED  BY <1>0, <2>1, <2>2 DEF OutInv
<1>5. ~v.cut => v.blk = e.curS  BY <1>0 DEF Mid
<1> QED  BY <1>1, <1>2, <1>3, <1>4, <1>5 DEF Mid

\* The server applies the latest settings, the client those that are acknowledged.
LEMMA ApplyWin ==
    ASSUME NEW d \in ConnType, NEW w \in WireType, NEW k \in Nat, WinInv(d, w)
    PROVE  WinInv(ApplySettings(d), WireSettings(w, d, k))
<1> DEFINE e == ApplySettings(d)
           v == WireSettings(w, d, k)
<1>2. /\ v \in WireType /\ v.conn = w.conn
      /\ v.stale = w.stale \cup {i \in d.tree : d.need /\ d.s[i].st = "IDLE"}
      /\ \A i \in Streams : v.view[i] = w.view[i] + v.cinit - w.cinit
  BY WireSettingsFields
<1> HIDE DEF v
<1>t. /\ v.cinit \in Int /\ w.cinit \in Int /\ d.init \in Int /\ d.new \in Int
      /\ d.tree \subseteq Streams /\ \A j \in Streams : d.s[j].wnd \in Int
  <2>1. v.cinit \in Nat /\ w.cinit \in Nat  BY <1>2 DEF WireType
  <2>2. d.init \in Nat /\ d.new \in Nat /\ d.tree \subseteq Streams  BY DEF ConnType
  <2>3. \A j \in Streams : d.s[j] \in StreamType  BY DEF ConnType
  <2>4. \A j \in Streams : d.s[j].wnd \in Int  BY <2>3 DEF StreamType
  <2> QED  BY <2>1, <2>2, <2>4
<1>a. CASE d.need
  <2>1. /\ e \in ConnType /\ Entailed(d, e) /\ e.init = d.new
        /\ \A j \in d.tree : d.s[j].st \in {"OPENED", "REM_HALF_CLOSED"} =>
              e.s[j].wnd = d.s[j].wnd + d.new - d.init
    BY <1>a, ApplyFields
  <2> HIDE DEF e
  <2>3. e.tree = d.tree /\ e.wnd = d.wnd /\ \A j \in Streams : e.s[j].st = d.s[j].st
    BY <2>1 DEF Entailed, Aged
  <2>4. ASSUME NEW j \in e.tree \ v.stale, e.s[j].st \in Live
        PROVE  v.view[j] = e.s[j].wnd + v.cinit - e.init
    <3>1. j \in d.tree /\ j \notin w.stale /\ j \in Streams /\ d.s[j].st \in {"OPENED", "REM_HALF_CLOSED"}
          /\ d.s[j].st \in Live
      BY <1>a, <1>2, <1>t, <2>3, <2>4 DEF Live
    <3>2. w.view[j] = d.s[j].wnd + w.cinit - d.init  BY <3>1 DEF WinInv
    <3>3. v.view[j] = w.view[j] + v.cinit - w.cinit /\ e.s[j].wnd = d.s[j].wnd + d.new - d.init
      BY <1>2, <2>1, <3>1
    <3>4. d.s[j].wnd \in Int  BY <1>t, <3>1
    <3> QED  BY <1>t, <2>1, <3>2, <3>3, <3>4
  <2>6. v.conn >= e.wnd  BY <1>2, <2>3 DEF WinInv
  <2> QED  BY <2>4, <2>6 DEF WinInv, e, v
<1>b. CASE ~d.need
  <2>1. e = d  BY <1>b DEF ApplySettings
  <2>4. ASSUME NEW j \in d.tree \ v.stale, d.s[j].st \in Live
        PROVE  v.view[j] = d.s[j].wnd + v.cinit - d.init
    <3>1. j \in Streams /\ w.view[j] = d.s[j].wnd + w.cinit - d.init  BY <1>2, <1>t, <2>4 DEF WinInv
    <3>2. v.view[j] = w.view[j] + v.cinit - w.cinit /\ d.s[j].wnd \in Int  BY <1>2, <1>t, <3>1
    <3> QED  BY <1>t, <3>1, <3>2
  <2>6. v.conn >= d.wnd  BY <1>2 DEF WinInv
  <2>7. WinInv(d, v)  BY <2>4, <2>6 DEF WinInv
  <2> QED  BY <2>1, <2>7 DEF v
<1> QED  BY <1>a, <1>b

\* A control frame on the wire.
LEMMA CtlWire ==
    ASSUME NEW w \in WireType, NEW u
    PROVE  LET v == OnWire(w, 0, "ctl", FALSE, 0, u)
           IN /\ v \in WireType /\ v.mixed = (w.mixed \/ w.blk # 0)
              /\ v.blk = w.blk /\ v.cut = w.cut /\ v.conn = w.conn /\ v.view = w.view
              /\ v.over = w.over /\ v.stale = w.stale /\ v.cinit = w.cinit
<1> DEFINE b == w.mixed \/ w.blk # 0
           v == OnWire(w, 0, "ctl", FALSE, 0, u)
<1>1. v = [w EXCEPT !.mixed = b, !.blk = w.blk, !.conn = w.conn, !.view = w.view, !.over = w.over,
                    !.early = w.early]
  BY DEF OnWire, WireType
<1>2. b \in BOOLEAN  BY DEF WireType
<1> HIDE DEF b, v
<1>3. /\ v \in WireType /\ v.mixed = b
      /\ v.blk = w.blk /\ v.cut = w.cut /\ v.conn = w.conn /\ v.view = w.view
      /\ v.over = w.over /\ v.stale = w.stale /\ v.cinit = w.cinit
  BY <1>1, <1>2 DEF WireType
<1> QED  BY <1>3 DEF b, v

\* Control frames were entailed: B held the acknowledgement before.
Flushed(x, y, o, I, B) ==
    /\ Typed(y, o) /\ Mid(y.d, y.w, o, I) /\ Entailed(x.d, y.d)
    /\ y.left > 0 => y.d.wq = <<>>
    /\ \A A : AckIn(x.d, x.w, A \cup B) => AckIn(y.d, y.w, A \cup ToSet(y.d.wq))

\* The write queue is set.
LEMMA PutQueue ==
    ASSUME NEW d \in ConnType, NEW q \in Seq(CtlType)
    PROVE  LET e == [d EXCEPT !.wq = q]
           IN /\ e \in ConnType /\ e.wq = q /\ Entailed(d, e) /\ e.s = d.s /\ e.need = d.need
              /\ e.init = d.init
BY DEF ConnType, Entailed, Aged

\* Lists of frames are entailed one after the other.
LEMMA EntailedTrans ==
    ASSUME NEW d, NEW e, NEW g, Entailed(d, e), Entailed(e, g)
    PROVE  Entailed(d, g)
BY DEF Entailed, Aged

\* ss_skb_tcp_entail_list()
LEMMA EntailFlushed ==
    ASSUME NEW x, NEW o, NEW I, Typed(x, o), Mid(x.d, x.w, o, I),
           NEW q \in Seq(CtlType), x.d.curS # 0 => q = <<>>
    PROVE  Flushed(x, EntailList(x, q), o, I, ToSet(q))
<1> DEFINE n == Min({x.left, Len(q)})
           acks == {k \in 1..n : q[k].ty = "ack"}
           ack == acks # {}
           d == IF ack THEN ApplySettings(x.d) ELSE x.d
           w == IF n > 0 THEN OnWire(x.w, 0, "ctl", FALSE, 0, d.init) ELSE x.w
           v == IF ack THEN WireSettings(w, x.d, Cardinality(acks)) ELSE w
           z == SubSeq(q, n + 1, Len(q))
           e == [d EXCEPT !.wq = z]
           y == EntailList(x, q)
<1>t. /\ x.d \in ConnType /\ x.w \in WireType /\ WireOK(x.w) /\ x.left \in Nat /\ x.d.up
      /\ o \in Seq(OutType)
  BY DEF Typed
<1>y. y = [d |-> e, w |-> v, left |-> x.left - n]  BY DEF EntailList
<1>n. n \in Nat /\ n <= x.left /\ n <= Len(q) /\ (n = x.left \/ n = Len(q)) /\ Len(q) \in Nat
  <2>1. Len(q) \in Nat  OBVIOUS
  <2>2. \E m \in {x.left, Len(q)} : \A k \in {x.left, Len(q)} : m <= k  BY <1>t, <2>1
  <2>3. n \in {x.left, Len(q)} /\ \A k \in {x.left, Len(q)} : n <= k  BY <2>2, MinIs
  <2> HIDE DEF n
  <2> QED  BY <1>t, <2>1, <2>3
<1> HIDE DEF n
<1>z. /\ z \in Seq(CtlType) /\ Len(z) = Len(q) - n
      /\ \A k \in 1..(Len(q) - n) : z[k] = q[n + k]
  BY <1>n
<1>z1. n = Len(q) => z = <<>>  BY <1>z
<1>z2. x.d.curS # 0 => z = <<>>
  <2> SUFFICES ASSUME x.d.curS # 0 PROVE z = <<>>  OBVIOUS
  <2>1. q = <<>> /\ Len(q) = 0  OBVIOUS
  <2>2. n = Len(q)  BY <1>n, <2>1
  <2> QED  BY <2>2, <1>z1
<1>z3. ~ack /\ Msg("ack", 0) \in ToSet(q) => Msg("ack", 0) \in ToSet(z)
  <2> SUFFICES ASSUME ~ack, NEW k \in DOMAIN q, q[k] = Msg("ack", 0) PROVE Msg("ack", 0) \in ToSet(z)
    BY DEF ToSet
  <2>1. q[k].ty = "ack" /\ k \in 1..Len(q)  BY DEF Msg
  <2>2. ~(k \in 1..n)  BY <2>1
  <2>3. k - n \in 1..(Len(q) - n) /\ n + (k - n) = k  BY <2>1, <2>2, <1>n
  <2>4. z[k - n] = q[n + (k - n)] /\ k - n \in DOMAIN z  BY <2>3, <1>z
  <2>5. z[k - n] = Msg("ack", 0)  BY <2>3, <2>4
  <2> HIDE DEF z
  <2> QED  BY <2>4, <2>5 DEF ToSet
<1> HIDE DEF z
\* the wire before the settings are applied
<1>w. /\ w \in WireType /\ w.blk = x.w.blk /\ w.cut = x.w.cut /\ w.conn = x.w.conn
      /\ w.view = x.w.view /\ w.stale = x.w.stale /\ w.cinit = x.w.cinit /\ WireOK(w)
  <2>1. CASE n > 0
    <3>1. w = OnWire(x.w, 0, "ctl", FALSE, 0, d.init)  BY <2>1
    <3> HIDE DEF w, d
    <3>2. /\ w \in WireType /\ w.mixed = (x.w.mixed \/ x.w.blk # 0)
          /\ w.blk = x.w.blk /\ w.cut = x.w.cut /\ w.conn = x.w.conn /\ w.view = x.w.view
          /\ w.over = x.w.over /\ w.stale = x.w.stale /\ w.cinit = x.w.cinit
      BY <1>t, <3>1, CtlWire, ZenonT(60)
    <3>3. x.d.curS = 0
      <4>1. q # <<>>  BY <2>1, <1>n
      <4> QED  BY <4>1
    <3>4. ~x.w.cut => x.w.blk = 0  BY <3>3 DEF Mid
    <3> QED  BY <1>t, <3>2, <3>4 DEF WireOK
  <2>2. CASE ~(n > 0)  BY <2>2, <1>t
  <2> QED  BY <2>1, <2>2
<1>m. WinInv(x.d, w)
  <2>1. WinInv(x.d, x.w)  BY DEF Mid
  <2> HIDE DEF w
  <2> QED  BY <2>1, <1>w DEF WinInv
<1> HIDE DEF w
<1>d. /\ d \in ConnType /\ Entailed(x.d, d) /\ v \in WireType /\ WireOK(v)
      /\ v.blk = w.blk /\ v.cut = w.cut /\ WinInv(d, v) /\ (ack => ~d.need) /\ (~ack => d.need = x.d.need)
  <2>1. CASE ack
    <3>1. d = ApplySettings(x.d) /\ v = WireSettings(w, x.d, Cardinality(acks))  BY <2>1
    <3>c. Cardinality(acks) \in Nat
      <4>1. acks \subseteq 1..n /\ IsFiniteSet(1..n)  BY <1>n, FS_Interval
      <4> QED  BY <4>1, FS_Subset, FS_CardinalityType
    <3> HIDE DEF d, v, acks
    <3>2. d \in ConnType /\ Entailed(x.d, d) /\ ~d.need
      <4>1. CASE x.d.need  BY <1>t, <4>1, <3>1, ApplyFields
      <4>2. CASE ~x.d.need
        <5>1. d = x.d  BY <3>1, <4>2 DEF ApplySettings
        <5> QED  BY <1>t, <4>2, <5>1 DEF Entailed, Aged
      <4> QED  BY <4>1, <4>2
    <3>3. /\ v \in WireType /\ v.blk = w.blk /\ v.cut = w.cut /\ v.conn = w.conn
          /\ v.mixed = w.mixed /\ v.over = w.over
      BY <1>t, <1>w, <3>1, <3>c, WireSettingsFields
    <3>4. WinInv(d, v)  BY <1>t, <1>w, <1>m, <3>1, <3>c, ApplyWin
    <3>5. WireOK(v)  BY <1>w, <3>3 DEF WireOK
    <3> QED  BY <2>1, <3>2, <3>3, <3>4, <3>5
  <2>2. CASE ~ack
    <3>1. d = x.d /\ v = w  BY <2>2
    <3> HIDE DEF d, v, acks
    <3>2. Entailed(x.d, x.d)  BY DEF Entailed, Aged
    <3> QED  BY <1>t, <1>w, <1>m, <2>2, <3>1, <3>2
  <2> QED  BY <2>1, <2>2
<1> HIDE DEF d, v
<1>e. /\ e \in ConnType /\ e.wq = z /\ Entailed(d, e) /\ e.s = d.s /\ e.need = d.need
      /\ e.init = d.init
  BY <1>d, <1>z, PutQueue DEF z
<1> HIDE DEF e
<1>1. Entailed(x.d, e)  BY <1>d, <1>e, EntailedTrans
<1>2. WinInv(e, v)
  <2>1. e.tree = d.tree /\ e.last = d.last /\ e.wnd = d.wnd  BY <1>e DEF Entailed
  <2> QED  BY <2>1, <1>d, <1>e DEF WinInv
<1>3. Mid(e, v, o, I)
  <2>1. x.d.curS # 0 => e.wq = <<>>  BY <1>z2, <1>e
  <2> QED  BY <1>t, <1>w, <1>d, <1>e, <1>1, <1>2, <2>1, AgedMid
<1>4. x.left - n \in Nat /\ (x.left - n > 0 => e.wq = <<>>)
  <2>1. x.left - n > 0 => n = Len(q)  BY <1>n, <1>t
  <2>2. x.left - n \in Nat  BY <1>n, <1>t
  <2> QED  BY <2>1, <2>2, <1>z1, <1>e
<1>5. ASSUME NEW A, AckIn(x.d, x.w, A \cup ToSet(q)) PROVE AckIn(e, v, A \cup ToSet(e.wq))
  BY <1>5, <1>d, <1>e, <1>w, <1>z3 DEF AckIn
<1>6. e.up  BY <1>1, <1>t DEF Entailed
<1>7. y.d = e /\ y.w = v /\ y.left = x.left - n  BY <1>y
<1> HIDE DEF y
<1>8. Typed(y, o)
  <2>1. y \in [d : ConnType, w : WireType, left : Nat]  BY <1>y, <1>d, <1>e, <1>4
  <2> QED  BY <2>1, <1>t, <1>d, <1>6, <1>7 DEF Typed
<1>9. Flushed(x, y, o, I, ToSet(q))
  BY <1>1, <1>3, <1>4, <1>5, <1>7, <1>8 DEF Flushed
<1> QED  BY <1>9 DEF y

\* A concatenation has the elements of both parts.
LEMMA JoinedSets ==
    ASSUME NEW S, NEW p \in Seq(S), NEW q \in Seq(S)
    PROVE  ToSet(p) \cup ToSet(q) \subseteq ToSet(p \o q)
<1> DEFINE z == p \o q
<1>1. /\ Len(p) \in Nat /\ Len(q) \in Nat /\ Len(z) = Len(p) + Len(q) /\ z \in Seq(S)
      /\ \A k \in 1..Len(p) : z[k] = p[k]
      /\ \A k \in 1..Len(q) : z[Len(p) + k] = q[k]
  BY Joined
<1>2. DOMAIN p = 1..Len(p) /\ DOMAIN q = 1..Len(q) /\ DOMAIN z = 1..Len(z)  BY <1>1
<1> HIDE DEF z
<1>3. ASSUME NEW k \in DOMAIN p PROVE p[k] \in ToSet(z)
  <2>1. k \in DOMAIN z /\ z[k] = p[k]  BY <1>1, <1>2
  <2> QED  BY <2>1 DEF ToSet
<1>4. ASSUME NEW k \in DOMAIN q PROVE q[k] \in ToSet(z)
  <2>1. Len(p) + k \in DOMAIN z /\ z[Len(p) + k] = q[k]  BY <1>1, <1>2
  <2> QED  BY <2>1 DEF ToSet
<1> QED  BY <1>3, <1>4 DEF ToSet, z

\* tfw_h2_stream_send_postponed()
LEMMA PostponedFlushed ==
    ASSUME NEW x, NEW o, NEW I, Typed(x, o), Mid(x.d, x.w, o, I),
           NEW q \in Seq(CtlType), x.d.curS = 0, x.left > 0 => x.d.wq = <<>>
    PROVE  Flushed(x, SendPostponed(x, q), o, I, ToSet(x.d.wq) \cup ToSet(q))
<1> DEFINE y == SendPostponed(x, q)
<1>t. /\ x.d \in ConnType /\ x.w \in WireType /\ WireOK(x.w) /\ x.left \in Nat /\ x.d.up
      /\ o \in Seq(OutType) /\ x.d.wq \in Seq(CtlType)
  BY DEF Typed, ConnType
<1>1. CASE x.d.wq = <<>>
  <2>1. y = EntailList(x, q)  BY <1>1 DEF SendPostponed
  <2> HIDE DEF y
  <2>2. Flushed(x, y, o, I, ToSet(q))  BY <2>1, EntailFlushed
  <2>3. ToSet(x.d.wq) = {}
    <3>1. ToSet(<<>>) = {}  BY DEF ToSet
    <3> QED  BY <1>1, <3>1
  <2>4. ToSet(x.d.wq) \cup ToSet(q) = ToSet(q)  BY <2>3
  <2> QED  BY <2>2, <2>4 DEF y
<1>2. CASE x.d.wq # <<>>
  <2> DEFINE z == x.d.wq \o q
             e == [x.d EXCEPT !.wq = z]
  <2>1. y = [x EXCEPT !.d.wq = z]  BY <1>2 DEF SendPostponed
  <2>r. x.left = 0  BY <1>2, <1>t
  <2>z. z \in Seq(CtlType)  BY <1>t, Joined
  <2>a. ToSet(x.d.wq) \cup ToSet(q) \subseteq ToSet(z)
    BY <1>t, JoinedSets
  <2> HIDE DEF z
  <2>2. y.d = e /\ y.w = x.w /\ y.left = x.left
    BY <2>1 DEF Typed
  <2>3. /\ e \in ConnType /\ e.wq = z /\ Entailed(x.d, e) /\ e.s = x.d.s /\ e.need = x.d.need
        /\ e.init = x.d.init
    BY <1>t, <2>z, PutQueue
  <2> HIDE DEF e, y
  <2>4. WinInv(e, x.w)
    <3>1. e.tree = x.d.tree /\ e.wnd = x.d.wnd  BY <2>3 DEF Entailed
    <3> QED  BY <3>1, <2>3 DEF WinInv, Mid
  <2>5. Mid(e, x.w, o, I)  BY <1>t, <2>3, <2>4, AgedMid
  <2>6. ASSUME NEW A, AckIn(x.d, x.w, A \cup (ToSet(x.d.wq) \cup ToSet(q)))
        PROVE  AckIn(y.d, y.w, A \cup ToSet(y.d.wq))
    BY <2>6, <2>a, <2>2, <2>3 DEF AckIn
  <2>7. Typed(y, o)
    <3>1. e.up  BY <1>t, <2>3 DEF Entailed
    <3>2. y \in [d : ConnType, w : WireType, left : Nat]  BY <2>1, <2>2, <2>3 DEF Typed
    <3> QED  BY <1>t, <2>2, <3>1, <3>2 DEF Typed
  <2>8. Flushed(x, y, o, I, ToSet(x.d.wq) \cup ToSet(q))
    <3>1. y.left > 0 => y.d.wq = <<>>  BY <2>2, <2>r
    <3>2. Mid(y.d, y.w, o, I) /\ Entailed(x.d, y.d)  BY <2>2, <2>3, <2>5
    <3> QED  BY <2>6, <2>7, <3>1, <3>2 DEF Flushed
  <2> QED  BY <2>8 DEF y
<1> QED  BY <1>1, <1>2

\* The stream of the frame, between the frame and what follows it.
Between(r) == r.st \notin {"IDLE", "OPENED"} /\ r.req = "no" /\ ~r.blk /\ ~r.resp /\ r.xs # "no"


Framed(x, o, i) ==
    /\ Typed(x, o) /\ Mid(x.d, x.w, o, {i}) /\ x.d.has /\ i \in x.d.tree
    /\ x.left > 0 => x.d.wq = <<>>
    /\ NoResp(o, i) /\ Between(x.d.s[i])
    /\ x.d.curS \in {0, i}
    /\ x.d.curS = i => NextXmit(x.d.s[i]) \in {"cont", "trlc"}

\* The frame is complete, and so is the invariant.
Sent(y, o, i) ==
    /\ Typed(y, o) /\ Core(y.d, y.w, o) /\ (~y.w.cut => y.w.blk = y.d.curS) /\ y.d.has
    /\ y.left > 0 => y.d.wq = <<>>
    /\ y.d.s[i].xs # "no" => i \in y.d.tree /\ ~y.d.s[i].blk

\* The stream of the frame is written.
LEMMA PutMid ==
    ASSUME NEW d \in ConnType, NEW w, NEW o, NEW i \in Streams, Mid(d, w, o, {i}), NoResp(o, i),
           NEW r \in StreamType, r.st = d.s[i].st, r.wnd = d.s[i].wnd
    PROVE  Mid([d EXCEPT !.s[i] = r], w, o, {i})
<1> DEFINE e == [d EXCEPT !.s[i] = r]
<1>0. /\ e \in ConnType /\ Fixed(d, e)
      /\ e.tree = d.tree /\ e.closed = d.closed /\ e.idle = d.idle /\ e.curS = d.curS
      /\ e.s[i] = r /\ \A j \in Streams \ {i} : e.s[j] = d.s[j]
  BY PutStream
<1>t. /\ d.tree \subseteq Streams /\ d.curS \in Streams \cup {0} /\ d.idle \in Seq(Streams)
      /\ e.last = d.last /\ e.wq = d.wq /\ e.wnd = d.wnd /\ e.init = d.init
  BY <1>0 DEF ConnType, Fixed
<1> HIDE DEF e
<1>1. ASSUME NEW j \in Streams \ {i} PROVE Transmits(e.s[j])  BY <1>0 DEF Mid
<1>2. ASSUME e.curS # 0
      PROVE  /\ e.curS \in e.tree /\ e.s[e.curS].st = "REM_HALF_CLOSED"
             /\ e.curS \in {i} \/ e.s[e.curS].xs \in {"cont", "trlc"}
             /\ e.wq = <<>>
  <2>1. d.curS \in d.tree /\ d.s[d.curS].st = "REM_HALF_CLOSED" /\ d.wq = <<>> /\ d.curS \in Streams
        /\ (d.curS \in {i} \/ d.s[d.curS].xs \in {"cont", "trlc"})
    BY <1>0, <1>2, <1>t DEF Mid
  <2>2. CASE d.curS = i  BY <2>1, <2>2, <1>0, <1>t
  <2>3. CASE d.curS # i  BY <2>1, <2>3, <1>0, <1>t
  <2> QED  BY <2>2, <2>3
<1>3. IdleInv(e)
  <2>1. IdleInv(d)  BY DEF Mid
  <2>2. ASSUME NEW k \in DOMAIN d.idle PROVE e.s[d.idle[k]].st = "IDLE"
    BY <1>0, <1>t, <2>1 DEF IdleInv
  <2> QED  BY <2>1, <2>2, <1>0, <1>t DEF IdleInv
<1>4. OutInv(e, o)
  <2>1. OutInv(d, o)  BY DEF Mid
  <2>2. ASSUME NEW k \in DOMAIN o, o[k].ty = "resp", o[k].i \in e.tree PROVE Waits(e.s[o[k].i])
    BY <2>1, <2>2, <1>0, <1>t DEF OutInv, NoResp
  <2> QED  BY <2>1, <2>2, <1>0, <1>t DEF OutInv
<1>5. WinInv(e, w)
  <2>1. WinInv(d, w)  BY DEF Mid
  <2>2. ASSUME NEW j \in e.tree \ w.stale, e.s[j].st \in Live
        PROVE  w.view[j] = e.s[j].wnd + w.cinit - e.init
    <3>1. CASE j = i  BY <2>1, <2>2, <3>1, <1>0, <1>t DEF WinInv
    <3>2. CASE j # i  BY <2>1, <2>2, <3>2, <1>0, <1>t DEF WinInv
    <3> QED  BY <3>1, <3>2
  <2> QED  BY <2>1, <2>2, <1>t DEF WinInv
<1>6. ~w.cut => w.blk = e.curS  BY <1>0 DEF Mid
<1>7. Mid(e, w, o, {i})  BY <1>1, <1>2, <1>3, <1>4, <1>5, <1>6 DEF Mid
<1> QED  BY <1>7 DEF e

\* The stream is in a state of its transmission again.
LEMMA MidPutCore ==
    ASSUME NEW d \in ConnType, NEW w, NEW o, NEW i \in Streams, Mid(d, w, o, {i}), NoResp(o, i),
           NEW r \in StreamType, r.st = d.s[i].st, r.wnd = d.s[i].wnd,
           Transmits(r), r.post = d.s[i].post,
           d.curS = i => r.xs \in {"cont", "trlc"},
           AckIn(d, w, ToSet(o) \cup ToSet(d.wq) \cup Post(d))
    PROVE  Core([d EXCEPT !.s[i] = r], w, o)
<1> DEFINE e == [d EXCEPT !.s[i] = r]
<1>0. /\ e \in ConnType /\ Fixed(d, e) /\ e.curS = d.curS
      /\ e.s[i] = r /\ \A j \in Streams \ {i} : e.s[j] = d.s[j]
  BY PutStream
<1>t. d.curS \in Streams \cup {0} /\ e.wq = d.wq /\ e.need = d.need  BY <1>0 DEF ConnType, Fixed
<1>1. Mid(e, w, o, {i})  BY PutMid
<1> HIDE DEF e
<1>2. Mid(e, w, o, {})
  <2>1. \A j \in Streams : Transmits(e.s[j])  BY <1>0, <1>1 DEF Mid
  <2>2. e.curS # 0 => e.s[e.curS].xs \in {"cont", "trlc"}  BY <1>0, <1>1 DEF Mid
  <2> QED  BY <1>1, <2>1, <2>2 DEF Mid
<1>3. Post(e) = Post(d)
  <2>1. CASE d.curS = 0  BY <2>1, <1>0 DEF Post
  <2>2. CASE d.curS # 0
    <3>1. e.s[d.curS].post = d.s[d.curS].post
      <4>1. CASE d.curS = i  BY <4>1, <1>0
      <4>2. CASE d.curS # i  BY <4>2, <2>2, <1>0, <1>t
      <4> QED  BY <4>1, <4>2
    <3> QED  BY <2>2, <3>1, <1>0 DEF Post
  <2> QED  BY <2>1, <2>2
<1>4. AckIn(e, w, ToSet(o) \cup ToSet(e.wq) \cup Post(e))  BY <1>3, <1>t DEF AckIn
<1>5. Core(e, w, o)  BY <1>2, <1>4, MidCore
<1> QED  BY <1>5 DEF e

\* Frames behind the stream are sent.
LEMMA FlushFramed ==
    ASSUME NEW x, NEW o, NEW i \in Streams, Framed(x, o, i), x.d.curS = 0,
           NEW r \in StreamType, Aged(x.d.s[i], [r EXCEPT !.post = x.d.s[i].post, !.tail = x.d.s[i].tail]),
           r.wnd = x.d.s[i].wnd,
           NEW q \in Seq(CtlType), NEW B,
           AckIn(x.d, x.w, B \cup (ToSet(x.d.wq) \cup ToSet(q))),
           NEW g, g = [x EXCEPT !.d = [x.d EXCEPT !.s[i] = r]],
           NEW y, y = SendPostponed(g, q)
    PROVE  /\ Framed(y, o, i) /\ y.d.curS = 0 /\ AckIn(y.d, y.w, B \cup ToSet(y.d.wq))
           /\ Aged(r, y.d.s[i])
<1> DEFINE e == [x.d EXCEPT !.s[i] = r]
<1>t. /\ x \in [d : ConnType, w : WireType, left : Nat] /\ x.d \in ConnType /\ x.w \in WireType
      /\ WireOK(x.w) /\ x.left \in Nat /\ x.d.up /\ o \in Seq(OutType) /\ x.d.s[i] \in StreamType
      /\ Mid(x.d, x.w, o, {i}) /\ NoResp(o, i) /\ Between(x.d.s[i]) /\ i \in x.d.tree /\ x.d.has
      /\ (x.left > 0 => x.d.wq = <<>>)
  BY DEF Framed, Typed, ConnType
<1>r. /\ r.st = x.d.s[i].st /\ r.xs = x.d.s[i].xs /\ r.req = x.d.s[i].req /\ r.resp = x.d.s[i].resp
      /\ (r.blk => x.d.s[i].blk)
  BY DEF Aged, StreamType
<1>0. /\ e \in ConnType /\ Fixed(x.d, e) /\ e.tree = x.d.tree /\ e.curS = x.d.curS /\ e.s[i] = r
  BY <1>t, PutStream
<1>1. Mid(e, x.w, o, {i})  BY <1>t, <1>r, PutMid
<1>g. g = [x EXCEPT !.d = e]  OBVIOUS
<1> HIDE DEF e
<1>2. g \in [d : ConnType, w : WireType, left : Nat] /\ g.d = e /\ g.w = x.w /\ g.left = x.left
  BY <1>t, <1>0, <1>g
<1>f. e.wq = x.d.wq /\ e.need = x.d.need /\ e.up = x.d.up /\ e.has = x.d.has /\ e.last = x.d.last
  BY <1>0 DEF Fixed
<1>3. Typed(g, o)  BY <1>t, <1>2, <1>f DEF Typed
<1>4. Flushed(g, y, o, {i}, ToSet(g.d.wq) \cup ToSet(q))
  <2>1. g.d.curS = 0 /\ (g.left > 0 => g.d.wq = <<>>) /\ Mid(g.d, g.w, o, {i})
    BY <1>t, <1>0, <1>1, <1>2, <1>f
  <2> QED  BY <1>3, <2>1, PostponedFlushed
<1>5. AckIn(y.d, y.w, B \cup ToSet(y.d.wq))
  <2>1. AckIn(g.d, g.w, B \cup (ToSet(g.d.wq) \cup ToSet(q)))  BY <1>2, <1>f DEF AckIn
  <2> QED  BY <2>1, <1>4 DEF Flushed
<1>6. Entailed(e, y.d)  BY <1>2, <1>4 DEF Flushed
<1>7. Aged(r, y.d.s[i])  BY <1>0, <1>6 DEF Entailed
<1>8. y.d.curS = 0 /\ y.d.has /\ i \in y.d.tree  BY <1>t, <1>0, <1>f, <1>6 DEF Entailed
<1>9. Between(y.d.s[i])  BY <1>t, <1>r, <1>7 DEF Between, Aged
<1>10. Framed(y, o, i)
  <2>1. 0 # i  BY StreamsNat
  <2> QED  BY <1>t, <1>4, <1>8, <1>9, <2>1 DEF Framed, Flushed
<1> QED  BY <1>5, <1>7, <1>8, <1>10

\* A stream that is freed takes its last write with it.
LEMMA CleanForgets ==
    ASSUME NEW d \in ConnType, NEW i \in Streams, NEW v \in StreamType
    PROVE  StreamClean(d, i) = StreamClean([d EXCEPT !.s[i] = v], i)
<1> DEFINE n == NewStream(0)
           e == [d EXCEPT !.s[i] = v]
           a == IF d.curS = i THEN 0 ELSE d.curS
           b == IF d.curR = i THEN 0 ELSE d.curR
           k == d.tree \ {i}
<1>0. d.s \in [Streams -> StreamType] /\ e.s = [d.s EXCEPT ![i] = v] /\ e.curS = d.curS
      /\ e.curR = d.curR /\ e.tree = d.tree
  BY DEF ConnType
<1>1. [e.s EXCEPT ![i] = n] = [d.s EXCEPT ![i] = n]
  <2> HIDE DEF n, e
  <2> QED  BY <1>0
<1>2. StreamClean(d, i) = [d EXCEPT !.curS = a, !.curR = b, !.tree = k, !.s = [d.s EXCEPT ![i] = n]]
  <2> HIDE DEF n
  <2> QED  BY DEF StreamClean, ResetOnClose, ConnType, n
<1>3. StreamClean(e, i) = [e EXCEPT !.curS = a, !.curR = b, !.tree = k, !.s = [e.s EXCEPT ![i] = n]]
  <2>1. e \in ConnType  BY DEF ConnType
  <2> HIDE DEF n, e
  <2> QED  BY <2>1, <1>0 DEF StreamClean, ResetOnClose, ConnType, n
<1>4. [e EXCEPT !.curS = a, !.curR = b, !.tree = k, !.s = [d.s EXCEPT ![i] = n]]
      = [d EXCEPT !.curS = a, !.curR = b, !.tree = k, !.s = [d.s EXCEPT ![i] = n]]
  <2> DEFINE z == [d.s EXCEPT ![i] = n]
  <2> HIDE DEF n, a, b, k, z
  <2>1. [e EXCEPT !.curS = a, !.curR = b, !.tree = k, !.s = z]
        = [d EXCEPT !.curS = a, !.curR = b, !.tree = k, !.s = z]
    BY DEF ConnType
  <2> QED  BY <2>1 DEF z
<1>5. StreamClean(d, i) = StreamClean(e, i)
  <2> HIDE DEF e, n, a, b, k
  <2> QED  BY <1>1, <1>2, <1>3, <1>4
<1> QED  BY <1>5

\* HTTP2_MAKE_FRAMES_FINISH
LEMMA FinishSent ==
    ASSUME NEW x, NEW o, NEW i \in Streams, Framed(x, o, i), x.d.curS = 0,
           x.d.s[i].h = 0, x.d.s[i].b = 0, x.d.s[i].t = 0,
           AckIn(x.d, x.w, ToSet(o) \cup ToSet(x.d.wq))
    PROVE  Sent(Finish(x, i), o, i) /\ Finish(x, i).d.s[i].xs = "no"
<1> DEFINE q == x.d.s[i]
           r == [q EXCEPT !.tail = <<>>]
           g == [x EXCEPT !.d = [x.d EXCEPT !.s[i] = r]]
           y == SendPostponed(g, q.tail)
           u == y.d.s[i]
           v == [u EXCEPT !.xs = "no"]
           e == [y.d EXCEPT !.s[i] = v]
           z == Finish(x, i)
<1>t. /\ x \in [d : ConnType, w : WireType, left : Nat] /\ x.d \in ConnType /\ q \in StreamType
      /\ q.tail \in Seq(CtlType)
  BY DEF Framed, Typed, ConnType, StreamType
<1>g. g = [x EXCEPT !.d.s[i].tail = <<>>]  BY <1>t
<1>z. z = [y EXCEPT !.d = IF y.d.tree = {i} THEN StreamClean(y.d, i) ELSE AddClosed(e, i)]
  BY <1>g DEF Finish
<1>r. /\ r \in StreamType /\ r.tail = <<>> /\ r.wnd = q.wnd /\ r.h = q.h /\ r.b = q.b /\ r.t = q.t
      /\ Aged(q, [r EXCEPT !.post = q.post, !.tail = q.tail])
  <2>1. <<>> \in Seq(CtlType)  OBVIOUS
  <2> QED  BY <1>t, <2>1 DEF StreamType, Aged
<1> HIDE DEF r
<1>1. /\ Framed(y, o, i) /\ y.d.curS = 0 /\ AckIn(y.d, y.w, ToSet(o) \cup ToSet(y.d.wq))
      /\ Aged(r, u)
  <2>1. AckIn(x.d, x.w, ToSet(o) \cup (ToSet(x.d.wq) \cup ToSet(q.tail)))  BY DEF AckIn
  <2> HIDE DEF g
  <2>2. g = [x EXCEPT !.d = [x.d EXCEPT !.s[i] = r]]  BY DEF g
  <2> QED  BY <1>t, <1>r, <2>1, <2>2, FlushFramed
<1> HIDE DEF y, g, q
<1>2. /\ y \in [d : ConnType, w : WireType, left : Nat] /\ y.d \in ConnType /\ y.w \in WireType
      /\ WireOK(y.w) /\ y.d.up /\ o \in Seq(OutType) /\ u \in StreamType
      /\ Mid(y.d, y.w, o, {i}) /\ NoResp(o, i) /\ Between(u) /\ i \in y.d.tree /\ y.d.has
      /\ (y.left > 0 => y.d.wq = <<>>)
  BY <1>1 DEF Framed, Typed, ConnType
<1>3. v \in StreamType /\ v.st = u.st /\ v.wnd = u.wnd /\ v.post = u.post /\ v.xs = "no" /\ Transmits(v)
  <2>1. /\ v \in StreamType /\ v.st = u.st /\ v.wnd = u.wnd /\ v.post = u.post /\ v.xs = "no"
        /\ v.req = u.req /\ v.resp = u.resp /\ v.blk = u.blk /\ v.tail = u.tail
        /\ v.h = u.h /\ v.b = u.b /\ v.t = u.t
    BY <1>2 DEF StreamType
  <2>2. u.h = 0 /\ u.b = 0 /\ u.t = 0 /\ u.tail = <<>>  BY <1>1, <1>r DEF Aged, q
  <2> HIDE DEF v, u
  <2> QED  BY <2>1, <2>2, <1>2 DEF Transmits, HasSkb, Between
<1>4. Core(e, y.w, o)
  <2>1. AckIn(y.d, y.w, ToSet(o) \cup ToSet(y.d.wq) \cup Post(y.d))  BY <1>1 DEF AckIn
  <2>2. y.d.curS # i  BY <1>1, StreamsNat
  <2> HIDE DEF v
  <2> QED  BY <1>2, <1>3, <2>1, <2>2, MidPutCore
<1>5. /\ e \in ConnType /\ Fixed(y.d, e) /\ e.tree = y.d.tree /\ e.curS = y.d.curS /\ e.s[i] = v
      /\ e.closed = y.d.closed /\ e.idle = y.d.idle
  <2> HIDE DEF v
  <2> QED  BY <1>2, <1>3, PutStream
<1>c. StreamClean(y.d, i) = StreamClean(e, i)
  <2> HIDE DEF v
  <2> QED  BY <1>2, <1>3, CleanForgets
<1> HIDE DEF e, v
<1>f. e.last = y.d.last /\ e.wq = y.d.wq /\ e.has = y.d.has /\ e.up = y.d.up  BY <1>5 DEF Fixed
<1>6. Good(e, y.w, o)  BY <1>2, <1>4, <1>5, <1>f DEF Good, Told
<1>b. ~y.w.cut => y.w.blk = 0  BY <1>1, <1>2 DEF Mid
<1>7. CASE y.d.tree = {i}
  <2> DEFINE a == StreamClean(e, i)
  <2>1. z = [y EXCEPT !.d = a]  BY <1>7, <1>z, <1>c
  <2>2. \A k \in DOMAIN e.idle : e.idle[k] # i
    <3>1. IdleInv(y.d)  BY <1>2 DEF Mid
    <3> QED  BY <3>1, <1>2, <1>5 DEF IdleInv, Between
  <2>3. /\ Good(a, y.w, o) /\ Fixed(e, a) /\ a.s[i] = NewStream(0) /\ a.curS \in {0, e.curS}
    BY <1>6, <2>2, CleanGood
  <2> HIDE DEF a, z
  <2>4. a \in ConnType /\ a.up /\ Core(a, y.w, o) /\ a.curS = 0 /\ a.has /\ a.wq = y.d.wq
    BY <1>1, <1>2, <1>5, <1>f, <2>3 DEF Good, Fixed
  <2>5. z \in [d : ConnType, w : WireType, left : Nat] /\ z.d = a /\ z.w = y.w /\ z.left = y.left
    BY <1>2, <2>1, <2>4
  <2>6. a.s[i].xs = "no"  BY <2>3, NewStreamFacts
  <2>7. Sent(z, o, i)  BY <1>2, <1>b, <2>4, <2>5, <2>6 DEF Sent, Typed
  <2> QED  BY <2>5, <2>6, <2>7 DEF z
<1>8. CASE y.d.tree # {i}
  <2> DEFINE a == AddClosed(e, i)
  <2>1. z = [y EXCEPT !.d = a]  BY <1>8, <1>z
  <2>3. Good(a, y.w, o) /\ Fixed(e, a) /\ a.s = e.s /\ a.curS = e.curS
    BY <1>6, AddClosedGood
  <2> HIDE DEF a, z
  <2>4. a \in ConnType /\ a.up /\ Core(a, y.w, o) /\ a.curS = 0 /\ a.has /\ a.wq = y.d.wq
    BY <1>1, <1>2, <1>5, <1>f, <2>3 DEF Good, Fixed
  <2>5. z \in [d : ConnType, w : WireType, left : Nat] /\ z.d = a /\ z.w = y.w /\ z.left = y.left
    BY <1>2, <2>1, <2>4
  <2>6. a.s[i].xs = "no"  BY <2>3, <1>3, <1>5
  <2>7. Sent(z, o, i)  BY <1>2, <1>b, <2>4, <2>5, <2>6 DEF Sent, Typed
  <2> QED  BY <2>5, <2>6, <2>7 DEF z
<1> QED  BY <1>7, <1>8

\* The next state of a transmission fits what is left of it.
LEMMA NextXmitFits ==
    ASSUME NEW q \in StreamType, Between(q), NextXmit(q) # "finish",
           NEW r, r = [q EXCEPT !.xs = NextXmit(q)]
    PROVE  /\ r \in StreamType /\ Transmits(r) /\ r.st = q.st /\ r.wnd = q.wnd /\ r.post = q.post
           /\ r.xs = NextXmit(q) /\ r.xs # "no" /\ ~r.blk
<1> DEFINE nx == NextXmit(q)
<1>0. q.h \in Nat /\ q.b \in Nat /\ q.t \in Nat  BY DEF StreamType
<1>1. /\ nx \in {"cont", "data", "trl", "trlc"}
      /\ nx = "cont" => q.h > 0
      /\ nx = "data" => q.h = 0 /\ q.b > 0
      /\ nx \in {"trl", "trlc"} => q.h = 0 /\ q.b = 0 /\ q.t > 0
  <2>1. CASE q.h > 0
    <3>1. nx = "cont"  BY <1>0, <2>1 DEF NextXmit
    <3> QED  BY <2>1, <3>1
  <2>2. CASE q.h = 0 /\ q.b > 0
    <3>1. nx = "data"  BY <1>0, <2>2 DEF NextXmit
    <3> QED  BY <2>2, <3>1
  <2>3. CASE q.h + q.b = 0 /\ q.t > 0
    <3>1. q.h = 0 /\ q.b = 0  BY <1>0, <2>3
    <3>2. nx \in {"trl", "trlc"}  BY <1>0, <2>3, <3>1 DEF NextXmit
    <3> QED  BY <2>3, <3>1, <3>2
  <2>4. CASE q.h = 0 /\ q.b = 0 /\ q.t = 0  BY <1>0, <2>4 DEF NextXmit
  <2> HIDE DEF nx
  <2> QED  BY <1>0, <2>1, <2>2, <2>3, <2>4
<1>2. r = [q EXCEPT !.xs = nx]  OBVIOUS
<1> HIDE DEF nx
<1>3. /\ r \in StreamType /\ r.xs = nx /\ r.st = q.st /\ r.wnd = q.wnd /\ r.post = q.post
      /\ r.req = q.req /\ r.blk = q.blk /\ r.h = q.h /\ r.b = q.b /\ r.t = q.t
  BY <1>1, <1>2, SMTT(30) DEF StreamType
<1>4. Transmits(r)  BY <1>1, <1>3 DEF Transmits, Between
<1> QED  BY <1>1, <1>3, <1>4 DEF Between, nx

\* What was postponed behind the header block is sent.
PutPost(x, i, q) == [x EXCEPT !.d = [x.d EXCEPT !.s[i] = [x.d.s[i] EXCEPT !.post = q]]]

\* Afterwards the stream of the frame is as it was, but for what was postponed,
\* and an acknowledgement that was among it is in the write queue or applied.
LEMMA PostFramed ==
    ASSUME NEW x, NEW o, NEW i \in Streams, Framed(x, o, i), x.d.curS = 0,
           AckIn(x.d, x.w, ToSet(o) \cup (ToSet(x.d.wq) \cup ToSet(x.d.s[i].post)))
    PROVE  LET y == SendPostponed(PutPost(x, i, <<>>), x.d.s[i].post)
           IN /\ Framed(y, o, i) /\ y.d.curS = 0 /\ AckIn(y.d, y.w, ToSet(o) \cup ToSet(y.d.wq))
              /\ Aged([x.d.s[i] EXCEPT !.post = <<>>], y.d.s[i])
<1> DEFINE q == x.d.s[i]
           r == [q EXCEPT !.post = <<>>]
           g == PutPost(x, i, <<>>)
           y == SendPostponed(g, q.post)
<1>t. q \in StreamType /\ q.post \in Seq(CtlType)
  BY DEF Framed, Typed, ConnType, StreamType
<1>r. /\ r \in StreamType /\ r.wnd = q.wnd
      /\ Aged(q, [r EXCEPT !.post = q.post, !.tail = q.tail])
  <2>1. <<>> \in Seq(CtlType)  OBVIOUS
  <2> QED  BY <1>t, <2>1 DEF StreamType, Aged
<1> HIDE DEF r
<1>1. /\ Framed(y, o, i) /\ y.d.curS = 0 /\ AckIn(y.d, y.w, ToSet(o) \cup ToSet(y.d.wq))
      /\ Aged(r, y.d.s[i])
  <2>1. AckIn(x.d, x.w, ToSet(o) \cup (ToSet(x.d.wq) \cup ToSet(q.post)))  OBVIOUS
  <2>2. g = [x EXCEPT !.d = [x.d EXCEPT !.s[i] = r]]  BY DEF PutPost, r
  <2> HIDE DEF g
  <2> QED  BY <1>t, <1>r, <2>1, <2>2, FlushFramed
<1> QED  BY <1>1 DEF r

\* HTTP2_SEND_FRAMES
LEMMA SendFramesSent ==
    ASSUME NEW x, NEW o, NEW i \in Streams, Framed(x, o, i),
           x.d.s[i].h > 0 => x.d.curS = i,
           AckIn(x.d, x.w, ToSet(o) \cup (ToSet(x.d.wq) \cup ToSet(x.d.s[i].post)))
    PROVE  Sent(SendFrames(x, i), o, i)
<1> DEFINE q == x.d.s[i]
           same == q.h > 0 \/ q.post = <<>> \/ x.d.curS # 0
           r == [q EXCEPT !.post = <<>>]
           g == [x EXCEPT !.d = [x.d EXCEPT !.s[i] = r]]
           y == IF same THEN x ELSE SendPostponed(g, q.post)
           u == y.d.s[i]
           nx == NextXmit(q)
           z == SendFrames(x, i)
<1>t. /\ x \in [d : ConnType, w : WireType, left : Nat] /\ x.d \in ConnType /\ q \in StreamType
      /\ q.post \in Seq(CtlType) /\ q.h \in Nat
  BY DEF Framed, Typed, ConnType, StreamType
<1>i. i # 0  BY StreamsNat
<1>z. z = IF nx = "finish" THEN Finish(y, i) ELSE [y EXCEPT !.d.s[i].xs = nx]
  <2>1. g = [x EXCEPT !.d.s[i].post = <<>>]  BY <1>t
  <2> QED  BY <2>1 DEF SendFrames
<1>1. /\ Framed(y, o, i) /\ AckIn(y.d, y.w, ToSet(o) \cup ToSet(y.d.wq) \cup Post(y.d))
      /\ u.h = q.h /\ u.b = q.b /\ u.t = q.t /\ u.xs = q.xs /\ y.d.curS = x.d.curS
  <2>1. CASE same
    <3>1. y = x  BY <2>1
    <3>2. Post(x.d) = ToSet(q.post)
      <4>1. CASE x.d.curS = i  BY <1>i, <4>1 DEF Post
      <4>2. CASE x.d.curS = 0
        <5>1. q.post = <<>>  BY <2>1, <4>2, <1>t, <1>i
        <5>2. ToSet(<<>>) = {}  BY DEF ToSet
        <5> QED  BY <4>2, <5>1, <5>2 DEF Post
      <4> QED  BY <4>1, <4>2 DEF Framed
    <3>3. AckIn(x.d, x.w, ToSet(o) \cup ToSet(x.d.wq) \cup Post(x.d))  BY <3>2 DEF AckIn
    <3> HIDE DEF y
    <3> QED  BY <3>1, <3>3
  <2>2. CASE ~same
    <3>1. y = SendPostponed(g, q.post) /\ x.d.curS = 0  BY <2>2
    <3>r. /\ r \in StreamType /\ r.wnd = q.wnd /\ r.h = q.h /\ r.b = q.b /\ r.t = q.t /\ r.xs = q.xs
          /\ Aged(q, [r EXCEPT !.post = q.post, !.tail = q.tail])
      <4>1. <<>> \in Seq(CtlType)  OBVIOUS
      <4> QED  BY <1>t, <4>1 DEF StreamType, Aged
    <3> HIDE DEF r, y, g
    <3>2. g = [x EXCEPT !.d = [x.d EXCEPT !.s[i] = r]]  BY DEF g
    <3>3. /\ Framed(y, o, i) /\ y.d.curS = 0 /\ AckIn(y.d, y.w, ToSet(o) \cup ToSet(y.d.wq))
          /\ Aged(r, u)
      <4> HIDE DEF u
      <4>1. Framed(y, o, i) /\ y.d.curS = 0 /\ AckIn(y.d, y.w, ToSet(o) \cup ToSet(y.d.wq))
            /\ Aged([x.d.s[i] EXCEPT !.post = <<>>], y.d.s[i])
        <5>1. g = PutPost(x, i, <<>>)  BY DEF g, r, PutPost
        <5> QED  BY <3>1, <5>1, PostFramed
      <4> QED  BY <4>1 DEF u, r
    <3>4. AckIn(y.d, y.w, ToSet(o) \cup ToSet(y.d.wq) \cup Post(y.d))  BY <3>3 DEF AckIn
    <3> QED  BY <3>1, <3>r, <3>3, <3>4 DEF Aged
  <2> QED  BY <2>1, <2>2
<1> HIDE DEF y
<1>2. /\ y \in [d : ConnType, w : WireType, left : Nat] /\ y.d \in ConnType /\ y.w \in WireType
      /\ WireOK(y.w) /\ y.d.up /\ o \in Seq(OutType) /\ u \in StreamType
      /\ Mid(y.d, y.w, o, {i}) /\ NoResp(o, i) /\ Between(u) /\ i \in y.d.tree /\ y.d.has
      /\ (y.left > 0 => y.d.wq = <<>>)
      /\ y.d.curS \in {0, i} /\ (y.d.curS = i => NextXmit(u) \in {"cont", "trlc"})
  BY <1>1 DEF Framed, Typed, ConnType
<1>n. NextXmit(u) = nx  BY <1>1 DEF NextXmit
<1> HIDE DEF nx, z
<1>3. CASE nx = "finish"
  <2>1. z = Finish(y, i)  BY <1>3, <1>z
  <2>2. y.d.curS = 0  BY <1>2, <1>3, <1>n
  <2>3. u.h = 0 /\ u.b = 0 /\ u.t = 0
    <3>1. q.h \in Nat /\ q.b \in Nat /\ q.t \in Nat  BY <1>t DEF StreamType
    <3>2. ~(q.h > 0) /\ ~(q.h = 0 /\ q.b > 0) /\ ~(q.h + q.b = 0 /\ q.t > 0)
      <4>1. CASE q.h > 0  BY <1>3, <3>1, <4>1 DEF NextXmit, nx
      <4>2. CASE q.h = 0 /\ q.b > 0  BY <1>3, <3>1, <4>2 DEF NextXmit, nx
      <4>3. CASE q.h + q.b = 0 /\ q.t > 0
        <5>1. q.h = 0 /\ q.b = 0  BY <3>1, <4>3
        <5> QED  BY <1>3, <3>1, <4>3, <5>1 DEF NextXmit, nx
      <4> QED  BY <4>1, <4>2, <4>3
    <3>3. q.h = 0 /\ q.b = 0 /\ q.t = 0  BY <3>1, <3>2
    <3> QED  BY <1>1, <3>3
  <2>4. AckIn(y.d, y.w, ToSet(o) \cup ToSet(y.d.wq))  BY <1>1, <2>2 DEF AckIn, Post
  <2> QED  BY <1>1, <2>1, <2>2, <2>3, <2>4, FinishSent DEF z
<1>4. CASE nx # "finish"
  <2> DEFINE v == [u EXCEPT !.xs = nx]
             e == [y.d EXCEPT !.s[i] = v]
  <2>1. z = [y EXCEPT !.d = e]  BY <1>4, <1>z, <1>2
  <2>2. /\ v \in StreamType /\ Transmits(v) /\ v.st = u.st /\ v.wnd = u.wnd /\ v.post = u.post
        /\ v.xs = nx /\ v.xs # "no" /\ ~v.blk
    BY <1>2, <1>4, <1>n, NextXmitFits
  <2> HIDE DEF v
  <2>3. Core(e, y.w, o)
    BY <1>1, <1>2, <1>n, <2>2, MidPutCore, ZenonT(60)
  <2>4. e \in ConnType /\ Fixed(y.d, e) /\ e.tree = y.d.tree /\ e.curS = y.d.curS /\ e.s[i] = v
    BY <1>2, <2>2, PutStream
  <2> HIDE DEF e
  <2>5. e.up /\ e.has /\ e.wq = y.d.wq  BY <1>2, <2>4 DEF Fixed
  <2>6. z \in [d : ConnType, w : WireType, left : Nat] /\ z.d = e /\ z.w = y.w /\ z.left = y.left
    BY <1>2, <2>1, <2>4
  <2>7. ~y.w.cut => y.w.blk = e.curS  BY <1>2, <2>4 DEF Mid
  <2>8. Sent(z, o, i)  BY <1>2, <2>2, <2>3, <2>4, <2>5, <2>6, <2>7 DEF Sent, Typed
  <2> QED  BY <2>8 DEF z
<1> QED  BY <1>3, <1>4

----------------------------------------------------------------------------
(* A frame of a stream.                                                     *)

\* What the length of a frame is limited by.
Limits(x, i, n) ==
    LET r == x.d.s[i]
    IN /\ n \in Nat \ {0} /\ n <= x.left /\ r.xs # "no"
       /\ r.xs = "data" => n <= r.b /\ n <= x.d.wnd /\ n <= r.wnd
       /\ r.xs \in {"hdrs", "cont"} => n <= r.h
       /\ r.xs \in {"trl", "trlc"} => n <= r.t

\* The frame that tfw_h2_stream_xmit_process() makes fits what is left of the
\* response, the TCP window and the windows of HTTP/2.
LEMMA FrameLenLimits ==
    ASSUME NEW x \in [d : ConnType, w : WireType, left : Nat], NEW i \in Streams,
           Transmits(x.d.s[i]), FrameLen(x, i) > 0
    PROVE  Limits(x, i, FrameLen(x, i))
<1> DEFINE r == x.d.s[i]
           len == IF r.xs = "data" THEN r.b
                  ELSE IF r.xs \in {"hdrs", "cont"} THEN r.h ELSE r.t
           A == {MaxFrame, len, x.left}
           B == IF r.xs = "data" THEN {x.d.wnd, r.wnd} ELSE {}
           m == Min(A \cup B)
           n == FrameLen(x, i)
<1>1. /\ r \in StreamType /\ x.d \in ConnType /\ x.d.wnd \in Nat /\ r.wnd \in Int /\ r.b \in Nat
      /\ r.h \in Nat /\ r.t \in Nat /\ x.left \in Nat /\ MaxFrame \in Nat
  BY H2Bounds DEF ConnType, StreamType
<1>2. len \in Nat  BY <1>1
<1>3. n = m  BY DEF FrameLen
<1>4. \E k \in A \cup B : \A y \in A \cup B : k <= y
  <2>1. \E k \in A : \A y \in A : k <= y
    <3> HIDE DEF len
    <3> QED  BY <1>1, <1>2
  <2>2. PICK a \in A : \A y \in A : a <= y  BY <2>1
  <2>3. a \in Int  BY <1>1, <1>2
  <2>4. CASE r.xs = "data"
    <3>1. PICK b \in {x.d.wnd, r.wnd} : b <= x.d.wnd /\ b <= r.wnd  BY <1>1
    <3>2. b \in Int  BY <1>1
    <3>3. A \subseteq Int  BY <1>1, <1>2
    <3> HIDE DEF A
    <3>4. CASE a <= b  BY <1>1, <2>2, <2>3, <2>4, <3>1, <3>2, <3>4
    <3>5. CASE b <= a  BY <1>1, <2>2, <2>3, <2>4, <3>1, <3>2, <3>3, <3>5
    <3> QED  BY <2>3, <3>2, <3>4, <3>5
  <2>5. CASE r.xs # "data"  BY <2>2, <2>5
  <2> QED  BY <2>4, <2>5
<1>5. m \in A \cup B /\ \A y \in A \cup B : m <= y  BY <1>4, MinIs
<1>6. A \cup B \subseteq Int  BY <1>1, <1>2
<1> HIDE DEF m, n, len
<1>7. m \in Int /\ m > 0 /\ m <= len /\ m <= x.left /\ (r.xs = "data" => m <= x.d.wnd /\ m <= r.wnd)
  BY <1>3, <1>5, <1>6 DEF n
<1>8. n \in Nat \ {0} /\ n <= len /\ n <= x.left /\ (r.xs = "data" => n <= x.d.wnd /\ n <= r.wnd)
  BY <1>3, <1>7
<1>9. r.xs # "no"
  <2>1. ASSUME r.xs = "no" PROVE FALSE
    <3>1. r.h + r.b + r.t = 0  BY <2>1, <1>1, SMTT(30) DEF Transmits, HasSkb
    <3>2. len = r.t  BY <2>1 DEF len
    <3> QED  BY <3>1, <3>2, <1>1, <1>8
  <2> QED  BY <2>1
<1>10. Limits(x, i, n)
  <2>1. r.xs = "data" => n <= r.b  BY <1>8 DEF len
  <2>2. r.xs \in {"hdrs", "cont"} => n <= r.h  BY <1>8 DEF len
  <2>3. r.xs \in {"trl", "trlc"} => n <= r.t  BY <1>8 DEF len
  <2> QED  BY <1>8, <1>9, <2>1, <2>2, <2>3 DEF Limits
<1> QED  BY <1>10 DEF n

\* The frame is taken from the stream: what is left of the response tells the
\* flags of the frame.
Taken(q, n, r, ty, f) ==
    /\ r \in StreamType
    /\ r.st = q.st /\ r.eosS = q.eosS /\ r.eosR = q.eosR /\ r.req = q.req /\ r.resp = q.resp
    /\ r.xs = q.xs /\ r.blk = q.blk /\ r.tail = q.tail /\ r.post = q.post
    /\ ty \in {"HEADERS", "CONT", "DATA"}
    /\ ty = "DATA" => r.wnd = q.wnd - n /\ "EH" \notin f
    /\ ty # "DATA" => r.wnd = q.wnd
    /\ ty # "DATA" /\ "EH" \notin f => NextXmit(r) \in {"cont", "trlc"}
    /\ r.h > 0 => ty # "DATA" /\ "EH" \notin f

\* What is left of a stream after a frame of n octets is taken from it, and the
\* flags of that frame: END_HEADERS exactly if no octet of the block is left.
LEMMA TakenFacts ==
    ASSUME NEW q \in StreamType, Transmits(q), NEW n \in Nat \ {0}, q.xs # "no",
           q.xs = "data" => n <= q.b,
           q.xs \in {"hdrs", "cont"} => n <= q.h,
           q.xs \in {"trl", "trlc"} => n <= q.t,
           NEW r, r = Take(q, n),
           NEW ty, ty = FrameType(r.xs), NEW f, f = FrameFlags(r, ty)
    PROVE  Taken(q, n, r, ty, f)
<1>1. q.h \in Nat /\ q.b \in Nat /\ q.t \in Nat /\ q.wnd \in Int
      /\ q.xs \in {"hdrs", "cont", "data", "trl", "trlc"}
  BY DEF StreamType
<1>2. CASE q.xs = "data"
  <2>1. q.b - n \in Nat /\ q.wnd - n \in Int /\ q.h = 0  BY <1>1, <1>2 DEF Transmits
  <2>2. r = [q EXCEPT !.b = q.b - n, !.wnd = q.wnd - n]  BY <1>2 DEF Take
  <2>3. /\ r \in StreamType
        /\ r.st = q.st /\ r.eosS = q.eosS /\ r.eosR = q.eosR /\ r.req = q.req /\ r.resp = q.resp
        /\ r.xs = q.xs /\ r.blk = q.blk /\ r.tail = q.tail /\ r.post = q.post
        /\ r.wnd = q.wnd - n /\ r.h = q.h
    BY <2>1, <2>2 DEF StreamType
  <2>4. ty = "DATA"  BY <1>2, <2>3 DEF FrameType
  <2>5. "EH" \notin f  BY <2>4 DEF FrameFlags
  <2> QED  BY <2>1, <2>3, <2>4, <2>5 DEF Taken
<1>3. CASE q.xs \in {"hdrs", "cont"}
  <2>1. q.h - n \in Nat  BY <1>1, <1>3
  <2>2. r = [q EXCEPT !.h = q.h - n]  BY <1>3 DEF Take
  <2>3. /\ r \in StreamType
        /\ r.st = q.st /\ r.eosS = q.eosS /\ r.eosR = q.eosR /\ r.req = q.req /\ r.resp = q.resp
        /\ r.xs = q.xs /\ r.blk = q.blk /\ r.tail = q.tail /\ r.post = q.post
        /\ r.wnd = q.wnd /\ r.h \in Nat
    BY <2>1, <2>2 DEF StreamType
  <2>4. ty \in {"HEADERS", "CONT"}  BY <1>3, <2>3 DEF FrameType
  <2>5. "EH" \in f <=> r.h = 0  BY <1>3, <2>3, <2>4 DEF FrameFlags
  <2>6. r.h > 0 => NextXmit(r) = "cont"
    <3>1. r.b \in Nat /\ r.t \in Nat  BY <2>3 DEF StreamType
    <3> QED  BY <2>3, <3>1 DEF NextXmit
  <2> QED  BY <2>3, <2>4, <2>5, <2>6 DEF Taken
<1>4. CASE q.xs \in {"trl", "trlc"}
  <2>1. q.t - n \in Nat /\ q.h = 0 /\ q.b = 0  BY <1>1, <1>4 DEF Transmits
  <2>2. r = [q EXCEPT !.t = q.t - n]  BY <1>4 DEF Take
  <2>3. /\ r \in StreamType
        /\ r.st = q.st /\ r.eosS = q.eosS /\ r.eosR = q.eosR /\ r.req = q.req /\ r.resp = q.resp
        /\ r.xs = q.xs /\ r.blk = q.blk /\ r.tail = q.tail /\ r.post = q.post
        /\ r.wnd = q.wnd /\ r.h = 0 /\ r.b = 0 /\ r.t \in Nat
    BY <2>1, <2>2 DEF StreamType
  <2>4. ty \in {"HEADERS", "CONT"}  BY <1>4, <2>3 DEF FrameType
  <2>5. "EH" \in f <=> r.t = 0  BY <1>4, <2>3, <2>4 DEF FrameFlags
  <2>6. r.t > 0 => NextXmit(r) = "trlc"  BY <1>4, <2>3 DEF NextXmit
  <2> QED  BY <2>3, <2>4, <2>5, <2>6 DEF Taken
<1> QED  BY <1>1, <1>2, <1>3, <1>4

\* tfw_h2_stream_fsm() for a frame of a response.
Passed(d, i, ty, f, e) ==
    /\ e \in ConnType /\ Fixed(d, e)
    /\ e.tree = d.tree /\ e.closed = d.closed /\ e.idle = d.idle
    /\ \A j \in Streams \ {i} : e.s[j] = d.s[j]
    /\ e.res \in {"OK", "IGNORE", "TERM_CONN"}
    /\ e.res = "IGNORE" => e.s = d.s /\ e.curS = d.curS /\ d.s[i].st \notin Live
    /\ e.res = "IGNORE" => d.curS \in {0, i}
    /\ e.res = "OK" =>
          /\ d.s[i].st = "REM_HALF_CLOSED"
          /\ d.curS \in {0, i} /\ (d.curS # 0 => ty = "CONT")
          /\ e.curS = IF ty = "DATA" \/ "EH" \in f THEN 0 ELSE i
          /\ e.s[i].st \in {"REM_HALF_CLOSED", "CLOSED"}
          /\ e.curS = i => e.s[i].st = "REM_HALF_CLOSED"
          /\ \E st \in States, es \in BOOLEAN :
                e.s[i] = [d.s[i] EXCEPT !.st = st, !.eosS = es]

\* The state of the stream, its mark of END_STREAM and the open block are set.
SetSend(d, i, r, k) == [d EXCEPT !.s[i] = r, !.curS = k, !.res = "OK"]

PutSend(d, i, st, es, k) == SetSend(d, i, [d.s[i] EXCEPT !.st = st, !.eosS = es], k)

\* The fields of a connection after its sending stream is written.
LEMMA PutSendFields ==
    ASSUME NEW d \in ConnType, NEW i \in Streams, NEW r \in StreamType, NEW k \in Streams \cup {0}
    PROVE  LET e == SetSend(d, i, r, k)
           IN /\ e \in ConnType /\ Fixed(d, e) /\ e.curS = k /\ e.res = "OK"
              /\ e.tree = d.tree /\ e.closed = d.closed /\ e.idle = d.idle
              /\ e.s[i] = r /\ \A j \in Streams \ {i} : e.s[j] = d.s[j]
<1> DEFINE s == [d.s EXCEPT ![i] = r]
           e == [d EXCEPT !.s = s, !.curS = k, !.res = "OK"]
<1>1. d.s \in [Streams -> StreamType]  BY DEF ConnType
<1>2. s \in [Streams -> StreamType] /\ s[i] = r /\ \A j \in Streams \ {i} : s[j] = d.s[j]
  BY <1>1
<1>3. e = SetSend(d, i, r, k)  BY DEF SetSend
<1> HIDE DEF s
<1>4. e \in ConnType  BY <1>2 DEF ConnType
<1>5. /\ Fixed(d, e) /\ e.curS = k /\ e.res = "OK" /\ e.s = s
      /\ e.tree = d.tree /\ e.closed = d.closed /\ e.idle = d.idle
  BY DEF ConnType, Fixed
<1> HIDE DEF e
<1> QED  BY <1>2, <1>3, <1>4, <1>5

\* What the state machine does to a half closed stream for a frame of a response.
LEMMA PutSendPassed ==
    ASSUME NEW d \in ConnType, NEW i \in Streams, NEW ty, NEW f, d.s[i].st = "REM_HALF_CLOSED",
           d.curS \in {0, i}, d.curS # 0 => ty = "CONT",
           NEW st \in {"REM_HALF_CLOSED", "CLOSED"}, NEW es \in BOOLEAN,
           NEW k, k = IF ty = "DATA" \/ "EH" \in f THEN 0 ELSE i,
           k = i => st = "REM_HALF_CLOSED",
           NEW e, e = PutSend(d, i, st, es, k)
    PROVE  Passed(d, i, ty, f, e)
<1> DEFINE r == [d.s[i] EXCEPT !.st = st, !.eosS = es]
<1>1. d.s[i] \in StreamType /\ d.s \in [Streams -> StreamType]  BY DEF ConnType
<1>2. r \in StreamType /\ r.st = st  BY <1>1 DEF StreamType, States
<1>3. k \in Streams \cup {0}  OBVIOUS
<1>r. st \in States /\ es \in BOOLEAN  BY DEF States
<1>e. e = SetSend(d, i, r, k)  BY DEF PutSend
<1> HIDE DEF r
<1>6. /\ e \in ConnType /\ Fixed(d, e) /\ e.curS = k /\ e.res = "OK"
      /\ e.tree = d.tree /\ e.closed = d.closed /\ e.idle = d.idle
      /\ e.s[i] = r /\ \A j \in Streams \ {i} : e.s[j] = d.s[j]
  BY <1>2, <1>3, <1>e, PutSendFields
<1>7. \E x \in States, y \in BOOLEAN : e.s[i] = [d.s[i] EXCEPT !.st = x, !.eosS = y]
  BY <1>r, <1>6 DEF r
<1> QED  BY <1>2, <1>6, <1>7 DEF Passed

\* The state machine writes nothing else.
LEMMA PutSendForms ==
    ASSUME NEW d \in ConnType, NEW i \in Streams, NEW f
    PROVE  LET es == d.s[i].eosS
           IN /\ d.curS = 0 => Go(d, i, "CLOSED") = PutSend(d, i, "CLOSED", es, 0)
              /\ d.curS = 0 => Res(d, "OK") = PutSend(d, i, d.s[i].st, es, 0)
              /\ SetCur(Go(d, i, "CLOSED"), TRUE, 0) = PutSend(d, i, "CLOSED", es, 0)
              /\ SetCur(Res(d, "OK"), TRUE, 0) = PutSend(d, i, d.s[i].st, es, 0)
              /\ [SetCur(Res(d, "OK"), TRUE, i) EXCEPT !.s[i].eosS = @ \/ "ES" \in f]
                 = PutSend(d, i, d.s[i].st, es \/ "ES" \in f, i)
<1> DEFINE q == d.s[i]
           es == q.eosS
<1>1. d.s \in [Streams -> StreamType] /\ q \in StreamType  BY DEF ConnType
<1>2. /\ [q EXCEPT !.st = "CLOSED", !.eosS = es] = [q EXCEPT !.st = "CLOSED"]
      /\ [q EXCEPT !.st = q.st, !.eosS = es] = q
      /\ [q EXCEPT !.st = q.st, !.eosS = es \/ "ES" \in f] = [q EXCEPT !.eosS = es \/ "ES" \in f]
  BY <1>1 DEF StreamType
<1>3. [d.s EXCEPT ![i] = q] = d.s  BY <1>1
<1>4. Go(d, i, "CLOSED") = [d EXCEPT !.s[i] = [q EXCEPT !.st = "CLOSED"], !.res = "OK"]
  BY <1>1 DEF Go, Res, SetState, ConnType
<1>5. PutSend(d, i, "CLOSED", es, 0)
      = [d EXCEPT !.s[i] = [q EXCEPT !.st = "CLOSED"], !.curS = 0, !.res = "OK"]
  BY <1>2 DEF PutSend, SetSend
<1>6. PutSend(d, i, q.st, es, 0) = [d EXCEPT !.curS = 0, !.res = "OK"]
  <2>1. PutSend(d, i, q.st, es, 0) = [d EXCEPT !.s[i] = q, !.curS = 0, !.res = "OK"]
    BY <1>2 DEF PutSend, SetSend
  <2> QED  BY <2>1, <1>3 DEF ConnType
<1>7. PutSend(d, i, q.st, es \/ "ES" \in f, i)
      = [d EXCEPT !.s[i] = [q EXCEPT !.eosS = es \/ "ES" \in f], !.curS = i, !.res = "OK"]
  BY <1>2 DEF PutSend, SetSend
<1>8. d.curS = 0 => Go(d, i, "CLOSED") = PutSend(d, i, "CLOSED", es, 0)
  <2> DEFINE r == [q EXCEPT !.st = "CLOSED"]
  <2> HIDE DEF r
  <2>1. d.curS = 0 => [d EXCEPT !.s[i] = r, !.res = "OK"] = [d EXCEPT !.s[i] = r, !.curS = 0, !.res = "OK"]
    BY DEF ConnType
  <2> QED  BY <2>1, <1>4, <1>5 DEF r
<1>9. d.curS = 0 => Res(d, "OK") = PutSend(d, i, q.st, es, 0)
  BY <1>6, ZenonT(60) DEF Res, ConnType
<1>10. SetCur(Go(d, i, "CLOSED"), TRUE, 0) = PutSend(d, i, "CLOSED", es, 0)
  <2> DEFINE r == [q EXCEPT !.st = "CLOSED"]
  <2> HIDE DEF r
  <2>1. [[d EXCEPT !.s[i] = r, !.res = "OK"] EXCEPT !.curS = 0] = [d EXCEPT !.s[i] = r, !.curS = 0, !.res = "OK"]
    BY DEF ConnType
  <2>2. SetCur(Go(d, i, "CLOSED"), TRUE, 0) = [[d EXCEPT !.s[i] = r, !.res = "OK"] EXCEPT !.curS = 0]
    BY <1>4 DEF SetCur, r
  <2> QED  BY <2>1, <2>2, <1>5 DEF r
<1>11. SetCur(Res(d, "OK"), TRUE, 0) = PutSend(d, i, q.st, es, 0)
  BY <1>6 DEF Res, SetCur, ConnType
<1>12. [SetCur(Res(d, "OK"), TRUE, i) EXCEPT !.s[i].eosS = @ \/ "ES" \in f]
       = PutSend(d, i, q.st, es \/ "ES" \in f, i)
  <2> DEFINE r == [q EXCEPT !.eosS = es \/ "ES" \in f]
             g == [d EXCEPT !.res = "OK", !.curS = i]
  <2>1. SetCur(Res(d, "OK"), TRUE, i) = g /\ g.s = d.s  BY DEF Res, SetCur, ConnType
  <2>2. [g EXCEPT !.s[i].eosS = @ \/ "ES" \in f] = [g EXCEPT !.s[i] = r]
    BY <2>1, <1>1 DEF StreamType
  <2> HIDE DEF r
  <2>3. [g EXCEPT !.s[i] = r] = [d EXCEPT !.s[i] = r, !.curS = i, !.res = "OK"]
    BY DEF ConnType
  <2> HIDE DEF g
  <2> QED  BY <2>1, <2>2, <2>3, <1>7 DEF r
<1> QED  BY <1>8, <1>9, <1>10, <1>11, <1>12

\* tfw_h2_stream_fsm() lets a frame of a response pass, or ignores it on a stream
\* that is closed, or terminates the connection.
LEMMA FsmPassed ==
    ASSUME NEW d \in ConnType, NEW i \in Streams, d.s[i].st \notin {"IDLE", "OPENED"},
           NEW ty \in {"HEADERS", "CONT", "DATA"}, NEW f,
           NEW e, e = Fsm(d, i, ty, f, TRUE)
    PROVE  Passed(d, i, ty, f, e)
<1>1. d.s[i] \in StreamType /\ d.s[i].st \in {"REM_HALF_CLOSED", "LOC_CLOSED", "CLOSED"}
      /\ d.s[i].eosS \in BOOLEAN /\ i # 0
  BY StreamsNat DEF ConnType, StreamType, States
<1>2. ASSUME NEW r \in {"OK", "IGNORE", "TERM_CONN"}
      PROVE  LET g == Res(d, r)
             IN /\ g \in ConnType /\ Fixed(d, g) /\ g.s = d.s /\ g.curS = d.curS /\ g.res = r
                /\ g.tree = d.tree /\ g.closed = d.closed /\ g.idle = d.idle
  BY DEF Res, ConnType, Fixed
<1>3. CASE BadBlock(d, i, ty, TRUE)
  <2> DEFINE g == Res(d, "TERM_CONN")
  <2>1. /\ g \in ConnType /\ Fixed(d, g) /\ g.s = d.s /\ g.curS = d.curS /\ g.res = "TERM_CONN"
        /\ g.tree = d.tree /\ g.closed = d.closed /\ g.idle = d.idle
    BY <1>2
  <2>2. e = g  BY <1>3, <2>1 DEF Fsm
  <2> HIDE DEF g
  <2> QED  BY <2>1, <2>2 DEF Passed
<1>4. CASE ~BadBlock(d, i, ty, TRUE)
  <2> DEFINE g == StateFsm(d, i, ty, f, TRUE)
  <2>1. d.curS \in {0, i} /\ (d.curS # 0 => ty = "CONT")  BY <1>4 DEF BadBlock
  <2>2. g.res # "TERM_STREAM" => e = g  BY <1>4 DEF Fsm
  <2>3. CASE d.s[i].st \in {"LOC_CLOSED", "CLOSED"}
    <3> DEFINE k == Res(d, "IGNORE")
    <3>1. g = k  BY <2>3 DEF StateFsm, LocClosedFsm, ClosedFsm
    <3>2. /\ k \in ConnType /\ Fixed(d, k) /\ k.s = d.s /\ k.curS = d.curS /\ k.res = "IGNORE"
          /\ k.tree = d.tree /\ k.closed = d.closed /\ k.idle = d.idle
      BY <1>2
    <3>3. d.s[i].st \notin Live  BY <2>3 DEF Live
    <3> HIDE DEF g, k
    <3> QED  BY <2>1, <2>2, <3>1, <3>2, <3>3 DEF Passed
  <2>4. CASE d.s[i].st = "REM_HALF_CLOSED"
    <3> DEFINE es == d.s[i].eosS
    <3>0. g = RemHalfClosedFsm(d, i, ty, f, TRUE)  BY <2>4 DEF StateFsm
    <3>1. /\ d.curS = 0 => Go(d, i, "CLOSED") = PutSend(d, i, "CLOSED", es, 0)
          /\ d.curS = 0 => Res(d, "OK") = PutSend(d, i, "REM_HALF_CLOSED", es, 0)
          /\ SetCur(Go(d, i, "CLOSED"), TRUE, 0) = PutSend(d, i, "CLOSED", es, 0)
          /\ SetCur(Res(d, "OK"), TRUE, 0) = PutSend(d, i, "REM_HALF_CLOSED", es, 0)
          /\ [SetCur(Res(d, "OK"), TRUE, i) EXCEPT !.s[i].eosS = @ \/ "ES" \in f]
             = PutSend(d, i, "REM_HALF_CLOSED", es \/ "ES" \in f, i)
      <4>1. /\ d.curS = 0 => Go(d, i, "CLOSED") = PutSend(d, i, "CLOSED", es, 0)
            /\ d.curS = 0 => Res(d, "OK") = PutSend(d, i, d.s[i].st, es, 0)
            /\ SetCur(Go(d, i, "CLOSED"), TRUE, 0) = PutSend(d, i, "CLOSED", es, 0)
            /\ SetCur(Res(d, "OK"), TRUE, 0) = PutSend(d, i, d.s[i].st, es, 0)
        BY PutSendForms, Zenon
      <4>2. [SetCur(Res(d, "OK"), TRUE, i) EXCEPT !.s[i].eosS = @ \/ "ES" \in f]
            = PutSend(d, i, d.s[i].st, es \/ "ES" \in f, i)
        BY PutSendForms, Zenon
      <4> QED  BY <4>1, <4>2, <2>4, Zenon
    <3> HIDE DEF g
    <3>2. CASE ty = "DATA"
      <4>1. d.curS = 0  BY <2>1, <3>2
      <4>2. g = Go(d, i, "CLOSED") \/ g = Res(d, "OK")  BY <3>0, <3>2 DEF RemHalfClosedFsm
      <4>3. PICK st \in {"REM_HALF_CLOSED", "CLOSED"} : g = PutSend(d, i, st, es, 0)
        BY <4>1, <4>2, <3>1
      <4>4. Passed(d, i, ty, f, g)  BY <1>1, <2>1, <2>4, <3>2, <4>3, PutSendPassed
      <4> QED  BY <4>4, <2>2, ZenonT(60) DEF Passed
    <3>3. CASE ty # "DATA" /\ "EH" \in f
      <4>2. g = SetCur(Go(d, i, "CLOSED"), TRUE, 0) \/ g = SetCur(Res(d, "OK"), TRUE, 0)
        BY <3>0, <3>3 DEF RemHalfClosedFsm
      <4>3. PICK st \in {"REM_HALF_CLOSED", "CLOSED"} : g = PutSend(d, i, st, es, 0)
        BY <4>2, <3>1
      <4>4. Passed(d, i, ty, f, g)  BY <1>1, <2>1, <2>4, <3>3, <4>3, PutSendPassed
      <4> QED  BY <4>4, <2>2, ZenonT(60) DEF Passed
    <3>4. CASE ty # "DATA" /\ "EH" \notin f
      <4>2. g = [SetCur(Res(d, "OK"), TRUE, i) EXCEPT !.s[i].eosS = @ \/ "ES" \in f]
        BY <3>0, <3>4 DEF RemHalfClosedFsm
      <4>3. g = PutSend(d, i, "REM_HALF_CLOSED", es \/ "ES" \in f, i)  BY <4>2, <3>1
      <4>b. (es \/ "ES" \in f) \in BOOLEAN  OBVIOUS
      <4>4. Passed(d, i, ty, f, g)  BY <1>1, <2>1, <2>4, <3>4, <4>3, <4>b, PutSendPassed
      <4> QED  BY <4>4, <2>2, ZenonT(60) DEF Passed
    <3> QED  BY <3>2, <3>3, <3>4
  <2> QED  BY <1>1, <2>3, <2>4
<1> QED  BY <1>3, <1>4

\* The connection charges a stream for its frame.
Charged(d, e, i) ==
    /\ e \in ConnType
    /\ e.tree = d.tree /\ e.closed = d.closed /\ e.idle = d.idle /\ e.last = d.last
    /\ e.init = d.init /\ e.new = d.new /\ e.need = d.need /\ e.has = d.has
    /\ e.wq = d.wq /\ e.up = d.up
    /\ \A j \in Streams \ {i} : e.s[j] = d.s[j]

\* The rest of the invariant survives when a stream and the window of the
\* connection are charged for a frame.
LEMMA ChargedMid ==
    ASSUME NEW d \in ConnType, NEW e, NEW i \in Streams, Charged(d, e, i),
           NEW w, NEW v, NEW o, Core(d, w, o), NoResp(o, i),
           i \in d.tree, d.s[i].st # "IDLE",
           v.stale = w.stale, v.conn >= e.wnd, v.cinit = w.cinit,
           \A j \in Streams \ {i} : v.view[j] = w.view[j],
           e.s[i].st \in Live /\ i \notin v.stale => v.view[i] = e.s[i].wnd + v.cinit - e.init,
           ~v.cut => v.blk = e.curS,
           e.curS \in {0, i},
           e.curS = i => e.s[i].st = "REM_HALF_CLOSED" /\ e.wq = <<>>
    PROVE  Mid(e, v, o, {i})
<1>1. /\ e.tree = d.tree /\ e.closed = d.closed /\ e.idle = d.idle
      /\ e.init = d.init /\ \A j \in Streams \ {i} : e.s[j] = d.s[j]
  BY DEF Charged
<1>2. /\ d.tree \subseteq Streams /\ d.idle \in Seq(Streams)
      /\ (\A j \in Streams : Transmits(d.s[j])) /\ IdleInv(d) /\ OutInv(d, o) /\ WinInv(d, w)
  BY StreamsNat DEF ConnType, Core
<1>3. \A j \in Streams \ {i} : Transmits(e.s[j])  BY <1>1, <1>2
<1>4. IdleInv(e)
  <2>1. ASSUME NEW k \in DOMAIN d.idle PROVE e.s[d.idle[k]].st = "IDLE"
    BY <1>1, <1>2 DEF IdleInv
  <2> QED  BY <2>1, <1>1, <1>2 DEF IdleInv
<1>5. OutInv(e, o)
  <2>1. ASSUME NEW k \in DOMAIN o, o[k].ty = "resp", o[k].i \in e.tree PROVE Waits(e.s[o[k].i])
    BY <2>1, <1>1, <1>2 DEF OutInv, NoResp
  <2> QED  BY <2>1, <1>1, <1>2 DEF OutInv
<1>6. WinInv(e, v)
  <2>1. ASSUME NEW j \in e.tree \ v.stale, e.s[j].st \in Live
        PROVE  v.view[j] = e.s[j].wnd + v.cinit - e.init
    <3>1. CASE j = i  BY <3>1, <2>1
    <3>2. CASE j # i  BY <3>2, <2>1, <1>1, <1>2 DEF WinInv
    <3> QED  BY <3>1, <3>2
  <2> QED  BY <2>1 DEF WinInv
<1>7. e.curS # 0 => /\ e.curS \in e.tree /\ e.s[e.curS].st = "REM_HALF_CLOSED"
                    /\ e.curS \in {i} /\ e.wq = <<>>
  BY <1>1
<1> QED  BY <1>3, <1>4, <1>5, <1>6, <1>7 DEF Mid

\* A frame of a stream on the wire.
Shows(w, i, ty, eh, n, init, v) ==
    /\ v \in WireType /\ v.cut = w.cut /\ v.stale = w.stale /\ v.cinit = w.cinit
    /\ v.mixed = (w.mixed \/ (w.blk # 0 /\ ~(i = w.blk /\ ty = "CONT")))
    /\ v.blk = IF ty = "DATA" THEN w.blk ELSE IF eh THEN 0 ELSE i
    /\ v.conn = IF ty = "DATA" THEN w.conn - n ELSE w.conn
    /\ v.view[i] = IF ty = "DATA" THEN w.view[i] - n ELSE w.view[i]
    /\ \A j \in Streams \ {i} : v.view[j] = w.view[j]
    /\ v.over = (w.over \/ ((ty = "DATA" /\ n > w.view[i] /\ i \notin w.stale) /\ w.cinit = init))

\* What the observer records of a frame of a response.
LEMMA FrameWire ==
    ASSUME NEW w \in WireType, NEW i \in Streams, NEW ty \in {"HEADERS", "CONT", "DATA"},
           NEW eh \in BOOLEAN, NEW n \in Nat, NEW init
    PROVE  Shows(w, i, ty, eh, n, init, OnWire(w, i, ty, eh, n, init))
<1> DEFINE mx == w.mixed \/ (w.blk # 0 /\ ~(i = w.blk /\ ty = "CONT"))
           bk == IF ty \notin {"HEADERS", "CONT"} THEN w.blk ELSE IF eh THEN 0 ELSE i
           cn == IF ty = "DATA" THEN w.conn - n ELSE w.conn
           vw == IF ty = "DATA" THEN [w.view EXCEPT ![i] = @ - n] ELSE w.view
           ex == ty = "DATA" /\ n > w.view[i] /\ i \notin w.stale
           ov == w.over \/ (ex /\ w.cinit = init)
           er == w.early \/ (ex /\ w.cinit # init)
           v == OnWire(w, i, ty, eh, n, init)
<1>1. /\ w.mixed \in BOOLEAN /\ w.over \in BOOLEAN /\ w.early \in BOOLEAN /\ w.blk \in Streams \cup {0} /\ w.conn \in Int
      /\ w.view \in [Streams -> Int] /\ w.view[i] \in Int
  BY DEF WireType
<1>2. v = [w EXCEPT !.mixed = mx, !.blk = bk, !.conn = cn, !.view = vw, !.over = ov,
                !.early = er]
  BY DEF OnWire
<1>3. mx \in BOOLEAN /\ ov \in BOOLEAN /\ er \in BOOLEAN /\ bk \in Streams \cup {0} /\ cn \in Int
  BY <1>1
<1>4. /\ vw \in [Streams -> Int] /\ vw[i] = IF ty = "DATA" THEN w.view[i] - n ELSE w.view[i]
      /\ \A j \in Streams \ {i} : vw[j] = w.view[j]
  <2>1. w.view[i] - n \in Int  BY <1>1
  <2> QED  BY <1>1, <2>1
<1>5. bk = IF ty = "DATA" THEN w.blk ELSE IF eh THEN 0 ELSE i  OBVIOUS
<1> HIDE DEF mx, bk, cn, vw, ov, er, v
<1>6. /\ v \in WireType /\ v.cut = w.cut /\ v.stale = w.stale /\ v.cinit = w.cinit /\ v.mixed = mx /\ v.blk = bk
      /\ v.conn = cn /\ v.view = vw /\ v.over = ov
  BY <1>2, <1>3, <1>4 DEF WireType
<1>7. Shows(w, i, ty, eh, n, init, v)  BY <1>4, <1>5, <1>6 DEF mx, cn, ov, Shows
<1> QED  BY <1>7 DEF v

\* The windows are charged.
Charge(d, i, r, m) == [d EXCEPT !.s[i] = r, !.wnd = m]

\* Only the stream and the window of the connection are touched.
LEMMA PutCharge ==
    ASSUME NEW d \in ConnType, NEW i \in Streams, NEW r \in StreamType, NEW m \in Nat
    PROVE  LET e == Charge(d, i, r, m)
           IN Charged(d, e, i) /\ e.s[i] = r /\ e.wnd = m /\ e.curS = d.curS
<1> DEFINE s == [d.s EXCEPT ![i] = r]
           e == [d EXCEPT !.s = s, !.wnd = m]
<1>1. d.s \in [Streams -> StreamType]  BY DEF ConnType
<1>2. s \in [Streams -> StreamType] /\ s[i] = r /\ \A j \in Streams \ {i} : s[j] = d.s[j]
  BY <1>1
<1>3. e = Charge(d, i, r, m)  BY DEF Charge
<1> HIDE DEF s
<1>4. e \in ConnType  BY <1>2 DEF ConnType
<1>5. /\ e.tree = d.tree /\ e.closed = d.closed /\ e.idle = d.idle /\ e.last = d.last
      /\ e.init = d.init /\ e.new = d.new /\ e.need = d.need /\ e.has = d.has
      /\ e.wq = d.wq /\ e.up = d.up /\ e.s = s /\ e.wnd = m /\ e.curS = d.curS
  BY DEF ConnType
<1> HIDE DEF e
<1>6. Charged(d, e, i)  BY <1>2, <1>4, <1>5 DEF Charged
<1> QED  BY <1>2, <1>3, <1>5, <1>6

\* The stream may be sent.
Ready(x, o, i) ==
    /\ Typed(x, o) /\ Core(x.d, x.w, o) /\ (~x.w.cut => x.w.blk = x.d.curS) /\ x.d.has
    /\ x.left > 0 => x.d.wq = <<>>
    /\ i \in x.d.tree /\ ~x.d.s[i].blk /\ ~x.d.s[i].resp

\* A stream with a frame to make has its response and no other one is on its way.
LEMMA ReadyStream ==
    ASSUME NEW x, NEW o, NEW i \in Streams, Ready(x, o, i), NEW n, Limits(x, i, n)
    PROVE  /\ x \in [d : ConnType, w : WireType, left : Nat] /\ x.d \in ConnType /\ x.w \in WireType
           /\ x.d.s[i] \in StreamType /\ Transmits(x.d.s[i]) /\ Between(x.d.s[i])
           /\ NoResp(o, i) /\ x.d.wq = <<>> /\ WireOK(x.w) /\ x.d.up
           /\ o \in Seq(OutType) /\ x.left \in Nat /\ x.left - n \in Nat /\ x.d.curS \in Streams \cup {0}
<1>1. /\ x \in [d : ConnType, w : WireType, left : Nat] /\ x.d \in ConnType /\ x.w \in WireType
      /\ x.d.s[i] \in StreamType /\ Transmits(x.d.s[i]) /\ WireOK(x.w) /\ x.d.up
      /\ o \in Seq(OutType) /\ x.left \in Nat /\ x.d.curS \in Streams \cup {0}
  BY DEF Ready, Typed, ConnType, Core
<1>2. n \in Nat \ {0} /\ n <= x.left /\ x.d.s[i].xs # "no"  BY DEF Limits
<1>3. x.left - n \in Nat /\ x.d.wq = <<>>  BY <1>1, <1>2 DEF Ready
<1>4. Between(x.d.s[i])  BY <1>1, <1>2 DEF Between, Transmits, Ready
<1>5. ~Waits(x.d.s[i])
  <2>1. ASSUME Waits(x.d.s[i]) PROVE FALSE
    <3>1. x.d.s[i].xs = "hdrs" /\ x.d.s[i].h = 0  BY <2>1 DEF Waits
    <3>2. n <= 0  BY <3>1 DEF Limits
    <3> QED  BY <1>2, <3>2
  <2> QED  BY <2>1
<1>6. NoResp(o, i)  BY <1>5 DEF NoResp, Ready, Core, OutInv
<1> QED  BY <1>1, <1>3, <1>4, <1>6

\* What is sent now follows the frame.
LEMMA FrameFollowed ==
    ASSUME NEW x, NEW o, NEW i \in Streams, Ready(x, o, i), NEW n, Limits(x, i, n),
           NEW e, Charged(x.d, e, i), x.d.curS \in {0, i},
           NEW v \in WireType, WireOK(v), v.cut = x.w.cut, v.stale = x.w.stale, v.conn >= e.wnd,
           v.cinit = x.w.cinit, \A j \in Streams \ {i} : v.view[j] = x.w.view[j],
           e.s[i].st \in Live /\ i \notin v.stale => v.view[i] = e.s[i].wnd + v.cinit - e.init,
           ~v.cut => v.blk = e.curS,
           e.curS \in {0, i},
           e.curS = i => e.s[i].st = "REM_HALF_CLOSED" /\ NextXmit(e.s[i]) \in {"cont", "trlc"},
           e.s[i].h > 0 => e.curS = i,
           Between(e.s[i]), e.s[i].post = x.d.s[i].post,
           NEW g \in [d : ConnType, w : WireType, left : Nat], g.d = e, g.w = v, g.left = x.left - n
    PROVE  Sent(SendFrames(g, i), o, i)
<1>1. /\ x.d \in ConnType /\ x.w \in WireType /\ Between(x.d.s[i]) /\ NoResp(o, i)
      /\ x.d.wq = <<>> /\ x.d.up /\ o \in Seq(OutType) /\ x.left - n \in Nat /\ i \in x.d.tree
      /\ Core(x.d, x.w, o) /\ x.d.has /\ (~x.w.cut => x.w.blk = x.d.curS)
  BY ReadyStream DEF Ready
<1>2. e \in ConnType /\ e.wq = x.d.wq /\ e.up /\ e.has /\ e.tree = x.d.tree /\ e.need = x.d.need
  BY <1>1 DEF Charged
<1>4. Typed(g, o)  BY <1>1, <1>2 DEF Typed
<1>5. Mid(e, v, o, {i})
  <2>1. x.d.s[i].st # "IDLE"  BY <1>1 DEF Between
  <2> QED  BY <1>1, <1>2, <2>1, ChargedMid
<1>6. Framed(g, o, i)  BY <1>1, <1>2, <1>4, <1>5 DEF Framed
<1>7. AckIn(g.d, g.w, ToSet(o) \cup (ToSet(g.d.wq) \cup ToSet(g.d.s[i].post)))
  <2>1. AckIn(x.d, x.w, ToSet(o) \cup ToSet(x.d.wq) \cup Post(x.d))  BY <1>1, MidCore
  <2>2. Post(x.d) \subseteq ToSet(x.d.s[i].post)
    <3>1. CASE x.d.curS = 0  BY <3>1 DEF Post
    <3>2. CASE x.d.curS = i  BY <3>2 DEF Post
    <3> QED  BY <3>1, <3>2
  <2> QED  BY <1>2, <2>1, <2>2 DEF AckIn
<1>8. g.d.s[i].h > 0 => g.d.curS = i  OBVIOUS
<1> QED  BY <1>6, <1>7, <1>8, SendFramesSent

\* What is left of the response is dropped.
Dropped(r) == [r EXCEPT !.h = 0, !.b = 0, !.t = 0]

Drop(d, i) == [d EXCEPT !.s[i] = Dropped(d.s[i])]

\* The data of a stream that was closed under the frame is dropped.
LEMMA DroppedFields ==
    ASSUME NEW e \in ConnType, NEW i \in Streams
    PROVE  /\ [e EXCEPT !.s[i].h = 0, !.s[i].b = 0, !.s[i].t = 0]
              = Drop(e, i)
           /\ Dropped(e.s[i]) \in StreamType /\ Dropped(e.s[i]).st = e.s[i].st
           /\ Dropped(e.s[i]).post = e.s[i].post /\ Dropped(e.s[i]).h = 0
           /\ Between(e.s[i]) => Between(Dropped(e.s[i]))
<1> DEFINE q == e.s[i]
<1>1. e.s \in [Streams -> StreamType] /\ q \in StreamType  BY DEF ConnType
<1>2. /\ Dropped(q) \in StreamType /\ Dropped(q).st = q.st /\ Dropped(q).post = q.post
      /\ Dropped(q).h = 0 /\ Dropped(q).req = q.req /\ Dropped(q).blk = q.blk
      /\ Dropped(q).resp = q.resp /\ Dropped(q).xs = q.xs
  BY <1>1 DEF Dropped, StreamType
<1>3. Between(q) => Between(Dropped(q))  BY <1>2 DEF Between
<1>4. [e EXCEPT !.s[i].h = 0, !.s[i].b = 0, !.s[i].t = 0] = [e EXCEPT !.s[i] = Dropped(q)]
  <2> DEFINE s1 == [e.s EXCEPT ![i] = [e.s[i] EXCEPT !.h = 0]]
             s2 == [s1 EXCEPT ![i] = [s1[i] EXCEPT !.b = 0]]
             s3 == [s2 EXCEPT ![i] = [s2[i] EXCEPT !.t = 0]]
  <2>1. s1 \in [Streams -> StreamType] /\ s1[i] = [q EXCEPT !.h = 0]
        /\ \A j \in Streams \ {i} : s1[j] = e.s[j]
    BY <1>1 DEF StreamType
  <2>2. s2 \in [Streams -> StreamType] /\ s2[i] = [q EXCEPT !.h = 0, !.b = 0]
        /\ \A j \in Streams \ {i} : s2[j] = e.s[j]
    <3> HIDE DEF s1
    <3> QED  BY <1>1, <2>1, ZenonT(60) DEF StreamType
  <2>3. s3 = [e.s EXCEPT ![i] = Dropped(q)]
    <3> HIDE DEF s1, s2
    <3> QED  BY <1>1, <1>2, <2>2, ZenonT(60) DEF Dropped, StreamType
  <2>4. [e EXCEPT !.s[i].h = 0, !.s[i].b = 0, !.s[i].t = 0] = [e EXCEPT !.s = s3]
    BY DEF ConnType
  <2>5. [e EXCEPT !.s = s3] = [e EXCEPT !.s[i] = Dropped(q)]
    <3> HIDE DEF s3
    <3> QED  BY <2>3
  <2> QED  BY <2>4, <2>5
<1> QED  BY <1>2, <1>3, <1>4 DEF Drop

\* A charge is followed by the state machine.
LEMMA PassedCharged ==
    ASSUME NEW d, NEW b, NEW e, NEW i \in Streams, Charged(d, b, i), NEW ty, NEW f,
           Passed(b, i, ty, f, e)
    PROVE  Charged(d, e, i) /\ e.wnd = b.wnd
BY DEF Charged, Passed, Fixed

\* The frame is accepted by the state machine.
LEMMA FrameAccepted ==
    ASSUME NEW x, NEW o, NEW i \in Streams, Ready(x, o, i), NEW n, Limits(x, i, n),
           NEW r, NEW ty, NEW f, Taken(x.d.s[i], n, r, ty, f), ty = "DATA" => x.d.s[i].xs = "data",
           NEW b, Charged(x.d, b, i), b.s[i] = r, b.curS = x.d.curS,
           b.wnd = IF ty = "DATA" THEN x.d.wnd - n ELSE x.d.wnd,
           NEW e, Passed(b, i, ty, f, e), e.res = "OK",
           NEW g, g = [d |-> e, w |-> OnWire(x.w, i, ty, "EH" \in f, n, b.init), left |-> x.left - n]
    PROVE  Sent(SendFrames(g, i), o, i)
<1> DEFINE q == x.d.s[i]
           eh == "EH" \in f
           w == x.w
           v == OnWire(w, i, ty, eh, n, b.init)
           u == e.s[i]
<1>1. /\ x.d \in ConnType /\ w \in WireType /\ q \in StreamType /\ Between(q)
      /\ WireOK(w) /\ i \in x.d.tree /\ x.d.wq = <<>>
      /\ Core(x.d, w, o) /\ (~w.cut => w.blk = x.d.curS)
  BY ReadyStream DEF Ready
<1>2. n \in Nat \ {0} /\ n \in Nat /\ i # 0  BY StreamsNat DEF Limits
<1>3. /\ ty \in {"HEADERS", "CONT", "DATA"} /\ r \in StreamType /\ r.post = q.post
      /\ r.req = q.req /\ r.resp = q.resp /\ r.xs = q.xs /\ r.blk = q.blk /\ r.st = q.st
      /\ (ty = "DATA" => r.wnd = q.wnd - n /\ ~eh)
      /\ (ty # "DATA" => r.wnd = q.wnd)
      /\ (ty # "DATA" /\ ~eh => NextXmit(r) \in {"cont", "trlc"})
      /\ (r.h > 0 => ty # "DATA" /\ ~eh)
  BY DEF Taken
<1>4. /\ r.st = "REM_HALF_CLOSED"
      /\ x.d.curS \in {0, i} /\ (x.d.curS # 0 => ty = "CONT")
      /\ e.curS = IF ty = "DATA" \/ eh THEN 0 ELSE i
      /\ u.st \in {"REM_HALF_CLOSED", "CLOSED"}
      /\ (e.curS = i => u.st = "REM_HALF_CLOSED")
      /\ \E st \in States, es \in BOOLEAN : u = [r EXCEPT !.st = st, !.eosS = es]
  <2> HIDE DEF u, eh
  <2> QED  BY DEF Passed, u, eh
<1>5. /\ u.wnd = r.wnd /\ u.post = r.post /\ u.req = r.req /\ u.resp = r.resp /\ u.xs = r.xs
      /\ u.blk = r.blk /\ u.h = r.h /\ u.b = r.b /\ u.t = r.t
  <2>1. PICK st \in States, es \in BOOLEAN : u = [r EXCEPT !.st = st, !.eosS = es]  BY <1>4
  <2> HIDE DEF u
  <2> QED  BY <1>3, <2>1 DEF StreamType
<1>c. Charged(x.d, e, i) /\ e.wnd = b.wnd  BY PassedCharged
<1>6. /\ v \in WireType /\ v.cut = w.cut /\ v.stale = w.stale /\ v.cinit = w.cinit
      /\ v.mixed = (w.mixed \/ (w.blk # 0 /\ ~(i = w.blk /\ ty = "CONT")))
      /\ v.blk = IF ty = "DATA" THEN w.blk ELSE IF eh THEN 0 ELSE i
      /\ v.conn = IF ty = "DATA" THEN w.conn - n ELSE w.conn
      /\ v.view[i] = IF ty = "DATA" THEN w.view[i] - n ELSE w.view[i]
      /\ \A j \in Streams \ {i} : v.view[j] = w.view[j]
      /\ v.over = (w.over \/ ((ty = "DATA" /\ n > w.view[i] /\ i \notin w.stale)
                              /\ w.cinit = b.init))
  <2>1. eh \in BOOLEAN  OBVIOUS
  <2> HIDE DEF eh
  <2>2. Shows(w, i, ty, eh, n, b.init, v)  BY <1>1, <1>2, <1>3, <2>1, FrameWire
  <2> HIDE DEF v, w
  <2> QED  BY <2>2 DEF Shows
<1>g. g \in [d : ConnType, w : WireType, left : Nat] /\ g.d = e /\ g.w = v /\ g.left = x.left - n
  <2>1. e \in ConnType /\ x.left - n \in Nat  BY <1>c, ReadyStream DEF Charged
  <2>2. g = [d |-> e, w |-> v, left |-> x.left - n]  OBVIOUS
  <2>3. v \in WireType  BY <1>6
  <2> HIDE DEF v
  <2> QED  BY <2>1, <2>2, <2>3
<1> HIDE DEF v, u, eh
<1>7. /\ w.conn \in Int /\ w.view[i] \in Int /\ x.d.wnd \in Nat /\ q.wnd \in Int
      /\ w.cinit \in Nat /\ b.init \in Nat /\ e.init = b.init
      /\ w.conn >= x.d.wnd /\ (i \notin w.stale => w.view[i] = q.wnd + w.cinit - b.init)
  <2>1. w.conn \in Int /\ w.view[i] \in Int /\ w.cinit \in Nat  BY <1>1 DEF WireType
  <2>2. x.d.wnd \in Nat /\ x.d.init \in Nat  BY <1>1 DEF ConnType
  <2>3. q.wnd \in Int  BY <1>1 DEF StreamType
  <2>4. q.st \in Live  BY <1>3, <1>4 DEF Live
  <2>5. WinInv(x.d, w)  BY <1>1 DEF Core
  <2>6. b.init = x.d.init /\ e.init = x.d.init  BY <1>c DEF Charged
  <2>7. w.conn >= x.d.wnd /\ (i \notin w.stale => w.view[i] = q.wnd + w.cinit - x.d.init)
    BY <1>1, <2>4, <2>5 DEF WinInv
  <2> QED  BY <2>1, <2>2, <2>3, <2>6, <2>7
<1>8. ty = "DATA" => n <= x.d.wnd /\ n <= q.wnd  BY DEF Limits
<1>9. v.conn >= e.wnd /\ v.conn >= 0
  <2>1. CASE ty = "DATA"
    <3>1. v.conn = w.conn - n /\ e.wnd = x.d.wnd - n  BY <2>1, <1>6, <1>c
    <3> QED  BY <2>1, <3>1, <1>2, <1>7, <1>8
  <2>2. CASE ty # "DATA"
    <3>1. v.conn = w.conn /\ e.wnd = x.d.wnd  BY <2>2, <1>6, <1>c
    <3> QED  BY <3>1, <1>7
  <2> QED  BY <2>1, <2>2
<1>10. i \notin v.stale => v.view[i] = u.wnd + v.cinit - e.init
  <2>1. CASE ty = "DATA"
    <3>1. v.view[i] = w.view[i] - n /\ u.wnd = q.wnd - n /\ v.cinit = w.cinit /\ v.stale = w.stale
      BY <2>1, <1>3, <1>5, <1>6
    <3> QED  BY <3>1, <1>2, <1>7
  <2>2. CASE ty # "DATA"
    <3>1. v.view[i] = w.view[i] /\ u.wnd = q.wnd /\ v.cinit = w.cinit /\ v.stale = w.stale
      BY <2>2, <1>3, <1>5, <1>6
    <3> QED  BY <3>1, <1>7
  <2> QED  BY <2>1, <2>2
<1>11. ~v.over
  <2>1. ty = "DATA" /\ i \notin w.stale /\ w.cinit = b.init => n <= w.view[i]  BY <1>7, <1>8
  <2>2. ~w.over  BY <1>1 DEF WireOK
  <2>3. ~((ty = "DATA" /\ n > w.view[i] /\ i \notin w.stale) /\ w.cinit = b.init)
    BY <1>2, <1>7, <2>1
  <2>4. v.over = (w.over \/ ((ty = "DATA" /\ n > w.view[i] /\ i \notin w.stale)
                              /\ w.cinit = b.init))
    BY <1>6
  <2> QED  BY <2>2, <2>3, <2>4, Zenon
<1>12. v.mixed => v.cut
  <2>1. w.mixed => w.cut  BY <1>1 DEF WireOK
  <2>2. ~w.cut => w.blk = x.d.curS  BY <1>1
  <2> QED  BY <1>4, <1>6, <2>1, <2>2
<1>13. ~v.cut => v.blk = e.curS
  <2>1. ASSUME ~v.cut PROVE v.blk = e.curS
    <3>1. w.blk = x.d.curS  BY <2>1, <1>1, <1>6
    <3>2. CASE ty = "DATA"  BY <3>1, <3>2, <1>4, <1>6
    <3>3. CASE ty # "DATA"  BY <3>3, <1>4, <1>6
    <3> QED  BY <3>2, <3>3
  <2> QED  BY <2>1
<1>14. WireOK(v)  BY <1>9, <1>11, <1>12 DEF WireOK
<1>15. NextXmit(u) = NextXmit(r)  BY <1>5 DEF NextXmit
<1>16. /\ e.curS \in {0, i} /\ x.d.curS \in {0, i}
       /\ (e.curS = i => u.st = "REM_HALF_CLOSED" /\ NextXmit(u) \in {"cont", "trlc"})
       /\ (u.h > 0 => e.curS = i)
  BY <1>2, <1>3, <1>4, <1>5, <1>15
<1>17. Between(u) /\ u.post = q.post
  BY <1>1, <1>3, <1>4, <1>5 DEF Between
<1> HIDE DEF q
<1>18. Sent(SendFrames(g, i), o, i)
  BY <1>c, <1>6, <1>g, <1>9, <1>10, <1>13, <1>14, <1>16, <1>17, FrameFollowed DEF u, q
<1> QED  BY <1>18

\* The stream was closed meanwhile: the frame and the rest are dropped.
LEMMA FrameIgnored ==
    ASSUME NEW x, NEW o, NEW i \in Streams, Ready(x, o, i), NEW n, Limits(x, i, n),
           NEW r, NEW ty, NEW f, Taken(x.d.s[i], n, r, ty, f), ty = "DATA" => x.d.s[i].xs = "data",
           NEW b, Charged(x.d, b, i), b.s[i] = r, b.curS = x.d.curS,
           b.wnd = IF ty = "DATA" THEN x.d.wnd - n ELSE x.d.wnd,
           NEW e, Passed(b, i, ty, f, e), e.res = "IGNORE",
           NEW a, a = Drop(e, i),
           NEW g, g = [x EXCEPT !.left = @ - n, !.d = a]
    PROVE  Sent(SendFrames(g, i), o, i)
<1> DEFINE q == x.d.s[i]
           w == x.w
           u == a.s[i]
<1>1. /\ x.d \in ConnType /\ w \in WireType /\ q \in StreamType /\ Between(q)
      /\ WireOK(w) /\ i \in x.d.tree /\ x.d.curS \in Streams \cup {0}
      /\ Core(x.d, w, o) /\ (~w.cut => w.blk = x.d.curS)
  BY ReadyStream DEF Ready
<1>2. n \in Nat \ {0} /\ i # 0  BY StreamsNat DEF Limits
<1>3. /\ r \in StreamType /\ r.post = q.post
      /\ r.req = q.req /\ r.resp = q.resp /\ r.xs = q.xs /\ r.blk = q.blk /\ r.st = q.st
  BY DEF Taken
<1>4. e \in ConnType /\ e.s[i] = r /\ e.curS = x.d.curS /\ r.st \notin Live  BY DEF Passed
<1>c. Charged(x.d, e, i) /\ e.wnd = b.wnd  BY PassedCharged
<1>5. Between(r)  BY <1>1, <1>3 DEF Between
<1> DEFINE p == Dropped(e.s[i])
<1>6. p \in StreamType /\ p.st = r.st /\ p.post = r.post /\ p.h = 0 /\ Between(p)
  BY <1>4, <1>5, DroppedFields
<1> HIDE DEF p
<1>7. /\ a \in ConnType /\ Fixed(e, a) /\ a.tree = e.tree /\ a.closed = e.closed /\ a.idle = e.idle
      /\ a.curS = e.curS /\ a.s[i] = p /\ \A j \in Streams \ {i} : a.s[j] = e.s[j]
  <2> DEFINE k == [e EXCEPT !.s[i] = p]
  <2>1. /\ k \in ConnType /\ Fixed(e, k) /\ k.tree = e.tree /\ k.closed = e.closed /\ k.idle = e.idle
        /\ k.curS = e.curS /\ k.s[i] = p /\ \A j \in Streams \ {i} : k.s[j] = e.s[j]
    BY <1>4, <1>6, PutStream
  <2>2. a = k  BY DEF p, Drop
  <2> HIDE DEF k
  <2> QED  BY <2>1, <2>2
<1>8. Charged(x.d, a, i) /\ a.wnd = e.wnd  BY <1>7, <1>c DEF Charged, Fixed
<1>g. g \in [d : ConnType, w : WireType, left : Nat] /\ g.d = a /\ g.w = x.w /\ g.left = x.left - n
  <2>1. x \in [d : ConnType, w : WireType, left : Nat] /\ x.left - n \in Nat  BY ReadyStream
  <2>2. a \in ConnType  BY <1>7
  <2> QED  BY <2>1, <2>2
<1>9. x.d.curS = 0
  <2>1. x.d.curS # i
    <3>1. CurInv(x.d)  BY <1>1 DEF Core
    <3> QED  BY <1>2, <1>3, <1>4, <3>1 DEF CurInv, Live
  <2>2. x.d.curS \in {0, i}  BY DEF Passed
  <2> QED  BY <2>1, <2>2
<1>10. w.conn >= a.wnd
  <2>1. w.conn \in Int /\ x.d.wnd \in Nat  BY <1>1 DEF WireType, ConnType
  <2>2. w.conn >= x.d.wnd  BY <1>1 DEF Core, WinInv
  <2>3. a.wnd = x.d.wnd - n \/ a.wnd = x.d.wnd  BY <1>8, <1>c
  <2> QED  BY <2>1, <2>2, <2>3, <1>2
<1>11. ~w.cut => w.blk = a.curS  BY <1>1, <1>4, <1>7
<1>12. a.curS = 0 /\ u.st \notin Live /\ ~(u.h > 0) /\ Between(u) /\ u.post = q.post
  BY <1>3, <1>4, <1>6, <1>7, <1>9
<1> HIDE DEF q, w, u
<1>13. Sent(SendFrames(g, i), o, i)
  BY <1>1, <1>2, <1>8, <1>g, <1>9, <1>10, <1>11, <1>12, FrameFollowed DEF u, q, w
<1> QED  BY <1>13

\* tfw_h2_insert_frame_header()
LEMMA InsertSent ==
    ASSUME NEW x, NEW o, NEW i \in Streams, Ready(x, o, i), NEW n, Limits(x, i, n),
           NEW y, y = InsertFrame(x, i, n)
    PROVE  Sent(y, o, i) \/ \E k : y = [x EXCEPT !.d = Term(k)]
<1> DEFINE q == x.d.s[i]
           r == Take(q, n)
           ty == FrameType(r.xs)
           f == FrameFlags(r, ty)
           m == IF ty = "DATA" THEN x.d.wnd - n ELSE x.d.wnd
           b == Charge(x.d, i, r, m)
           e == Fsm(b, i, ty, f, TRUE)
           v == OnWire(x.w, i, ty, "EH" \in f, n, b.init)
           g == [d |-> e, w |-> v, left |-> x.left - n]
           a == Drop(e, i)
           h == [x EXCEPT !.left = @ - n, !.d = a]
<1>1. /\ x \in [d : ConnType, w : WireType, left : Nat] /\ x.d \in ConnType /\ q \in StreamType
      /\ Transmits(q) /\ Between(q) /\ x.left - n \in Nat
  BY ReadyStream
<1>2. /\ n \in Nat \ {0} /\ q.xs # "no"
      /\ (q.xs = "data" => n <= q.b /\ n <= x.d.wnd)
      /\ (q.xs \in {"hdrs", "cont"} => n <= q.h)
      /\ (q.xs \in {"trl", "trlc"} => n <= q.t)
  BY DEF Limits
<1>3. Taken(q, n, r, ty, f)
  <2> HIDE DEF q
  <2> QED  BY <1>1, <1>2, TakenFacts
<1>4. ty = "DATA" => q.xs = "data"
  <2>1. r.xs = q.xs  BY <1>3 DEF Taken
  <2>2. q.xs \in {"hdrs", "cont", "data", "trl", "trlc"}  BY <1>1, <1>2 DEF StreamType
  <2> HIDE DEF r, q
  <2> QED  BY <2>1, <2>2 DEF FrameType
<1>5. m \in Nat
  <2>1. x.d.wnd \in Nat  BY <1>1 DEF ConnType
  <2> HIDE DEF ty
  <2> QED  BY <1>2, <1>4, <2>1
<1>6. InsertFrame(x, i, n) =
        CASE e.res = "OK" -> SendFrames(g, i)
          [] e.res \in {"IGNORE", "TERM_STREAM"} ->
               SendFrames([x EXCEPT !.left = @ - n,
                                    !.d = [e EXCEPT !.s[i].h = 0, !.s[i].b = 0, !.s[i].t = 0]], i)
          [] OTHER -> [x EXCEPT !.d = Term(e)]
  BY DEF InsertFrame, Charge
<1>m. m = IF ty = "DATA" THEN x.d.wnd - n ELSE x.d.wnd  OBVIOUS
<1>st. r \in StreamType /\ r.st = q.st  BY <1>3 DEF Taken
<1> HIDE DEF r, m, f, ty
<1>7. Charged(x.d, b, i) /\ b.s[i] = r /\ b.wnd = m /\ b.curS = x.d.curS
  BY <1>1, <1>5, <1>st, PutCharge
<1> HIDE DEF b
<1>8. Passed(b, i, ty, f, e)
  <2>1. b \in ConnType  BY <1>7 DEF Charged
  <2>2. b.s[i].st \notin {"IDLE", "OPENED"}  BY <1>1, <1>7, <1>st DEF Between
  <2>3. ty \in {"HEADERS", "CONT", "DATA"}  BY <1>3 DEF Taken
  <2> HIDE DEF e
  <2>4. e = Fsm(b, i, ty, f, TRUE)  BY DEF e
  <2> QED  BY <2>1, <2>2, <2>3, <2>4, FsmPassed
<1> HIDE DEF e
<1>9. CASE e.res = "OK"
  <2>1. y = SendFrames(g, i)  BY <1>6, <1>9
  <2> HIDE DEF q, g
  <2>2. g = [d |-> e, w |-> OnWire(x.w, i, ty, "EH" \in f, n, b.init), left |-> x.left - n]  BY DEF g
  <2>3. Sent(SendFrames(g, i), o, i)
    BY <1>3, <1>4, <1>7, <1>8, <1>9, <1>m, <2>2, FrameAccepted DEF q
  <2> QED  BY <2>1, <2>3
<1>10. CASE e.res = "IGNORE"
  <2>1. e \in ConnType  BY <1>8 DEF Passed
  <2>2. [e EXCEPT !.s[i].h = 0, !.s[i].b = 0, !.s[i].t = 0] = a  BY <2>1, DroppedFields
  <2> DEFINE z == [e EXCEPT !.s[i].h = 0, !.s[i].b = 0, !.s[i].t = 0]
  <2>3. y = SendFrames([x EXCEPT !.left = @ - n, !.d = z], i)  BY <1>6, <1>10
  <2>a. a = Drop(e, i)  OBVIOUS
  <2> HIDE DEF z, a
  <2>4. z = a  BY <2>2 DEF z
  <2>5. [x EXCEPT !.left = @ - n, !.d = z] = h  BY <2>4
  <2>6. h = [x EXCEPT !.left = @ - n, !.d = a]  OBVIOUS
  <2> HIDE DEF h, q
  <2>7. Sent(SendFrames(h, i), o, i)
    BY <1>3, <1>4, <1>7, <1>8, <1>10, <1>m, <2>a, <2>6, FrameIgnored DEF q
  <2> QED  BY <2>3, <2>5, <2>7
<1>11. CASE e.res = "TERM_CONN"
  <2>1. y = [x EXCEPT !.d = Term(e)]  BY <1>6, <1>11
  <2> QED  BY <2>1
<1>12. e.res \in {"OK", "IGNORE", "TERM_CONN"}  BY <1>8 DEF Passed
<1> QED  BY <1>9, <1>10, <1>11, <1>12

----------------------------------------------------------------------------
(* A push.                                                                  *)

\* The end of a push clears the flag only if there is nothing to send.
LEMMA EndPushGood ==
    ASSUME NEW d \in ConnType, NEW w \in WireType, NEW o \in Seq(OutType), Core(d, w, o), d.up, d.has
    PROVE  LET e == EndPush(d)
           IN Good(e, w, o) /\ e.curS = d.curS /\ e.res = d.res
<1> DEFINE b == IF d.wq = <<>> /\ ~ReadyToSend(d) THEN FALSE ELSE d.has
           e == EndPush(d)
<1>1. b \in BOOLEAN /\ (ReadyToSend(d) \/ d.wq # <<>> => b)  BY DEF ConnType
<1>2. e = [d EXCEPT !.has = b]  BY DEF EndPush
<1> HIDE DEF b, e
<1>3. /\ e \in ConnType /\ e.has = b /\ e.s = d.s /\ e.tree = d.tree /\ e.closed = d.closed
      /\ e.idle = d.idle /\ e.last = d.last /\ e.curS = d.curS /\ e.wnd = d.wnd
      /\ e.init = d.init /\ e.need = d.need /\ e.wq = d.wq /\ e.up = d.up /\ e.res = d.res
  BY <1>1, <1>2 DEF ConnType
<1>4. Core(e, w, o)  BY <1>3, CoreSame
<1>5. Told(e)  BY <1>1, <1>3 DEF Told, ReadyToSend, ActiveStreams
<1> QED  BY <1>3, <1>4, <1>5 DEF Good, e

\* A closed connection has nothing to tell.
LEMMA EndPushClosed ==
    ASSUME NEW k
    PROVE  [EndPush(Term(k)) EXCEPT !.res = "OK"] = Term(k)
<1> DEFINE d == Term(k)
<1>1. d \in ConnType /\ d.has = FALSE /\ d.res = "OK"  BY TermFacts
<1> HIDE DEF d
<1>2. EndPush(d) = [d EXCEPT !.has = FALSE]  BY <1>1 DEF EndPush
<1>3. [d EXCEPT !.has = FALSE] = d  BY <1>1 DEF ConnType
<1>4. [d EXCEPT !.res = "OK"] = d  BY <1>1 DEF ConnType
<1>5. [EndPush(d) EXCEPT !.res = "OK"] = d  BY <1>2, <1>3, <1>4
<1> QED  BY <1>5 DEF d

\* Nobody pushes.
LEMMA IdleType == Idle \in PushType /\ ~Idle.on
BY DEF Idle, PushType

\* The observer after a step of a push.
LEMMA ObservedSafe ==
    ASSUME NEW d, NEW w, NEW o, Good(d, w, o), WireOK(w), d.res = "OK",
           NEW p \in PushType, PushInv(d, p)
    PROVE  Safe(d, Observe(w, d), o, p)
<1>1. d \in ConnType /\ w \in WireType /\ o \in Seq(OutType) /\ Core(d, w, o) /\ d.up
  BY DEF Good
<1> DEFINE v == Observe(w, d)
<1>2. Core(d, v, o) /\ (~v.cut => v.blk = d.curS)  BY <1>1, ObserveCore
<1>3. v \in WireType /\ WireOK(v)  BY <1>1, ObserveType
<1> HIDE DEF v
<1>4. Safe(d, v, o, p)  BY <1>1, <1>2, <1>3 DEF Safe
<1> QED  BY <1>4 DEF v

\* The push goes on, with the same stream or with another one, or it ends.
LEMMA PushGoesOn ==
    ASSUME NEW d \in ConnType, NEW w \in WireType, NEW o \in Seq(OutType), Core(d, w, o), d.up, d.has,
           WireOK(w), NEW left \in Nat, left > 0 => d.wq = <<>>,
           NEW k \in Streams \cup {0}, k # 0 => k \in d.tree /\ ~d.s[k].blk,
           NEW e, e = [d EXCEPT !.res = "OK"],
           NEW p, p = [on |-> TRUE, cur |-> k, left |-> left]
    PROVE  Safe(e, Observe(w, e), o, p)
<1>1. Good(d, w, o)  BY DEF Good, Told
<1>2. Good(e, w, o) /\ e.res = "OK"  BY <1>1, ResGood
<1>3. e.has = d.has /\ e.wq = d.wq /\ e.tree = d.tree /\ e.s = d.s  BY DEF ConnType
<1>4. p \in PushType /\ p.on /\ p.cur = k /\ p.left = left  BY DEF PushType
<1>5. PushInv(e, p)  BY <1>3, <1>4 DEF PushInv
<1> QED  BY <1>2, <1>4, <1>5, ObservedSafe

\* A push ends: the flag is cleared exactly if nothing is left to send.
LEMMA PushEnds ==
    ASSUME NEW d \in ConnType, NEW w \in WireType, NEW o \in Seq(OutType), Core(d, w, o), d.up, d.has,
           WireOK(w), NEW e, e = [EndPush(d) EXCEPT !.res = "OK"]
    PROVE  Safe(e, Observe(w, e), o, Idle)
<1>1. Good(EndPush(d), w, o)  BY EndPushGood
<1>2. Good(e, w, o) /\ e.res = "OK"  BY <1>1, ResGood
<1>3. PushInv(e, Idle)  BY <1>2, IdleType DEF PushInv, Good, Told
<1> QED  BY <1>2, <1>3, IdleType, ObservedSafe

\* tfw_connection_fill_sk_write_queue() begins with the write queue.
LEMMA PushSafe ==
    ASSUME NEW d, NEW w, NEW o, NEW p, Safe(d, w, o, p), d.up, ~p.on, d.has, NEW n \in Bursts,
           NEW x, x = EntailList([d |-> d, w |-> w, left |-> n], d.wq)
    PROVE  /\ Safe(x.d, Observe(x.w, x.d), o, [on |-> TRUE, cur |-> 0, left |-> x.left])
           /\ Safe(EndPush(x.d), Observe(x.w, EndPush(x.d)), o, Idle)
<1> DEFINE g == [d |-> d, w |-> w, left |-> n]
<1>1. /\ Good(d, w, o) /\ (~w.cut => w.blk = d.curS) /\ WireOK(w) /\ d.res = "OK" /\ w \in WireType
      /\ d \in ConnType /\ o \in Seq(OutType) /\ Core(d, w, o) /\ d.wq \in Seq(CtlType)
  BY SafeUpGood DEF Safe, Good, ConnType
<1>2. n \in Nat  BY H2Bounds
<1>3. g \in [d : ConnType, w : WireType, left : Nat] /\ g.d = d /\ g.w = w  BY <1>1, <1>2
<1>x. x = EntailList(g, d.wq)  OBVIOUS
<1> HIDE DEF g
<1>4. Typed(g, o)  BY <1>1, <1>3 DEF Typed
<1>5. Mid(d, w, o, {}) /\ AckIn(d, w, ToSet(o) \cup ToSet(d.wq) \cup Post(d))  BY <1>1, MidCore
<1>6. d.curS # 0 => d.wq = <<>>  BY <1>5 DEF Mid
<1>7. Flushed(g, x, o, {}, ToSet(d.wq))
  <2>1. Mid(g.d, g.w, o, {}) /\ (g.d.curS # 0 => d.wq = <<>>)  BY <1>3, <1>5, <1>6
  <2> QED  BY <1>1, <1>4, <1>x, <2>1, EntailFlushed
<1>8. /\ Typed(x, o) /\ Mid(x.d, x.w, o, {}) /\ Entailed(d, x.d) /\ (x.left > 0 => x.d.wq = <<>>)
      /\ (\A A : AckIn(d, w, A \cup ToSet(d.wq)) => AckIn(x.d, x.w, A \cup ToSet(x.d.wq)))
  BY <1>3, <1>7 DEF Flushed
<1>9. /\ x \in [d : ConnType, w : WireType, left : Nat] /\ x.d \in ConnType /\ x.w \in WireType
      /\ WireOK(x.w) /\ x.d.up /\ x.left \in Nat
  BY <1>8 DEF Typed
<1>10. Core(x.d, x.w, o)
  <2>1. Post(x.d) = Post(d)
    <3>1. x.d.curS = d.curS /\ \A j \in Streams : Aged(d.s[j], x.d.s[j])  BY <1>8 DEF Entailed
    <3>2. d.curS \in Streams \cup {0}  BY <1>1 DEF ConnType
    <3> QED  BY <3>1, <3>2 DEF Post, Aged
  <2>2. AckIn(d, w, (ToSet(o) \cup Post(d)) \cup ToSet(d.wq))  BY <1>5 DEF AckIn
  <2>3. AckIn(x.d, x.w, (ToSet(o) \cup Post(d)) \cup ToSet(x.d.wq))  BY <1>8, <2>2
  <2>4. AckIn(x.d, x.w, ToSet(o) \cup ToSet(x.d.wq) \cup Post(x.d))  BY <2>1, <2>3 DEF AckIn
  <2> QED  BY <1>8, <2>4, MidCore
<1>11. x.d.has /\ x.d.res = "OK"  BY <1>1, <1>8 DEF Entailed
<1>r. \A b \in ConnType : b.res = "OK" => [b EXCEPT !.res = "OK"] = b  BY DEF ConnType
<1>12. Safe(x.d, Observe(x.w, x.d), o, [on |-> TRUE, cur |-> 0, left |-> x.left])
  <2> DEFINE q == [on |-> TRUE, cur |-> 0, left |-> x.left]
  <2>1. x.d = [x.d EXCEPT !.res = "OK"]  BY <1>r, <1>9, <1>11
  <2>2. q = [on |-> TRUE, cur |-> 0, left |-> x.left]  OBVIOUS
  <2> HIDE DEF q
  <2>3. Safe(x.d, Observe(x.w, x.d), o, q)
    BY <1>1, <1>8, <1>9, <1>10, <1>11, <2>1, <2>2, PushGoesOn
  <2> QED  BY <2>3 DEF q
<1>13. Safe(EndPush(x.d), Observe(x.w, EndPush(x.d)), o, Idle)
  <2> DEFINE e == EndPush(x.d)
  <2>1. e \in ConnType /\ e.res = "OK"
    BY <1>1, <1>9, <1>10, <1>11, EndPushGood DEF Good
  <2>2. e = [EndPush(x.d) EXCEPT !.res = "OK"]
    <3> HIDE DEF e
    <3>1. e = [e EXCEPT !.res = "OK"]  BY <2>1, <1>r
    <3> QED  BY <3>1 DEF e
  <2> HIDE DEF e
  <2>3. Safe(e, Observe(x.w, e), o, Idle)
    BY <1>1, <1>9, <1>10, <1>11, <2>2, PushEnds
  <2> QED  BY <2>3 DEF e
<1> QED  BY <1>12, <1>13

\* The stream that tfw_h2_make_frames() takes is stored and is not blocked.
LEMMA ChosenStream ==
    ASSUME Safe(c, wire, out, push), c.up, push.on, NEW i \in Chosen
    PROVE  i \in Streams /\ i \in c.tree /\ ~c.s[i].blk
<1>1. Good(c, wire, out) /\ PushInv(c, push)  BY SafeUpGood
<1>2. c.tree \subseteq Streams /\ CurInv(c) /\ \A j \in Streams : Transmits(c.s[j])
  BY <1>1 DEF Good, Core, ConnType
<1>3. CASE push.cur # 0
  <2>1. i = push.cur  BY <1>3 DEF Chosen
  <2> QED  BY <1>1, <1>2, <1>3, <2>1 DEF PushInv
<1>4. CASE push.cur = 0 /\ c.curS # 0
  <2>1. i = c.curS  BY <1>4 DEF Chosen
  <2> QED  BY <1>2, <1>4, <2>1 DEF CurInv, Transmits
<1>5. CASE push.cur = 0 /\ c.curS = 0
  <2>1. i \in ActiveStreams(c)  BY <1>5 DEF Chosen
  <2> QED  BY <1>2, <2>1 DEF ActiveStreams, Active
<1> QED  BY <1>3, <1>4, <1>5

\* The response is released, the stream is marked as blocked.
Released(d, i) == [d EXCEPT !.s[i] = [d.s[i] EXCEPT !.resp = FALSE]]
Marked(d, i, b) == [d EXCEPT !.s[i] = [d.s[i] EXCEPT !.blk = b]]

\* The two updates of the stream that is served, written out.
LEMMA ReleasedIs ==
    ASSUME NEW d \in ConnType, NEW i \in Streams, NEW b
    PROVE  /\ [d EXCEPT !.s[i].resp = FALSE] = Released(d, i)
           /\ [d EXCEPT !.s[i].blk = b] = Marked(d, i, b)
BY DEF Released, Marked, ConnType

\* The stream that the scheduler chose is ready for a frame.
LEMMA ReleasedReady ==
    ASSUME NEW d, NEW w, NEW o, NEW p, Safe(d, w, o, p), d.up, p.on, NEW i \in Streams,
           i \in d.tree, ~d.s[i].blk,
           NEW x, x = [d |-> Released(d, i), w |-> w, left |-> p.left]
    PROVE  Ready(x, o, i) /\ x.d.s[i].xs = d.s[i].xs /\ x.d.res = "OK"
<1> DEFINE q == d.s[i]
           r == [q EXCEPT !.resp = FALSE]
           e == Released(d, i)
<1>1. Good(d, w, o) /\ PushInv(d, p) /\ (~w.cut => w.blk = d.curS)  BY SafeUpGood
<1>2. /\ d \in ConnType /\ w \in WireType /\ o \in Seq(OutType) /\ Core(d, w, o) /\ d.up
      /\ q \in StreamType /\ Transmits(q) /\ WireOK(w) /\ p.left \in Nat /\ d.res = "OK"
      /\ CurInv(d) /\ OutInv(d, o) /\ d.has /\ (p.left > 0 => d.wq = <<>>)
  BY <1>1 DEF Safe, Good, Core, ConnType, PushType, PushInv
<1>3. /\ r \in StreamType /\ r.st = q.st /\ r.wnd = q.wnd /\ r.post = q.post /\ r.xs = q.xs
      /\ r.req = q.req /\ r.h = q.h /\ r.b = q.b /\ r.t = q.t /\ r.tail = q.tail /\ r.blk = q.blk
      /\ r.resp = FALSE
  BY <1>2 DEF StreamType
<1>e. e = [d EXCEPT !.s[i] = r]  BY DEF Released
<1> HIDE DEF r, q
<1>4. Transmits(r) /\ (Waits(q) => Waits(r))  BY <1>2, <1>3 DEF Transmits, HasSkb, Waits
<1>5. /\ (i = d.curS => /\ r.st = "REM_HALF_CLOSED" /\ r.xs \in {"cont", "trlc"}
                        /\ ToSet(d.s[i].post) \subseteq ToSet(r.post))
      /\ (d.s[i].st = "IDLE" => r.st = "IDLE")
      /\ (r.st \in Live => d.s[i].st \in Live /\ r.wnd = d.s[i].wnd)
  BY <1>2, <1>3, StreamsNat DEF CurInv, OutInv, q
<1>6. \A k \in DOMAIN o : o[k].ty = "resp" /\ o[k].i = i /\ i \in d.tree => Waits(r)
  BY <1>2, <1>4 DEF OutInv, q
<1>7. Core(e, w, o)
  <2> DEFINE g == [d EXCEPT !.s[i] = r]
  <2>1. Core(g, w, o)  BY <1>2, <1>3, <1>4, <1>5, <1>6, PutCore
  <2>2. e = g  BY <1>e
  <2> HIDE DEF g, e
  <2> QED  BY <2>1, <2>2
<1>8. /\ e \in ConnType /\ Fixed(d, e) /\ e.res = d.res /\ e.tree = d.tree /\ e.curS = d.curS
      /\ e.s[i] = r
  <2> DEFINE g == [d EXCEPT !.s[i] = r]
  <2>1. /\ g \in ConnType /\ Fixed(d, g) /\ g.res = d.res /\ g.tree = d.tree /\ g.curS = d.curS
        /\ g.s[i] = r
    BY <1>2, <1>3, PutStream
  <2>2. e = g  BY <1>e
  <2> HIDE DEF g, e
  <2> QED  BY <2>1, <2>2
<1> HIDE DEF e
<1>9. e.up /\ e.has /\ e.wq = d.wq  BY <1>2, <1>8 DEF Fixed
<1>10. x \in [d : ConnType, w : WireType, left : Nat] /\ x.d = e /\ x.w = w /\ x.left = p.left
  BY <1>2, <1>8 DEF e
<1>11. Typed(x, o)  BY <1>2, <1>9, <1>10 DEF Typed
<1>12. ~r.blk /\ ~r.resp /\ r.xs = d.s[i].xs  BY <1>3 DEF q
<1> QED  BY <1>1, <1>2, <1>7, <1>8, <1>9, <1>10, <1>11, <1>12 DEF Ready

\* A stream that stops is marked as blocked if its window is the reason.
LEMMA FrameStops ==
    ASSUME NEW x, NEW o, NEW i \in Streams, Ready(x, o, i), x.d.res = "OK",
           NEW b \in BOOLEAN, b => x.d.s[i].xs = "data"
    PROVE  Safe(EndPush(Marked(x.d, i, b)), x.w, o, Idle)
<1> DEFINE d == x.d
           w == x.w
           q == d.s[i]
           r == [q EXCEPT !.blk = b]
           e == Marked(d, i, b)
<1>1. /\ d \in ConnType /\ w \in WireType /\ o \in Seq(OutType) /\ Core(d, w, o) /\ d.up
      /\ q \in StreamType /\ Transmits(q) /\ WireOK(w) /\ i \in d.tree
      /\ CurInv(d) /\ OutInv(d, o) /\ d.has /\ (~w.cut => w.blk = d.curS)
  BY DEF Ready, Typed, Core, ConnType
<1>2. /\ r \in StreamType /\ r.st = q.st /\ r.wnd = q.wnd /\ r.post = q.post /\ r.xs = q.xs
      /\ r.req = q.req /\ r.h = q.h /\ r.b = q.b /\ r.t = q.t /\ r.tail = q.tail /\ r.blk = b
      /\ r.resp = q.resp
  BY <1>1 DEF StreamType
<1>e. e = [d EXCEPT !.s[i] = r]  BY DEF Marked
<1>b. b => q.xs = "data"  OBVIOUS
<1>s. d.res = "OK"  OBVIOUS
<1> HIDE DEF r, q, d, w
<1>4. Transmits(r) /\ (Waits(q) => Waits(r))  BY <1>1, <1>2, <1>b DEF Transmits, HasSkb, Waits
<1>5. /\ (i = d.curS => /\ r.st = "REM_HALF_CLOSED" /\ r.xs \in {"cont", "trlc"}
                        /\ ToSet(d.s[i].post) \subseteq ToSet(r.post))
      /\ (d.s[i].st = "IDLE" => r.st = "IDLE")
      /\ (r.st \in Live => d.s[i].st \in Live /\ r.wnd = d.s[i].wnd)
  BY <1>1, <1>2, StreamsNat DEF CurInv, OutInv, q
<1>6. \A k \in DOMAIN o : o[k].ty = "resp" /\ o[k].i = i /\ i \in d.tree => Waits(r)
  BY <1>1, <1>4 DEF OutInv, q
<1>7. /\ Core(e, w, o) /\ e \in ConnType /\ Fixed(d, e) /\ e.res = d.res /\ e.curS = d.curS
  <2> DEFINE g == [d EXCEPT !.s[i] = r]
  <2>1. Core(g, w, o)  BY <1>1, <1>2, <1>4, <1>5, <1>6, PutCore
  <2>2. g \in ConnType /\ Fixed(d, g) /\ g.res = d.res /\ g.curS = d.curS
    BY <1>1, <1>2, PutStream
  <2>3. e = g  BY <1>e
  <2> HIDE DEF g, e
  <2> QED  BY <2>1, <2>2, <2>3
<1> HIDE DEF e
<1>8. e.up /\ e.has  BY <1>1, <1>7 DEF Fixed
<1>9. Good(EndPush(e), w, o) /\ EndPush(e).curS = e.curS /\ EndPush(e).res = e.res
  BY <1>1, <1>7, <1>8, EndPushGood
<1>10. Safe(EndPush(e), w, o, Idle)
  BY <1>1, <1>7, <1>s, <1>9, IdleType, GoodSafe
<1> QED  BY <1>10 DEF e, d, w

\* A frame is made, and the push goes on with this stream, with another one or
\* ends.
Closing(d) == [EndPush(d) EXCEPT !.res = "OK"]
Going(d) == [d EXCEPT !.res = "OK"]
PushOn(k, l) == [on |-> TRUE, cur |-> k, left |-> l]

\* After a frame the push ends by closing the connection, or goes on with the
\* same stream or with another one.
LEMMA FrameMade ==
    ASSUME NEW x, NEW o, NEW i \in Streams, Ready(x, o, i), FrameLen(x, i) > 0,
           NEW y, y = InsertFrame(x, i, FrameLen(x, i))
    PROVE  /\ Safe(Closing(y.d), Observe(y.w, Closing(y.d)), o, Idle)
           /\ y.d.up => \A k \in {0, i} : (k = i => y.d.s[i].xs # "no") =>
                 Safe(Going(y.d), Observe(y.w, Going(y.d)), o, PushOn(k, y.left))
           /\ x.d.s[i].xs # "no"
<1>1. /\ x \in [d : ConnType, w : WireType, left : Nat] /\ Transmits(x.d.s[i]) /\ WireOK(x.w)
      /\ o \in Seq(OutType) /\ x.w \in WireType
  BY DEF Ready, Typed, Core
<1>2. Limits(x, i, FrameLen(x, i))  BY <1>1, FrameLenLimits
<1>3. x.d.s[i].xs # "no"  BY <1>2 DEF Limits
<1>4. CASE Sent(y, o, i)
  <2>1. /\ y.d \in ConnType /\ y.w \in WireType /\ y.left \in Nat /\ WireOK(y.w) /\ y.d.up
        /\ Core(y.d, y.w, o) /\ y.d.has /\ (y.left > 0 => y.d.wq = <<>>)
        /\ (y.d.s[i].xs # "no" => i \in y.d.tree /\ ~y.d.s[i].blk)
    BY <1>4 DEF Sent, Typed
  <2>2. Safe(Closing(y.d), Observe(y.w, Closing(y.d)), o, Idle)
    <3> DEFINE e == Closing(y.d)
    <3>1. e = [EndPush(y.d) EXCEPT !.res = "OK"]  BY DEF Closing
    <3> HIDE DEF e
    <3>2. Safe(e, Observe(y.w, e), o, Idle)  BY <1>1, <2>1, <3>1, PushEnds
    <3> QED  BY <3>2 DEF e
  <2>3. ASSUME NEW k \in {0, i}, k = i => y.d.s[i].xs # "no"
        PROVE  Safe(Going(y.d), Observe(y.w, Going(y.d)), o, PushOn(k, y.left))
    <3> DEFINE e == Going(y.d)
               p == PushOn(k, y.left)
    <3>1. e = [y.d EXCEPT !.res = "OK"] /\ p = [on |-> TRUE, cur |-> k, left |-> y.left]
      BY DEF Going, PushOn
    <3>2. k \in Streams \cup {0} /\ (k # 0 => k \in y.d.tree /\ ~y.d.s[k].blk)
      BY <2>1, <2>3
    <3> HIDE DEF e, p
    <3>3. Safe(e, Observe(y.w, e), o, p)  BY <1>1, <2>1, <3>1, <3>2, PushGoesOn
    <3> QED  BY <3>3 DEF e, p
  <2> QED  BY <1>3, <2>2, <2>3
<1>5. CASE \E k : y = [x EXCEPT !.d = Term(k)]
  <2>1. PICK k : y = [x EXCEPT !.d = Term(k)]  BY <1>5
  <2>2. y.d = Term(k) /\ y.w = x.w  BY <1>1, <2>1
  <2>3. ~Term(k).up /\ Term(k) \in ConnType  BY TermFacts
  <2>4. Closing(y.d) = Term(k)  BY <2>2, EndPushClosed DEF Closing
  <2> DEFINE v == Observe(x.w, Term(k))
  <2>5. v \in WireType /\ WireOK(v)  BY <1>1, <2>3, ObserveType
  <2> HIDE DEF v
  <2>6. Safe(Term(k), v, o, Idle)  BY <1>1, <2>5, IdleType, ClosedSafe
  <2>7. ~y.d.up  BY <2>2, <2>3
  <2> QED  BY <1>3, <2>2, <2>4, <2>6, <2>7 DEF v
<1> QED  BY <1>2, <1>4, <1>5, InsertSent

----------------------------------------------------------------------------
(* The actions.                                                             *)

SafeNow == Safe(c, wire, out, push) /\ recv \in Nat

\* The step of MakeFrame for the stream i.
Makes(x, i) ==
    LET n == FrameLen(x, i)
        y == InsertFrame(x, i, n)
        done == c.s[i].xs # "no" /\ y.d.s[i].xs = "no"
        on == y.d.up /\ (done => ActiveStreams(y.d) # {})
    IN IF n > 0
       THEN /\ c' = [IF on THEN y.d ELSE EndPush(y.d) EXCEPT !.res = "OK"]
            /\ wire' = Observe(y.w, c')
            /\ push' = IF on THEN [on |-> TRUE, cur |-> IF done THEN 0 ELSE i, left |-> y.left]
                       ELSE Idle
       ELSE /\ c' = EndPush([x.d EXCEPT !.s[i].blk = Blocks(x, i)])
            /\ wire' = wire
            /\ push' = Idle

\* One round of the loop of tfw_h2_make_frames().
LEMMA MakeFrameKeeps ==
    ASSUME SafeNow, MakeFrame
    PROVE  SafeNow'
<1>1. PICK i \in Chosen :
        /\ c.up /\ push.on
        /\ Makes([d |-> [c EXCEPT !.s[i].resp = FALSE], w |-> wire, left |-> push.left], i)
        /\ UNCHANGED <<out, recv>>
  BY DEF MakeFrame, Makes
<1> DEFINE x == [d |-> Released(c, i), w |-> wire, left |-> push.left]
           y == InsertFrame(x, i, FrameLen(x, i))
           done == c.s[i].xs # "no" /\ y.d.s[i].xs = "no"
           on == y.d.up /\ (done => ActiveStreams(y.d) # {})
<1>2. Safe(c, wire, out, push) /\ recv \in Nat /\ c \in ConnType /\ c.up /\ push.on
  BY <1>1 DEF SafeNow, Safe
<1>3. i \in Streams /\ i \in c.tree /\ ~c.s[i].blk  BY <1>2, ChosenStream
<1>4. [c EXCEPT !.s[i].resp = FALSE] = Released(c, i)  BY <1>2, <1>3, ReleasedIs
<1>5. /\ FrameLen(x, i) > 0 =>
           /\ c' = IF on THEN Going(y.d) ELSE Closing(y.d)
           /\ wire' = Observe(y.w, c')
           /\ push' = IF on THEN PushOn(IF done THEN 0 ELSE i, y.left) ELSE Idle
      /\ ~(FrameLen(x, i) > 0) =>
           /\ c' = EndPush([x.d EXCEPT !.s[i].blk = Blocks(x, i)])
           /\ wire' = wire /\ push' = Idle
      /\ out' = out /\ recv' = recv
  <2>1. Makes(x, i) /\ out' = out /\ recv' = recv  BY <1>1, <1>4
  <2> HIDE DEF x
  <2>2. FrameLen(x, i) > 0 =>
          /\ c' = [IF on THEN y.d ELSE EndPush(y.d) EXCEPT !.res = "OK"]
          /\ wire' = Observe(y.w, c')
          /\ push' = IF on THEN [on |-> TRUE, cur |-> IF done THEN 0 ELSE i, left |-> y.left]
                     ELSE Idle
    BY <2>1 DEF Makes
  <2>3. ~(FrameLen(x, i) > 0) =>
           /\ c' = EndPush([x.d EXCEPT !.s[i].blk = Blocks(x, i)])
           /\ wire' = wire /\ push' = Idle
    BY <2>1 DEF Makes
  <2> HIDE DEF y, done, on
  <2>4. FrameLen(x, i) > 0 => c' = IF on THEN Going(y.d) ELSE Closing(y.d)
    BY <2>2 DEF Going, Closing
  <2>5. FrameLen(x, i) > 0 => push' = IF on THEN PushOn(IF done THEN 0 ELSE i, y.left) ELSE Idle
    BY <2>2 DEF PushOn
  <2> QED  BY <2>1, <2>2, <2>3, <2>4, <2>5
<1>x. x = [d |-> Released(c, i), w |-> wire, left |-> push.left]  OBVIOUS
<1> HIDE DEF x
<1>6. Ready(x, out, i) /\ x.d.s[i].xs = c.s[i].xs /\ x.d.res = "OK"
  BY <1>2, <1>3, <1>x, ReleasedReady
<1>7. CASE FrameLen(x, i) > 0
  <2>y. y = InsertFrame(x, i, FrameLen(x, i))  OBVIOUS
  <2>5. /\ c' = IF on THEN Going(y.d) ELSE Closing(y.d)
        /\ wire' = Observe(y.w, c')
        /\ push' = IF on THEN PushOn(IF done THEN 0 ELSE i, y.left) ELSE Idle
    BY <1>5, <1>7
  <2> HIDE DEF y
  <2>1. /\ Safe(Closing(y.d), Observe(y.w, Closing(y.d)), out, Idle)
        /\ y.d.up => \A k \in {0, i} : (k = i => y.d.s[i].xs # "no") =>
              Safe(Going(y.d), Observe(y.w, Going(y.d)), out, PushOn(k, y.left))
        /\ x.d.s[i].xs # "no"
    BY <1>3, <1>6, <1>7, <2>y, FrameMade
  <2>2. CASE ~on
    <3>1. c' = Closing(y.d) /\ push' = Idle  BY <2>2, <2>5
    <3> HIDE DEF on, done
    <3> QED  BY <1>2, <1>5, <2>1, <2>5, <3>1 DEF SafeNow
  <2>3. CASE on
    <3> DEFINE k == IF done THEN 0 ELSE i
    <3>1. c' = Going(y.d) /\ push' = PushOn(k, y.left)  BY <2>3, <2>5
    <3>2. k \in {0, i} /\ (k = i => y.d.s[i].xs # "no")
      <4>1. i # 0  BY <1>3, StreamsNat
      <4>2. CASE done  BY <4>1, <4>2
      <4>3. CASE ~done  BY <4>3, <1>6, <2>1
      <4> QED  BY <4>2, <4>3
    <3>3. y.d.up  BY <2>3
    <3> HIDE DEF on, done, k
    <3>4. Safe(Going(y.d), Observe(y.w, Going(y.d)), out, PushOn(k, y.left))  BY <2>1, <3>2, <3>3
    <3> QED  BY <1>2, <1>5, <2>5, <3>1, <3>4 DEF SafeNow
  <2> QED  BY <2>2, <2>3
<1>8. CASE ~(FrameLen(x, i) > 0)
  <2> DEFINE b == Blocks(x, i)
  <2>1. b \in BOOLEAN /\ (b => x.d.s[i].xs = "data")  BY DEF Blocks
  <2>2. c' = EndPush([x.d EXCEPT !.s[i].blk = b]) /\ wire' = wire /\ push' = Idle
    BY <1>5, <1>8
  <2> HIDE DEF b
  <2>3. x.d \in ConnType  BY <1>6 DEF Ready, Typed
  <2>4. [x.d EXCEPT !.s[i].blk = b] = Marked(x.d, i, b)  BY <1>3, <2>3, ReleasedIs
  <2>5. Safe(EndPush(Marked(x.d, i, b)), x.w, out, Idle)  BY <1>3, <1>6, <2>1, FrameStops
  <2>6. x.w = wire  BY <1>x
  <2> QED  BY <1>2, <1>5, <2>2, <2>4, <2>5, <2>6 DEF SafeNow
<1> QED  BY <1>7, <1>8

\* A handler of the receive path has changed the connection.
LEMMA ReceiveKeeps ==
    ASSUME SafeNow, Unlocked, NEW x, NEW v \in WireType, WireOK(v), Handled(x, v, out), Receive(x),
           wire' = Observe(v, c')
    PROVE  SafeNow'
<1>1. Safe(c, wire, out, push) /\ recv \in Nat /\ ~push.on /\ push \in PushType
      /\ out \in Seq(OutType)
  BY DEF SafeNow, Safe, Unlocked
<1>2. /\ c' = [x.d EXCEPT !.res = "OK"] /\ out' = IF x.d.up THEN out \o x.m ELSE <<>>
      /\ push' = push /\ recv' \in Nat
  BY <1>1 DEF Receive
<1>3. Safe(c', Observe(v, c'), out', push)  BY <1>1, <1>2, HandledSafe
<1> QED  BY <1>2, <1>3 DEF SafeNow

\* What a handler of the receive path begins with.
LEMMA BeginRecv ==
    ASSUME SafeNow, Unlocked
    PROVE  Good(c, wire, out) /\ wire \in WireType /\ WireOK(wire) /\ c.up /\ ~push.on
           /\ Safe(c, wire, out, push) /\ recv \in Nat
<1>1. c.up /\ ~push.on /\ Safe(c, wire, out, push) /\ recv \in Nat  BY DEF SafeNow, Unlocked
<1>2. Good(c, wire, out)  BY <1>1, SafeGood
<1> QED  BY <1>1, <1>2 DEF Safe

\* A stream that begins changes only what the client knows of that stream.
LEMMA BeginKeeps ==
    ASSUME Good(c, wire, out), WireOK(wire), NEW i \in Streams
    PROVE  LET v == Begin(wire, c, i)
           IN /\ Good(c, v, out) /\ v \in WireType /\ WireOK(v)
              /\ ~NotClosed(c, i) => i \notin v.stale /\ v.view[i] = v.cinit
<1> DEFINE v == Begin(wire, c, i)
<1>1. /\ Good(c, v, out) /\ v.over = wire.over /\ v.conn = wire.conn
      /\ v.mixed = wire.mixed /\ v.cut = wire.cut
      /\ ~NotClosed(c, i) => i \notin v.stale /\ v.view[i] = v.cinit
  BY BeginGood
<1> HIDE DEF v
<1>2. v \in WireType /\ WireOK(v)  BY <1>1 DEF Good, WireOK
<1>3. /\ Good(c, v, out) /\ v \in WireType /\ WireOK(v)
      /\ ~NotClosed(c, i) => i \notin v.stale /\ v.view[i] = v.cinit
  BY <1>1, <1>2
<1> QED  BY <1>3 DEF v

\* HEADERS, CONTINUATION, DATA, RST_STREAM and PRIORITY of the client.
LEMMA RecvKeeps ==
    ASSUME SafeNow,
           RecvHeaders \/ RecvPayload \/ RecvRst \/ RecvPriority
    PROVE  SafeNow'
<1>0. Unlocked  BY DEF RecvHeaders, RecvPayload, RecvRst, RecvPriority, CanRecv
<1>1. Good(c, wire, out) /\ wire \in WireType /\ WireOK(wire)  BY <1>0, BeginRecv
<1>2. CASE RecvHeaders
  <2>1. PICK i \in Streams, f \in SUBSET {"EH", "ES"}, self \in BOOLEAN :
          /\ NotClosed(c, i) \/ i <= c.last \/ NoTrace(i)
          /\ Receive(Headers(c, i, f, self)) /\ wire' = Observe(Begin(wire, c, i), c')
    BY <1>2 DEF RecvHeaders
  <2> DEFINE v == Begin(wire, c, i)
  <2>2. /\ Good(c, v, out) /\ v \in WireType /\ WireOK(v)
        /\ ~NotClosed(c, i) => i \notin v.stale /\ v.view[i] = v.cinit
    BY <1>1, BeginKeeps
  <2>3. NotClosed(c, i) \/ i <= c.last \/ NoResp(out, i)  BY <2>1 DEF NoTrace, NoResp
  <2> HIDE DEF v
  <2>4. Handled(Headers(c, i, f, self), v, out)  BY <2>2, <2>3, HeadersHandled
  <2>5. wire' = Observe(v, c')  BY <2>1 DEF v
  <2> QED  BY <1>0, <2>1, <2>2, <2>4, <2>5, ReceiveKeeps
<1>3. CASE RecvPayload
  <2>1. PICK i \in Streams, ty \in {"CONT", "DATA"}, f \in SUBSET {"EH", "ES", "EMPTY"} :
          Receive(Payload(c, i, ty, f)) /\ wire' = Observe(wire, c')
    BY <1>3 DEF RecvPayload
  <2>2. Handled(Payload(c, i, ty, f), wire, out)  BY <1>1, PayloadHandled
  <2> QED  BY <1>0, <1>1, <2>1, <2>2, ReceiveKeeps
<1>4. CASE RecvRst
  <2>1. PICK i \in Streams : Receive(Rst(c, i)) /\ wire' = Observe(wire, c')
    BY <1>4 DEF RecvRst
  <2>2. Handled(Rst(c, i), wire, out)  BY <1>1, RstHandled
  <2> QED  BY <1>0, <1>1, <2>1, <2>2, ReceiveKeeps
<1>5. CASE RecvPriority
  <2>1. PICK i \in Streams, self \in BOOLEAN :
          /\ i \in c.tree \/ i <= c.last \/ NoTrace(i)
          /\ Receive(Priority(c, i, self)) /\ wire' = Observe(Begin(wire, c, i), c')
    BY <1>5 DEF RecvPriority
  <2> DEFINE v == Begin(wire, c, i)
  <2>2. /\ Good(c, v, out) /\ v \in WireType /\ WireOK(v)
        /\ ~NotClosed(c, i) => i \notin v.stale /\ v.view[i] = v.cinit
    BY <1>1, BeginKeeps
  <2>3. i \in c.tree \/ i <= c.last
        \/ (NoResp(out, i) /\ \A k \in DOMAIN c.closed : c.closed[k] # i)
    <3>1. c.closed \in Seq(Streams)  BY <1>1 DEF Good, ConnType
    <3> QED  BY <2>1, <3>1 DEF NoTrace, NoResp, Contains
  <2>4. i \notin c.tree => i \notin v.stale /\ v.view[i] = v.cinit
    <3> HIDE DEF v
    <3> QED  BY <2>2 DEF NotClosed
  <2> HIDE DEF v
  <2>5. Handled(Priority(c, i, self), v, out)  BY <2>2, <2>3, <2>4, PriorityHandled
  <2>6. wire' = Observe(v, c')  BY <2>1 DEF v
  <2> QED  BY <1>0, <2>1, <2>2, <2>5, <2>6, ReceiveKeeps
<1> QED  BY <1>2, <1>3, <1>4, <1>5

\* WINDOW_UPDATE of the client: both sides add the same increment.
LEMMA RecvWndUpdateKeeps ==
    ASSUME SafeNow, RecvWndUpdate
    PROVE  SafeNow'
<1>0. Unlocked  BY DEF RecvWndUpdate, CanRecv
<1>1. Good(c, wire, out) /\ wire \in WireType /\ WireOK(wire)  BY <1>0, BeginRecv
<1>2. PICK i \in Streams \cup {0}, n \in WndIncrs :
        /\ Receive(WndUpdate(c, i, n))
        /\ wire' = Observe(IF i = 0 THEN [wire EXCEPT !.conn = @ + n]
                           ELSE [wire EXCEPT !.view[i] = @ + n], c')
  BY DEF RecvWndUpdate
<1>3. n \in Nat /\ wire.conn \in Int /\ wire.view \in [Streams -> Int]
  BY <1>1, H2Bounds DEF WireType
<1>4. CASE i = 0
  <2> DEFINE v == [wire EXCEPT !.conn = @ + n]
  <2>1. wire' = Observe(v, c') /\ Receive(WndUpdate(c, 0, n))  BY <1>2, <1>4
  <2>2. Handled(WndUpdate(c, 0, n), v, out)  BY <1>1, ConnWndHandled
  <2>3. wire.conn + n \in Int  BY <1>3
  <2>4. /\ v \in WireType /\ v.conn = wire.conn + n /\ v.over = wire.over /\ v.mixed = wire.mixed
        /\ v.cut = wire.cut
    BY <1>1, <2>3 DEF WireType
  <2> HIDE DEF v
  <2>5. WireOK(v)  BY <1>1, <1>3, <2>4 DEF WireOK
  <2> QED  BY <1>0, <2>1, <2>2, <2>4, <2>5, ReceiveKeeps
<1>5. CASE i # 0
  <2> DEFINE v == [wire EXCEPT !.view[i] = @ + n]
  <2>i. i \in Streams  BY <1>5
  <2>1. wire' = Observe(v, c') /\ Receive(WndUpdate(c, i, n))  BY <1>2, <1>5
  <2>2. Handled(WndUpdate(c, i, n), v, out)  BY <1>1, <2>i, StreamWndHandled
  <2> DEFINE f == [wire.view EXCEPT ![i] = @ + n]
  <2>3. f \in [Streams -> Int]
    <3>1. wire.view[i] + n \in Int  BY <1>3, <2>i
    <3> QED  BY <1>3, <2>i, <3>1
  <2>f. v = [wire EXCEPT !.view = f]  OBVIOUS
  <2> HIDE DEF f, v
  <2>4. /\ v \in WireType /\ v.conn = wire.conn /\ v.over = wire.over /\ v.mixed = wire.mixed
        /\ v.cut = wire.cut
    BY <1>1, <2>3, <2>f DEF WireType
  <2>5. WireOK(v)  BY <1>1, <2>4 DEF WireOK
  <2> QED  BY <1>0, <2>1, <2>2, <2>4, <2>5, ReceiveKeeps
<1> QED  BY <1>4, <1>5

\* SETTINGS and PING of the client queue their acknowledgements.
LEMMA RecvCtlKeeps ==
    ASSUME SafeNow, RecvSettings \/ RecvPing
    PROVE  SafeNow'
<1>0. Unlocked  BY DEF RecvSettings, RecvPing, CanRecv
<1>1. c.up /\ ~push.on /\ Safe(c, wire, out, push) /\ recv \in Nat /\ c \in ConnType
  BY <1>0, BeginRecv DEF Good
<1>2. CASE RecvSettings
  <2>1. PICK n \in WndSettings :
          /\ Receive([d |-> [c EXCEPT !.new = n, !.need = TRUE], m |-> <<Msg("ack", 0)>>])
          /\ wire' = [wire EXCEPT !.sets = Append(@, n)]
    BY <1>2 DEF RecvSettings
  <2> DEFINE g == [c EXCEPT !.new = n, !.need = TRUE]
             m == <<Msg("ack", 0)>>
  <2>2. g.up  BY <1>1 DEF ConnType
  <2> HIDE DEF m
  <2>3. /\ c' = [g EXCEPT !.res = "OK"] /\ out' = out \o m /\ push' = push /\ recv' \in Nat
    <3> HIDE DEF g
    <3>1. Receive([d |-> g, m |-> m])  BY <2>1 DEF g, m
    <3> QED  BY <1>1, <2>2, <3>1 DEF Receive
  <2>4. Safe(c', wire', out \o m, push)  BY <1>1, <2>1, <2>3, SettingsSafe DEF m
  <2> QED  BY <2>3, <2>4 DEF SafeNow
<1>3. CASE RecvPing
  <2> DEFINE m == <<Msg("ctl", 0)>>
  <2>1. Receive([d |-> c, m |-> m]) /\ wire' = wire  BY <1>3 DEF RecvPing
  <2> HIDE DEF m
  <2>3. /\ c' = [c EXCEPT !.res = "OK"] /\ out' = out \o m /\ push' = push /\ recv' \in Nat
    BY <1>1, <2>1 DEF Receive
  <2>4. Safe(c', wire, out \o m, push)  BY <1>1, <2>3, PingSafe DEF m
  <2> QED  BY <2>1, <2>3, <2>4 DEF SafeNow
<1> QED  BY <1>2, <1>3

\* A response is ready, a request is closed, the work queue sends a message,
\* or a frame cannot be allocated.
LEMMA OtherKeeps ==
    ASSUME SafeNow, RespInit \/ CloseReq \/ DoSend \/ MakeFrameFails
    PROVE  SafeNow'
<1>1. Safe(c, wire, out, push) /\ recv \in Nat /\ c \in ConnType  BY DEF SafeNow, Safe
<1>2. CASE RespInit
  <2>1. PICK i \in c.tree, l \in Responses :
          /\ c.up /\ c.s[i].req = "full"
          /\ c' = [c EXCEPT !.s[i] = [@ EXCEPT !.req = "no", !.xs = "hdrs",
                      !.h = 0, !.b = 0, !.t = 0, !.resp = FALSE, !.blk = FALSE]]
          /\ out' = Append(out, [ty |-> "resp", i |-> i, len |-> l])
          /\ UNCHANGED <<push, recv, wire>>
    BY <1>2 DEF RespInit
  <2>2. Safe(c', wire, Append(out, [ty |-> "resp", i |-> i, len |-> l]), push)
    BY <1>1, <2>1, RespInitSafe
  <2> QED  BY <1>1, <2>1, <2>2 DEF SafeNow
<1>3. CASE CloseReq
  <2>1. PICK i \in c.tree :
          /\ c.up /\ c.s[i].req = "full"
          /\ c' = AddClosed(SetState([c EXCEPT !.s[i].req = "no"], i, "CLOSED"), i)
          /\ UNCHANGED <<out, push, recv, wire>>
    BY <1>3 DEF CloseReq
  <2>2. Safe(c', wire, out, push)  BY <1>1, <2>1, CloseReqSafe
  <2> QED  BY <1>1, <2>1, <2>2 DEF SafeNow
<1>4. CASE DoSend
  <2>1. /\ c.up /\ ~push.on /\ out # <<>> /\ out' = Tail(out) /\ c' = Deliver(c, Head(out))
        /\ UNCHANGED <<push, recv, wire>>
    BY <1>4 DEF DoSend, Unlocked
  <2>2. Safe(Deliver(c, Head(out)), wire, Tail(out), push)  BY <1>1, <2>1, DoSendSafe
  <2> QED  BY <1>1, <2>1, <2>2 DEF SafeNow
<1>5. CASE MakeFrameFails
  <2>1. c' = Term(c) /\ push' = Idle /\ UNCHANGED <<out, recv, wire>>  BY <1>5 DEF MakeFrameFails
  <2>2. wire \in WireType /\ WireOK(wire) /\ out \in Seq(OutType)  BY <1>1 DEF Safe
  <2>3. Safe(Term(c), wire, out, Idle)  BY <2>2, IdleType, ClosedSafe
  <2> QED  BY <1>1, <2>1, <2>3 DEF SafeNow
<1> QED  BY <1>2, <1>3, <1>4, <1>5

\* A push begins with the write queue, and ends there if no stream may send.
LEMMA PushKeeps ==
    ASSUME SafeNow, NEW n \in Bursts, Push(n)
    PROVE  SafeNow'
<1> DEFINE x == EntailList([d |-> c, w |-> wire, left |-> n], c.wq)
           go == x.left > 0 /\ ActiveStreams(x.d) # {}
<1>1. Safe(c, wire, out, push) /\ recv \in Nat /\ c.up /\ ~push.on /\ c.has
  BY DEF SafeNow, Push, Unlocked
<1>2. /\ c' = IF go THEN x.d ELSE EndPush(x.d)
      /\ wire' = Observe(x.w, c')
      /\ push' = IF go THEN [on |-> TRUE, cur |-> 0, left |-> x.left] ELSE Idle
      /\ UNCHANGED <<out, recv>>
  BY DEF Push
<1>3. x = EntailList([d |-> c, w |-> wire, left |-> n], c.wq)  OBVIOUS
<1> HIDE DEF x
<1>4. /\ Safe(x.d, Observe(x.w, x.d), out, [on |-> TRUE, cur |-> 0, left |-> x.left])
      /\ Safe(EndPush(x.d), Observe(x.w, EndPush(x.d)), out, Idle)
  BY <1>1, <1>3, PushSafe
<1>5. CASE go
  <2>1. c' = x.d /\ push' = [on |-> TRUE, cur |-> 0, left |-> x.left]  BY <1>2, <1>5
  <2> QED  BY <1>1, <1>2, <1>4, <2>1 DEF SafeNow
<1>6. CASE ~go
  <2>1. c' = EndPush(x.d) /\ push' = Idle  BY <1>2, <1>6
  <2> QED  BY <1>1, <1>2, <1>4, <2>1 DEF SafeNow
<1> QED  BY <1>5, <1>6

\* A new connection.
LEMMA InitSafe == Init => SafeNow
<1> SUFFICES ASSUME Init PROVE SafeNow
  OBVIOUS
<1>1. c = NewConn /\ out = <<>> /\ push = Idle /\ recv = 0 /\ wire = WireInit  BY DEF Init
<1>2. NewStream(0) \in StreamType /\ Transmits(NewStream(0)) /\ NewStream(0).req = "no"
      /\ NewStream(0).xs = "no"
  BY NewStreamFacts
<1>3. DefWnd \in Nat  BY H2Bounds
<1>4. /\ c \in ConnType /\ c.up /\ c.res = "OK" /\ c.tree = {} /\ c.idle = <<>> /\ c.closed = <<>>
      /\ c.curS = 0 /\ c.wq = <<>> /\ ~c.need /\ c.wnd = DefWnd /\ c.init = DefWnd /\ ~c.has
      /\ \A i \in Streams : c.s[i] = NewStream(0)
  <2> DEFINE n == NewStream(0)
             s == [i \in Streams |-> n]
  <2>n. n \in StreamType  BY <1>2
  <2> HIDE DEF n
  <2>1. s \in [Streams -> StreamType] /\ \A i \in Streams : s[i] = n  BY <2>n
  <2> HIDE DEF s
  <2>2. c = [s |-> s, tree |-> {},
            closed |-> <<>>, idle |-> <<>>, last |-> 0, curS |-> 0, curR |-> 0,
            wnd |-> DefWnd, init |-> DefWnd, new |-> DefWnd, need |-> FALSE,
            has |-> FALSE, wq |-> <<>>, up |-> TRUE, res |-> "OK"]
    BY <1>1 DEF NewConn, s, n
  <2>3. <<>> \in Seq(Streams) /\ <<>> \in Seq(CtlType)  OBVIOUS
  <2>4. c \in ConnType  BY <1>3, <2>1, <2>2, <2>3 DEF ConnType
  <2>5. /\ c.up /\ c.res = "OK" /\ c.tree = {} /\ c.idle = <<>> /\ c.closed = <<>>
        /\ c.curS = 0 /\ c.wq = <<>> /\ ~c.need /\ c.wnd = DefWnd /\ c.init = DefWnd /\ ~c.has
        /\ c.s = s
    BY <2>2
  <2> QED  BY <2>1, <2>4, <2>5 DEF n
<1>5. /\ wire \in WireType /\ ~wire.over /\ wire.conn = DefWnd /\ ~wire.mixed /\ ~wire.cut
      /\ wire.blk = 0 /\ wire.cinit = DefWnd /\ \A i \in Streams : wire.view[i] = DefWnd
  <2> DEFINE f == [i \in Streams |-> DefWnd]
  <2>1. f \in [Streams -> Int] /\ \A i \in Streams : f[i] = DefWnd  BY <1>3
  <2> HIDE DEF f
  <2>2. wire = [blk |-> 0, cut |-> FALSE, mixed |-> FALSE, conn |-> DefWnd,
                view |-> f, sets |-> <<>>, cinit |-> DefWnd,
                over |-> FALSE, early |-> FALSE, stale |-> {}]
    BY <1>1 DEF WireInit, f
  <2>3. <<>> \in Seq(Nat)  OBVIOUS
  <2> QED  BY <1>3, <2>1, <2>2, <2>3 DEF WireType
<1>6. out \in Seq(OutType) /\ DOMAIN out = {} /\ DOMAIN c.idle = {} /\ DOMAIN c.closed = {}
  BY <1>1, <1>4
<1>7. push \in PushType /\ ~push.on /\ recv \in Nat  BY <1>1, IdleType
<1>8. \A i \in Streams : Transmits(c.s[i])  BY <1>2, <1>4
<1>9. CurInv(c)  BY <1>4 DEF CurInv
<1>10. IdleInv(c)  BY <1>6 DEF IdleInv
<1>11. OutInv(c, out)  BY <1>2, <1>4, <1>6 DEF OutInv
<1>12. WinInv(c, wire)  BY <1>3, <1>4, <1>5 DEF WinInv
<1>13. BlockInv(c, wire) /\ AckInv(c, wire, out)  BY <1>4 DEF BlockInv, AckInv
<1>14. Core(c, wire, out)  BY <1>8, <1>9, <1>10, <1>11, <1>12, <1>13 DEF Core
<1>15. PushInv(c, push)  BY <1>4, <1>7 DEF PushInv, ReadyToSend, ActiveStreams
<1>16. WireOK(wire)  BY <1>3, <1>5 DEF WireOK
<1> QED  BY <1>4, <1>5, <1>6, <1>7, <1>14, <1>15, <1>16 DEF SafeNow, Safe

\* A step that changes nothing.
LEMMA StutterKeeps ==
    ASSUME SafeNow, UNCHANGED vars
    PROVE  SafeNow'
BY DEF SafeNow, vars

\* The predicate of a state is the invariant, after a step too.
LEMMA SafeIsNext == SafeNow' => IInv'
<1>1. SafeNow => IInv  BY SafeIs DEF SafeNow
<1> QED  BY <1>1, PTL

\* The inductive invariant holds: every handler of received frames, every CPU
\* that finishes a request, every send of the work queue and every frame of a
\* push keeps the streams, the queues, the windows and the header blocks
\* consistent.  An identifier that is begun again while something is left of
\* the stream that had it before is outside of the model (NoTrace).
THEOREM Invariance ==
    Spec => []IInv
<1>1. Init => IInv  BY InitSafe, SafeIs DEF SafeNow
<1>2. IInv /\ [Next]_vars => IInv'
  <2> SUFFICES ASSUME IInv, [Next]_vars PROVE IInv'
    OBVIOUS
  <2>0. SafeNow  BY SafeIs DEF SafeNow
  <2>1. CASE RecvHeaders \/ RecvPayload \/ RecvRst \/ RecvPriority  BY <2>0, <2>1, RecvKeeps, SafeIsNext
  <2>2. CASE RecvWndUpdate  BY <2>0, <2>2, RecvWndUpdateKeeps, SafeIsNext
  <2>3. CASE RecvSettings \/ RecvPing  BY <2>0, <2>3, RecvCtlKeeps, SafeIsNext
  <2>4. CASE RespInit \/ CloseReq \/ DoSend \/ MakeFrameFails  BY <2>0, <2>4, OtherKeeps, SafeIsNext
  <2>5. CASE \E n \in Bursts : Push(n)  BY <2>0, <2>5, PushKeeps, SafeIsNext
  <2>6. CASE MakeFrame  BY <2>0, <2>6, MakeFrameKeeps, SafeIsNext
  <2>7. CASE UNCHANGED vars  BY <2>0, <2>7, StutterKeeps, SafeIsNext
  <2> QED  BY <2>1, <2>2, <2>3, <2>4, <2>5, <2>6, <2>7 DEF Next
<1> QED  BY <1>1, <1>2, PTL DEF Spec

\* No wakeup is lost: whenever nobody pushes, a frame in the write queue or a
\* stream that its window and the one of the connection let send has
\* SOCK_TEMPESTA_HAS_DATA set, so the kernel comes back for it.
THEOREM WakeupsKept ==
    Spec => []NoLostWakeup
<1>1. IInv => NoLostWakeup  BY DEF IInv, PushInv, NoLostWakeup, Unlocked
<1> QED  BY <1>1, Invariance, PTL

\* Header blocks are contiguous on the wire of every connection on which no
\* stream was freed in the middle of its block.  After such a block, which is
\* never completed, nothing is claimed.
THEOREM HeaderBlocksContiguous ==
    Spec => []BlocksContiguous
<1>1. IInv => BlocksContiguous  BY DEF IInv
<1> QED  BY <1>1, Invariance, PTL

\* DATA never exceeds the window of the connection as the client counts it, nor
\* the one of a stream, whatever updates the client sends, but for streams that
\* were idle when settings were applied and for the time when the ACK the client
\* has got is not the one for the settings that the server has applied.
THEOREM FlowControlKept ==
    Spec => []WindowsKept
<1>1. IInv => WindowsKept  BY DEF IInv
<1> QED  BY <1>1, Invariance, PTL

\* The BUG_ON() of tfw_h2_make_frames() does not fire: the stream in the middle
\* of a header block has something to send and is not blocked.
THEOREM CurrentStreamActive ==
    Spec => []CurSendActive
<1>1. IInv => CurSendActive
  <2> SUFFICES ASSUME IInv, c.curS # 0 PROVE Active(c.s[c.curS])
    BY DEF CurSendActive
  <2>1. c.up /\ Core(c, wire, out) /\ c \in ConnType  BY DEF IInv, TypeOK
  <2> DEFINE r == c.s[c.curS]
  <2>2. c.curS \in Streams /\ r \in StreamType /\ Transmits(r) /\ r.xs \in {"cont", "trlc"}
    BY <2>1 DEF Core, CurInv, ConnType
  <2>3. r.h \in Nat /\ r.b \in Nat /\ r.t \in Nat  BY <2>2 DEF StreamType
  <2> HIDE DEF r
  <2>4. ~r.blk /\ (r.h > 0 \/ r.t > 0)  BY <2>2 DEF Transmits
  <2>5. Active(r)  BY <2>3, <2>4 DEF Active, HasSkb
  <2> QED  BY <2>5 DEF r
<1> QED  BY <1>1, Invariance, PTL

\* Settings that are not applied yet have their acknowledgement queued, behind
\* a header block at worst, on every connection on which no header block was
\* given up; after one was, nothing is claimed.
THEOREM AckNotLost ==
    Spec => []AckOnItsWay
<1>1. IInv => AckOnItsWay
  <2> SUFFICES ASSUME IInv, c.need, ~wire.cut
               PROVE  Msg("ack", 0) \in ToSet(out) \cup ToSet(c.wq) \cup
                          (IF c.curS = 0 THEN {} ELSE ToSet(c.s[c.curS].post))
    BY DEF AckOnItsWay
  <2>1. c.up /\ AckInv(c, wire, out) /\ wire.blk = c.curS  BY DEF IInv, Core
  <2> QED  BY <2>1 DEF AckInv
<1> QED  BY <1>1, Invariance, PTL
=============================================================================
