---------------------------- MODULE ClientProofs ----------------------------
(***************************************************************************)
(* The accounting of clients for any sets of addresses, sockets and        *)
(* buffers and any size of the list: reference counters are exact and the  *)
(* pool of memory counters is whole when it is given back.                 *)
(***************************************************************************)
EXTENDS Client, FiniteSetTheorems, TLAPS

-----------------------------------------------------------------------------
(* Counting sockets and buffers. *)

\* The open sockets of a client can be counted.
LEMMA OpenFinite ==
    ASSUME NEW k, NEW r
    PROVE  /\ IsFiniteSet(Open(k, r)) /\ Cardinality(Open(k, r)) \in Nat
           /\ Cardinality(Open(k, r)) = 0 <=> Open(k, r) = {}
  <1>1. Open(k, r) \in SUBSET Socks  BY DEF Open
  <1>2. IsFiniteSet(Open(k, r))  BY <1>1, FiniteAssumption, FS_Subset
  <1> QED  BY <1>2, FS_CardinalityType, FS_EmptySet

\* One more socket of the client is open.
LEMMA OneMoreOpen ==
    ASSUME NEW k, NEW h, NEW r, NEW s \in Socks, k[s].st # "open",
           h[s].st = "open", h[s].rec = r, \A t \in Socks \ {s} : h[t] = k[t]
    PROVE  /\ Cardinality(Open(h, r)) = Cardinality(Open(k, r)) + 1
           /\ \A q : q # r => Open(h, q) = Open(k, q)
  <1>1. Open(h, r) = Open(k, r) \cup {s} /\ s \notin Open(k, r)  BY DEF Open
  <1>2. \A q : q # r => Open(h, q) = Open(k, q)  BY DEF Open
  <1>3. IsFiniteSet(Open(k, r))  BY OpenFinite
  <1> QED  BY <1>1, <1>2, <1>3, FS_AddElement, ZenonT(60)

\* One socket less is open.
LEMMA OneLessOpen ==
    ASSUME NEW k, NEW h, NEW r, NEW s \in Socks, k[s].st = "open", k[s].rec = r,
           h[s].st # "open", \A t \in Socks \ {s} : h[t] = k[t]
    PROVE  /\ Cardinality(Open(k, r)) = Cardinality(Open(h, r)) + 1
           /\ \A q : q # r => Open(h, q) = Open(k, q)
  <1>1. Open(h, r) = Open(k, r) \ {s} /\ s \in Open(k, r)  BY DEF Open
  <1>2. \A q : q # r => Open(h, q) = Open(k, q)  BY DEF Open
  <1>3. IsFiniteSet(Open(k, r)) /\ Cardinality(Open(k, r)) \in Nat  BY OpenFinite
  <1>4. Cardinality(Open(h, r)) = Cardinality(Open(k, r)) - 1  BY <1>1, <1>3, FS_RemoveElement, ZenonT(60)
  <1> QED  BY <1>2, <1>3, <1>4

\* A socket that was not open and is not open makes no difference.
LEMMA SameOpen ==
    ASSUME NEW k, NEW h, NEW s \in Socks, k[s].st # "open", h[s].st # "open",
           \A t \in Socks \ {s} : h[t] = k[t]
    PROVE  \A q : Open(h, q) = Open(k, q)
  BY DEF Open

\* The buffers charged to a counter can be counted.
LEMMA ChargedFinite ==
    ASSUME NEW u, NEW m
    PROVE  /\ IsFiniteSet(Charged(u, m)) /\ Cardinality(Charged(u, m)) \in Nat
           /\ Cardinality(Charged(u, m)) = 0 <=> Charged(u, m) = {}
  <1>1. Charged(u, m) \in SUBSET Bufs  BY DEF Charged
  <1>2. IsFiniteSet(Charged(u, m))  BY <1>1, FiniteAssumption, FS_Subset
  <1> QED  BY <1>2, FS_CardinalityType, FS_EmptySet

\* So can the counters in use without a client.
LEMMA OrphansFinite ==
    ASSUME NEW R, NEW M
    PROVE  /\ IsFiniteSet(Orphans(R, M)) /\ Cardinality(Orphans(R, M)) \in Nat
           /\ Cardinality(Orphans(R, M)) = 0 <=> Orphans(R, M) = {}
  <1>1. Orphans(R, M) \in SUBSET Mems  BY DEF Orphans
  <1>2. IsFiniteSet(Mems)
    <2>1. 1 \in Int /\ LruSize + MaxSlab \in Int  BY LruAssumption, BoundAssumption
    <2> QED  BY <2>1, FS_Interval DEF Mems
  <1>3. IsFiniteSet(Orphans(R, M))  BY <1>1, <1>2, FS_Subset
  <1> QED  BY <1>3, FS_CardinalityType, FS_EmptySet

\* A sequence with one more element in front, and one without its last.
LEMMA Prepended ==
    ASSUME NEW S, NEW l \in Seq(S), NEW r \in S, NEW g, g = <<r>> \o l
    PROVE  /\ Len(g) = Len(l) + 1 /\ Len(l) \in Nat /\ DOMAIN g = 1..Len(g) /\ DOMAIN l = 1..Len(l)
           /\ g[1] = r /\ \A i \in 2..Len(g) : g[i] = l[i - 1] /\ i - 1 \in 1..Len(l)
           /\ \A i \in 1..Len(l) : g[i + 1] = l[i] /\ i + 1 \in 1..Len(g)
           /\ \A i \in 1..Len(l) : l[i] \in S
           /\ g \in Seq(S)
  OBVIOUS

AllButLast(l, g) ==
    /\ Len(g) = Len(l) - 1 /\ Len(l) \in Nat \ {0}
    /\ DOMAIN g = 1..Len(g) /\ DOMAIN l = 1..Len(l)
    /\ \A i \in 1..Len(l) - 1 : g[i] = l[i]

LEMMA Shortened ==
    ASSUME NEW S, NEW l \in Seq(S), l # <<>>, NEW g, g = SubSeq(l, 1, Len(l) - 1)
    PROVE  AllButLast(l, g) /\ g \in Seq(S)
  <1>1. Len(l) \in Nat /\ DOMAIN l = 1..Len(l) /\ \A i \in 1..Len(l) : l[i] \in S  OBVIOUS
  <1>2. Len(l) # 0  OBVIOUS
  <1>3. Len(g) = Len(l) - 1  BY <1>1, <1>2
  <1>4. g \in Seq(S)  BY <1>1, <1>2
  <1>5. \A i \in 1..Len(l) - 1 : g[i] = l[i]  BY <1>1, <1>2
  <1>6. DOMAIN g = 1..Len(g)  BY <1>4
  <1> QED  BY ONLY <1>1, <1>2, <1>3, <1>4, <1>5, <1>6 DEF AllButLast

-----------------------------------------------------------------------------
(* References to clients. *)

\* The sockets as TypeOK has them.
SocketsOK(k) ==
    \A t \in Socks : k[t].st \in {"none", "open", "put"} /\ (k[t].st # "none" => k[t].rec \in Recs)

\* A new client is put in front of the list, and its socket is opened.
Adds(R, Q, k, h, r, s) ==
    /\ R[r].st = "none" /\ Q[r].st = "live" /\ Q[r].refcnt = 2 /\ Q[r].curr = 1
    /\ \A q \in Recs \ {r} : Q[q] = R[q]
    /\ k[s].st = "none" /\ h[s].st = "open" /\ h[s].rec = r
    /\ \A t \in Socks \ {s} : h[t] = k[t]

LEMMA ClientAdded ==
    ASSUME NEW R, NEW Q, NEW l \in Seq(Recs), NEW g, NEW k, NEW h,
           Referenced(R, l, k), Dropped(R, k), NEW r \in Recs, NEW s \in Socks,
           Adds(R, Q, k, h, r, s), g = <<r>> \o l, SocketsOK(k)
    PROVE  Referenced(Q, g, h) /\ Dropped(Q, h)
  <1> USE DEF Adds
  <1>g. /\ Len(g) = Len(l) + 1 /\ Len(l) \in Nat /\ DOMAIN g = 1..Len(g) /\ DOMAIN l = 1..Len(l)
        /\ g[1] = r /\ \A i \in 2..Len(g) : g[i] = l[i - 1] /\ i - 1 \in 1..Len(l)
        /\ \A i \in 1..Len(l) : g[i + 1] = l[i] /\ i + 1 \in 1..Len(g)
        /\ \A i \in 1..Len(l) : l[i] \in Recs
    <2>1. l \in Seq(Recs) /\ r \in Recs /\ g = <<r>> \o l  OBVIOUS
    <2> QED  BY ONLY <2>1, Prepended
  <1>l. \A i \in 1..Len(l) : l[i] # r  BY DEF Referenced
  <1>k. \A t \in Socks : k[t].st # "none" => k[t].rec # r  BY DEF Referenced, SocketsOK
  <1>o. Open(k, r) = {} /\ Cardinality(Open(k, r)) = 0
    <2>1. Open(k, r) = {}  BY <1>k DEF Open
    <2> QED  BY <2>1, OpenFinite
  <1>p. /\ Cardinality(Open(h, r)) = 1
        /\ \A q : q # r => Open(h, q) = Open(k, q)
    <2>1. /\ s \in Socks /\ k[s].st # "open" /\ h[s].st = "open" /\ h[s].rec = r
          /\ \A t \in Socks \ {s} : h[t] = k[t]
      OBVIOUS
    <2>2. /\ Cardinality(Open(h, r)) = Cardinality(Open(k, r)) + 1
          /\ \A q : q # r => Open(h, q) = Open(k, q)
      BY ONLY <2>1, OneMoreOpen
    <2> QED  BY <1>o, <2>2
  <1>1. \A i \in 1..Len(g) : Q[g[i]].st = "live"
    <2> TAKE i \in 1..Len(g)
    <2>1. CASE i = 1  BY <1>g, <2>1
    <2>2. CASE i \in 2..Len(g)
      <3>1. g[i] = l[i - 1] /\ i - 1 \in 1..Len(l) /\ g[i] \in Recs \ {r}  BY <1>g, <1>l, <2>2
      <3>2. R[l[i - 1]].st = "live"  BY <3>1 DEF Referenced
      <3> QED  BY <3>1, <3>2
    <2> QED  BY <1>g, <2>1, <2>2
  <1>2. \A i, j \in 1..Len(g) : g[i] = g[j] => i = j
    <2> SUFFICES ASSUME NEW i \in 1..Len(g), NEW j \in 1..Len(g), g[i] = g[j] PROVE i = j
      OBVIOUS
    <2>1. CASE i = 1 \/ j = 1  BY <1>g, <1>l, <2>1
    <2>2. CASE i \in 2..Len(g) /\ j \in 2..Len(g)
      <3>1. i - 1 \in 1..Len(l) /\ j - 1 \in 1..Len(l) /\ l[i-1] = l[j-1]  BY <1>g, <2>2
      <3>2. i - 1 = j - 1  BY <3>1 DEF Referenced
      <3> QED  BY <2>2, <3>2
    <2> QED  BY <1>g, <2>1, <2>2
  <1>3. \A t \in Socks : h[t].st # "none" => Q[h[t].rec].st = "live"
    <2> TAKE t \in Socks
    <2>1. CASE t = s  BY <2>1
    <2>2. CASE t # s  BY <1>k, <2>2 DEF Referenced, SocketsOK
    <2> QED  BY <2>1, <2>2
  <1>4. ASSUME NEW q \in Recs, Q[q].st = "live"
        PROVE  /\ Q[q].curr = Cardinality(Open(h, q))
               /\ Q[q].refcnt = Cardinality(Open(h, q)) + IF InLru(g, q) THEN 1 ELSE 0
    <2>1. CASE q = r
      <3>1. InLru(g, r)  BY <1>g DEF InLru
      <3> QED  BY <1>p, <2>1, <3>1
    <2>2. CASE q # r
      <3>1. InLru(g, q) <=> InLru(l, q)
        <4>1. ASSUME InLru(l, q) PROVE InLru(g, q)
          <5>1. PICK i \in 1..Len(l) : l[i] = q  BY <1>g, <4>1 DEF InLru
          <5>2. g[i + 1] = q /\ i + 1 \in 1..Len(g)  BY <1>g, <5>1
          <5> QED  BY <1>g, <5>2 DEF InLru
        <4>2. ASSUME InLru(g, q) PROVE InLru(l, q)
          <5>1. PICK i \in 1..Len(g) : g[i] = q  BY <1>g, <4>2 DEF InLru
          <5>2. i \in 2..Len(g)  BY <1>g, <2>2, <5>1
          <5> QED  BY <1>g, <5>1, <5>2 DEF InLru
        <4> QED  BY <4>1, <4>2
      <3>2. Open(h, q) = Open(k, q) /\ Q[q] = R[q]  BY <1>p, <2>2
      <3> QED  BY <1>4, <3>1, <3>2 DEF Referenced
    <2> QED  BY <2>1, <2>2
  <1>5. Dropped(Q, h)
    <2>1. \A t \in Socks : h[t].st = "put" => t # s /\ h[t] = k[t]  OBVIOUS
    <2>2. \A t \in Socks : h[t].st = "put" => Q[h[t].rec].refcnt = 0
      BY <1>k, <2>1 DEF Dropped, SocketsOK
    <2>3. \A t, v \in Socks : h[t].st = "put" /\ h[v].st = "put" /\ h[t].rec = h[v].rec => t = v
      BY <2>1 DEF Dropped
    <2>4. ASSUME NEW q \in Recs, Q[q].st = "live", Q[q].refcnt = 0
          PROVE  \E t \in Socks : h[t].st = "put" /\ h[t].rec = q
      <3>1. q # r /\ R[q].st = "live" /\ R[q].refcnt = 0  BY <2>4
      <3>2. PICK t \in Socks : k[t].st = "put" /\ k[t].rec = q  BY <3>1 DEF Dropped
      <3> QED  BY <3>2
    <2> QED  BY <2>2, <2>3, <2>4 DEF Dropped
  <1> QED  BY <1>1, <1>2, <1>3, <1>4, <1>5 DEF Referenced

\* A socket is opened for a known client.
Opens(R, Q, k, h, r, s) ==
    /\ R[r].st = "live" /\ Q[r].st = "live"
    /\ Q[r].refcnt = R[r].refcnt + 1 /\ Q[r].curr = R[r].curr + 1
    /\ \A q \in Recs \ {r} : Q[q] = R[q]
    /\ k[s].st = "none" /\ h[s].st = "open" /\ h[s].rec = r
    /\ \A t \in Socks \ {s} : h[t] = k[t]

LEMMA ClientReferenced ==
    ASSUME NEW R, NEW Q, NEW l, NEW k, NEW h, Referenced(R, l, k), Dropped(R, k),
           NEW r \in Recs, NEW s \in Socks, Opens(R, Q, k, h, r, s),
           \A i \in 1..Len(l) : l[i] \in Recs, SocketsOK(k)
    PROVE  Referenced(Q, l, h) /\ (R[r].refcnt # 0 => Dropped(Q, h))
  <1> USE DEF Opens
  <1>p. /\ Cardinality(Open(h, r)) = Cardinality(Open(k, r)) + 1
        /\ \A q : q # r => Open(h, q) = Open(k, q)
    <2>1. /\ s \in Socks /\ k[s].st # "open" /\ h[s].st = "open" /\ h[s].rec = r
          /\ \A t \in Socks \ {s} : h[t] = k[t]
      OBVIOUS
    <2> QED  BY ONLY <2>1, OneMoreOpen
  <1>c. Cardinality(Open(k, r)) \in Nat  BY OpenFinite
  <1>1. \A i \in 1..Len(l) : Q[l[i]].st = "live"  BY DEF Referenced
  <1>2. \A i, j \in 1..Len(l) : l[i] = l[j] => i = j  BY DEF Referenced
  <1>3. \A t \in Socks : h[t].st # "none" => Q[h[t].rec].st = "live"  BY DEF Referenced, SocketsOK
  <1>4. ASSUME NEW q \in Recs, Q[q].st = "live"
        PROVE  /\ Q[q].curr = Cardinality(Open(h, q))
               /\ Q[q].refcnt = Cardinality(Open(h, q)) + IF InLru(l, q) THEN 1 ELSE 0
    <2>1. CASE q = r
      <3>1. /\ R[r].curr = Cardinality(Open(k, r))
            /\ R[r].refcnt = Cardinality(Open(k, r)) + IF InLru(l, r) THEN 1 ELSE 0
        BY DEF Referenced
      <3> QED  BY <1>c, <1>p, <2>1, <3>1
    <2>2. CASE q # r  BY <1>4, <1>p, <2>2 DEF Referenced
    <2> QED  BY <2>1, <2>2
  <1>5. ASSUME R[r].refcnt # 0 PROVE Dropped(Q, h)
    <2>1. \A t \in Socks : h[t].st = "put" => t # s /\ h[t] = k[t] /\ h[t].rec # r
      BY <1>5 DEF Dropped
    <2>2. \A t \in Socks : h[t].st = "put" => Q[h[t].rec].refcnt = 0  BY <2>1 DEF Dropped, SocketsOK
    <2>3. \A t, v \in Socks : h[t].st = "put" /\ h[v].st = "put" /\ h[t].rec = h[v].rec => t = v
      BY <2>1 DEF Dropped
    <2>4. ASSUME NEW q \in Recs, Q[q].st = "live", Q[q].refcnt = 0
          PROVE  \E t \in Socks : h[t].st = "put" /\ h[t].rec = q
      <3>1. q # r
        <4>1. R[r].refcnt = Cardinality(Open(k, r)) + IF InLru(l, r) THEN 1 ELSE 0
          BY DEF Referenced
        <4> QED  BY <1>c, <2>4, <4>1
      <3>2. PICK t \in Socks : k[t].st = "put" /\ k[t].rec = q  BY <2>4, <3>1 DEF Dropped
      <3> QED  BY <3>2
    <2> QED  BY <2>2, <2>3, <2>4 DEF Dropped
  <1> QED  BY <1>1, <1>2, <1>3, <1>4, <1>5 DEF Referenced

\* A socket is closed: if its reference was the last one it is to free the
\* client.
Closes(R, Q, k, h, r, s) ==
    /\ R[r].st = "live" /\ Q[r].st = "live"
    /\ Q[r].refcnt = R[r].refcnt - 1 /\ Q[r].curr = R[r].curr - 1
    /\ \A q \in Recs \ {r} : Q[q] = R[q]
    /\ k[s].st = "open" /\ k[s].rec = r
    /\ IF R[r].refcnt = 1 THEN h[s].st = "put" /\ h[s].rec = r ELSE h[s].st = "none"
    /\ \A t \in Socks \ {s} : h[t] = k[t]

LEMMA ClientClosed ==
    ASSUME NEW R, NEW Q, NEW l, NEW k, NEW h, Referenced(R, l, k), Dropped(R, k),
           NEW r \in Recs, NEW s \in Socks, Closes(R, Q, k, h, r, s),
           \A i \in 1..Len(l) : l[i] \in Recs, SocketsOK(k)
    PROVE  Referenced(Q, l, h) /\ Dropped(Q, h)
  <1> USE DEF Closes
  <1>s. h[s].st # "open" /\ (h[s].st # "none" => h[s].st = "put" /\ h[s].rec = r)  OBVIOUS
  <1>p. /\ Cardinality(Open(k, r)) = Cardinality(Open(h, r)) + 1
        /\ \A q : q # r => Open(h, q) = Open(k, q)
    <2>1. /\ s \in Socks /\ k[s].st = "open" /\ k[s].rec = r /\ h[s].st # "open"
      BY <1>s
    <2>2. \A t \in Socks \ {s} : h[t] = k[t]  OBVIOUS
    <2>3. ASSUME NEW x, x = r PROVE /\ Cardinality(Open(k, x)) = Cardinality(Open(h, x)) + 1
                                    /\ \A q : q # x => Open(h, q) = Open(k, q)
      <3>1. k[s].rec = x  BY <2>1, <2>3
      <3> QED  BY ONLY s \in Socks, <2>1, <2>2, <3>1, OneLessOpen
    <2> QED  BY <2>3
  <1>c. /\ Cardinality(Open(k, r)) \in Nat /\ Cardinality(Open(k, r)) # 0
        /\ Cardinality(Open(h, r)) \in Nat
    <2>1. s \in Open(k, r)  BY DEF Open
    <2> QED  BY <2>1, OpenFinite
  <1>r. /\ R[r].curr = Cardinality(Open(k, r))
        /\ R[r].refcnt = Cardinality(Open(k, r)) + IF InLru(l, r) THEN 1 ELSE 0
    BY DEF Referenced
  <1>1. \A i \in 1..Len(l) : Q[l[i]].st = "live"  BY DEF Referenced
  <1>2. \A i, j \in 1..Len(l) : l[i] = l[j] => i = j  BY DEF Referenced
  <1>3. \A t \in Socks : h[t].st # "none" => Q[h[t].rec].st = "live"  BY <1>s DEF Referenced, SocketsOK
  <1>4. ASSUME NEW q \in Recs, Q[q].st = "live"
        PROVE  /\ Q[q].curr = Cardinality(Open(h, q))
               /\ Q[q].refcnt = Cardinality(Open(h, q)) + IF InLru(l, q) THEN 1 ELSE 0
    <2>1. CASE q = r  BY <1>c, <1>p, <1>r, <2>1
    <2>2. CASE q # r  BY <1>4, <1>p, <2>2 DEF Referenced
    <2> QED  BY <2>1, <2>2
  <1>5. Dropped(Q, h)
    <2>0. R[r].refcnt # 0  BY <1>c, <1>r
    <2>1. \A t \in Socks \ {s} : h[t].st = "put" => k[t].st = "put" /\ h[t].rec = k[t].rec /\ h[t].rec # r
      BY <2>0 DEF Dropped
    <2>2. ASSUME NEW t \in Socks, h[t].st = "put" PROVE Q[h[t].rec].refcnt = 0
      <3>1. CASE t = s  BY <1>s, <2>2, <3>1
      <3>2. CASE t # s
        <4>1. k[t].st = "put" /\ h[t].rec = k[t].rec /\ h[t].rec # r  BY <2>1, <2>2, <3>2
        <4>2. R[k[t].rec].refcnt = 0 /\ k[t].rec \in Recs  BY <4>1 DEF Dropped, SocketsOK
        <4> QED  BY <4>1, <4>2
      <3> QED  BY <3>1, <3>2
    <2>3. \A t, v \in Socks : h[t].st = "put" /\ h[v].st = "put" /\ h[t].rec = h[v].rec => t = v
      BY <1>s, <2>1 DEF Dropped
    <2>4. ASSUME NEW q \in Recs, Q[q].st = "live", Q[q].refcnt = 0
          PROVE  \E t \in Socks : h[t].st = "put" /\ h[t].rec = q
      <3>1. CASE q = r
        <4>1. R[r].refcnt = 1  BY <1>c, <1>r, <2>4, <3>1
        <4> QED  BY <3>1, <4>1
      <3>2. CASE q # r
        <4>1. PICK t \in Socks : k[t].st = "put" /\ k[t].rec = q  BY <2>4, <3>2 DEF Dropped
        <4> QED  BY <4>1
      <3> QED  BY <3>1, <3>2
    <2> QED  BY <2>2, <2>3, <2>4 DEF Dropped
  <1> QED  BY <1>1, <1>2, <1>3, <1>4, <1>5 DEF Referenced

\* A client without references is freed by the socket that dropped the last one.
LEMMA ClientFreed ==
    ASSUME NEW R, NEW Q, NEW l, NEW k, NEW h, Referenced(R, l, k), Dropped(R, k),
           NEW r \in Recs, Q[r].st = "freed",
           \A q \in Recs \ {r} : Q[q] = R[q],
           \A i \in 1..Len(l) : l[i] \in Recs,
           NEW s \in Socks, k[s].st = "put", k[s].rec = r, h[s].st = "none",
           \A t \in Socks \ {s} : h[t] = k[t],
           SocketsOK(k)
    PROVE  R[r].st = "live" /\ Referenced(Q, l, h) /\ Dropped(Q, h)
  <1>o. \A q : Open(h, q) = Open(k, q)
    <2>1. /\ s \in Socks /\ k[s].st # "open" /\ h[s].st # "open"
          /\ \A t \in Socks \ {s} : h[t] = k[t]
      OBVIOUS
    <2> QED  BY ONLY <2>1, SameOpen
  <1>r. R[r].st = "live" /\ R[r].refcnt = 0  BY DEF Referenced, Dropped
  <1>z. Open(k, r) = {} /\ ~InLru(l, r)
    <2>1. R[r].refcnt = Cardinality(Open(k, r)) + IF InLru(l, r) THEN 1 ELSE 0
      BY <1>r DEF Referenced
    <2>2. Cardinality(Open(k, r)) \in Nat  BY OpenFinite
    <2>3. Cardinality(Open(k, r)) = 0 /\ ~InLru(l, r)  BY <1>r, <2>1, <2>2
    <2> QED  BY <2>3, OpenFinite
  <1>t. \A t \in Socks \ {s} : k[t].st # "none" => k[t].rec # r
    <2> SUFFICES ASSUME NEW t \in Socks \ {s}, k[t].st # "none", k[t].rec = r PROVE FALSE
      OBVIOUS
    <2>1. CASE k[t].st = "open"  BY <1>z, <2>1 DEF Open
    <2>2. CASE k[t].st = "put"  BY <2>2 DEF Dropped
    <2> QED  BY <2>1, <2>2 DEF SocketsOK
  <1>1. \A i \in 1..Len(l) : Q[l[i]].st = "live"
    BY <1>z DEF Referenced, InLru
  <1>2. \A i, j \in 1..Len(l) : l[i] = l[j] => i = j  BY DEF Referenced
  <1>3. \A t \in Socks : h[t].st # "none" => Q[h[t].rec].st = "live"  BY <1>t DEF Referenced, SocketsOK
  <1>4. \A q \in Recs : Q[q].st = "live" =>
               /\ Q[q].curr = Cardinality(Open(h, q))
               /\ Q[q].refcnt = Cardinality(Open(h, q)) + IF InLru(l, q) THEN 1 ELSE 0
    BY <1>o DEF Referenced
  <1>5. Dropped(Q, h)
    <2>1. \A t \in Socks : h[t].st = "put" => t # s /\ h[t] = k[t] /\ h[t].rec # r  BY <1>t
    <2>2. \A t \in Socks : h[t].st = "put" => Q[h[t].rec].refcnt = 0  BY <2>1 DEF Dropped, SocketsOK
    <2>3. \A t, v \in Socks : h[t].st = "put" /\ h[v].st = "put" /\ h[t].rec = h[v].rec => t = v
      BY <2>1 DEF Dropped
    <2>4. ASSUME NEW q \in Recs, Q[q].st = "live", Q[q].refcnt = 0
          PROVE  \E t \in Socks : h[t].st = "put" /\ h[t].rec = q
      <3>1. q # r  BY <2>4
      <3>2. PICK t \in Socks : k[t].st = "put" /\ k[t].rec = q  BY <2>4, <3>1 DEF Dropped
      <3> QED  BY <3>1, <3>2
    <2> QED  BY <2>2, <2>3, <2>4 DEF Dropped
  <1> QED  BY <1>r, <1>1, <1>2, <1>3, <1>4, <1>5 DEF Referenced

\* The oldest client leaves the list; it is freed if nobody else refers to it.
Evicts(R, Q, r) ==
    /\ \/ R[r].refcnt = 1 /\ Q[r].st = "freed"
       \/ /\ R[r].refcnt # 1 /\ Q[r].st = R[r].st
          /\ Q[r].refcnt = R[r].refcnt - 1 /\ Q[r].curr = R[r].curr
    /\ \A q \in Recs \ {r} : Q[q] = R[q]

LEMMA ClientEvicted ==
    ASSUME NEW R, NEW Q, NEW l \in Seq(Recs), NEW g, NEW k, Referenced(R, l, k), Dropped(R, k),
           AllButLast(l, g), NEW r, r = l[Len(l)], Evicts(R, Q, r), SocketsOK(k)
    PROVE  R[r].st = "live" /\ Referenced(Q, g, k) /\ Dropped(Q, k)
  <1> USE DEF Evicts
  <1>a. /\ Len(g) = Len(l) - 1 /\ Len(l) \in Nat \ {0}
        /\ DOMAIN g = 1..Len(g) /\ DOMAIN l = 1..Len(l)
        /\ \A i \in 1..Len(l) - 1 : g[i] = l[i]
    BY DEF AllButLast
  <1>b. \A i \in 1..Len(l) : l[i] \in Recs  OBVIOUS
  <1>g. /\ \A i \in 1..Len(g) : g[i] = l[i] /\ i \in 1..Len(l) /\ i # Len(l)
        /\ Len(l) \in 1..Len(l)
        /\ \A i \in 1..Len(l) : i # Len(l) => i \in 1..Len(g)
    BY ONLY <1>a
  <1>q. r \in Recs /\ R[r].st = "live"  BY <1>b, <1>g DEF Referenced
  <1>i. InLru(l, r)  BY <1>a, <1>g DEF InLru
  <1>n. \A i \in 1..Len(g) : g[i] # r  BY <1>g DEF Referenced
  <1>c. /\ Cardinality(Open(k, r)) \in Nat
        /\ R[r].curr = Cardinality(Open(k, r)) /\ R[r].refcnt = Cardinality(Open(k, r)) + 1
    <2>1. /\ R[r].curr = Cardinality(Open(k, r))
          /\ R[r].refcnt = Cardinality(Open(k, r)) + IF InLru(l, r) THEN 1 ELSE 0
      BY <1>q DEF Referenced
    <2> QED  BY <1>i, <2>1, OpenFinite
  <1>p. \A t \in Socks : k[t].st = "put" => k[t].rec # r
    <2>1. R[r].refcnt # 0  BY <1>c
    <2> QED  BY <2>1 DEF Dropped
  <1>f. ASSUME Q[r].st = "freed" PROVE R[r].refcnt = 1 /\ \A t \in Socks : k[t].st # "none" => k[t].rec # r
    <2>1. R[r].refcnt = 1  BY <1>f, <1>q
    <2>2. Cardinality(Open(k, r)) = 0  BY <1>c, <2>1
    <2>3. Open(k, r) = {}  BY <2>2, OpenFinite
    <2> QED  BY <1>p, <2>1, <2>3 DEF Open, SocketsOK
  <1>1. \A i \in 1..Len(g) : Q[g[i]].st = "live"  BY <1>b, <1>g, <1>n DEF Referenced
  <1>2. \A i, j \in 1..Len(g) : g[i] = g[j] => i = j  BY <1>g DEF Referenced
  <1>3. \A t \in Socks : k[t].st # "none" => Q[k[t].rec].st = "live"
    <2>1. CASE Q[r].st = "freed"  BY <1>f, <2>1 DEF Referenced, SocketsOK
    <2>2. CASE Q[r].st = "live"  BY <2>2 DEF Referenced, SocketsOK
    <2> QED  BY <1>q, <2>1, <2>2
  <1>4. ASSUME NEW q \in Recs, Q[q].st = "live"
        PROVE  /\ Q[q].curr = Cardinality(Open(k, q))
               /\ Q[q].refcnt = Cardinality(Open(k, q)) + IF InLru(g, q) THEN 1 ELSE 0
    <2>1. CASE q = r
      <3>1. ~InLru(g, r)  BY <1>a, <1>g, <1>n DEF InLru
      <3> QED  BY <1>4, <1>c, <2>1, <3>1
    <2>2. CASE q # r
      <3>1. InLru(g, q) <=> InLru(l, q)  BY <1>a, <1>g, <2>2 DEF InLru
      <3> QED  BY <1>4, <2>2, <3>1 DEF Referenced
    <2> QED  BY <2>1, <2>2
  <1>5. Dropped(Q, k)
    <2>2. \A t \in Socks : k[t].st = "put" => Q[k[t].rec].refcnt = 0  BY <1>p DEF Dropped, SocketsOK
    <2>3. \A t, v \in Socks : k[t].st = "put" /\ k[v].st = "put" /\ k[t].rec = k[v].rec => t = v
      BY DEF Dropped
    <2>4. ASSUME NEW q \in Recs, Q[q].st = "live", Q[q].refcnt = 0
          PROVE  \E t \in Socks : k[t].st = "put" /\ k[t].rec = q
      <3>1. q # r  BY <1>c, <2>4
      <3> QED  BY <2>4, <3>1 DEF Dropped
    <2> QED  BY <2>2, <2>3, <2>4 DEF Dropped
  <1> QED  BY <1>q, <1>1, <1>2, <1>3, <1>4, <1>5 DEF Referenced

-----------------------------------------------------------------------------
(* The memory counters. *)

MemSide(R, M, f, W, n, u) ==
    /\ OwnCounters(R, M, W) /\ InUse(R, M, W, u) /\ FreeRight(M, f)
    /\ n = Cardinality(Orphans(R, M))

\* Clients q are clients r as far as the counters are concerned.
SameOwner(q, r) == q.st = r.st /\ q.mem = r.mem

\* Nothing changes for the counters if clients are live as before.
LEMMA OwnersKept ==
    ASSUME NEW R, NEW Q, \A r \in Recs : SameOwner(Q[r], R[r]),
           NEW M, NEW f, NEW W, NEW n, NEW u, MemSide(R, M, f, W, n, u)
    PROVE  MemSide(Q, M, f, W, n, u)
  <1>1. \A m : Owned(Q, m) <=> Owned(R, m)  BY DEF Owned, SameOwner
  <1>2. Orphans(Q, M) = Orphans(R, M)  BY <1>1 DEF Orphans
  <1>3. OwnCounters(Q, M, W)  BY DEF OwnCounters, MemSide, SameOwner
  <1>4. InUse(Q, M, W, u)  BY <1>1 DEF InUse, MemSide
  <1> QED  BY <1>2, <1>3, <1>4 DEF MemSide

\* A live client is freed: its counter is left to a work.
LEMMA OwnerFreed ==
    ASSUME NEW R, NEW Q, NEW r \in Recs, R[r].st = "live", Q[r].st = "freed",
           \A q \in Recs \ {r} : SameOwner(Q[q], R[q]),
           NEW M, NEW f, NEW W, NEW n, NEW u, MemSide(R, M, f, W, n, u)
    PROVE  MemSide(Q, M, f, W \cup {R[r].mem}, n + 1, u)
  <1> DEFINE m == R[r].mem
  <1>m. m \in Mems /\ M[m].st = "used" /\ m \notin W  BY DEF MemSide, OwnCounters
  <1>1. \A x : x # m => (Owned(Q, x) <=> Owned(R, x))  BY DEF Owned, SameOwner
  <1>2. Owned(R, m)  BY DEF Owned
  <1>3. ~Owned(Q, m)  BY DEF Owned, SameOwner, MemSide, OwnCounters
  <1>4. Orphans(Q, M) = Orphans(R, M) \cup {m} /\ m \notin Orphans(R, M)
    BY <1>m, <1>1, <1>2, <1>3 DEF Orphans
  <1>5. Cardinality(Orphans(Q, M)) = n + 1
    <2>1. IsFiniteSet(Orphans(R, M))  BY OrphansFinite
    <2>2. Cardinality(Orphans(R, M) \cup {m}) = Cardinality(Orphans(R, M)) + 1
      BY <1>4, <2>1, FS_AddElement
    <2> QED  BY <1>4, <2>2 DEF MemSide
  <1> HIDE DEF m
  <1>6. OwnCounters(Q, M, W \cup {m})
    <2>1. ASSUME NEW q \in Recs, Q[q].st = "live"
          PROVE  q # r /\ R[q].st = "live" /\ Q[q].mem = R[q].mem /\ R[q].mem # m
      BY <2>1 DEF SameOwner, MemSide, OwnCounters, m
    <2> QED  BY <2>1 DEF OwnCounters, MemSide
  <1>7. InUse(Q, M, W \cup {m}, u)
    <2>1. \A x : x \in W \cup {m} \/ Owned(Q, x) <=> x \in W \/ Owned(R, x)
      BY <1>1, <1>2, <1>3
    <2> QED  BY <1>m, <2>1 DEF InUse, MemSide
  <1> QED  BY <1>5, <1>6, <1>7 DEF MemSide, m

\* A counter that was not in use gets an owner.
GetsCounter(R, Q, M, N, r, m) ==
    /\ R[r].st = "none" /\ Q[r].st = "live" /\ Q[r].mem = m
    /\ \A q \in Recs \ {r} : SameOwner(Q[q], R[q])
    /\ M[m].st # "used" /\ N[m].st = "used" /\ N[m].refs = 2
    /\ \A x \in Mems \ {m} : N[x] = M[x]

LEMMA OwnerAdded ==
    ASSUME NEW R, NEW Q, NEW r \in Recs, NEW m \in Mems, NEW M, NEW N,
           GetsCounter(R, Q, M, N, r, m), NEW f, NEW g, FreeRight(N, g),
           NEW W \in SUBSET Mems, NEW n, NEW u \in [Bufs -> Mems \cup {0}],
           MemSide(R, M, f, W, n, u)
    PROVE  MemSide(Q, N, g, W, n, u)
  <1> USE DEF GetsCounter
  <1>0. m # 0  BY LruAssumption, BoundAssumption DEF Mems
  <1>1. \A x : x # m => (Owned(Q, x) <=> Owned(R, x))  BY DEF Owned, SameOwner
  <1>2. Owned(Q, m)  BY DEF Owned
  <1>3. m \notin W /\ \A b \in Bufs : u[b] # m  BY <1>0 DEF MemSide, InUse
  <1>4. Charged(u, m) = {}  BY <1>3 DEF Charged
  <1>5. Cardinality(Charged(u, m)) = 0  BY <1>4, ChargedFinite
  <1>6. Orphans(Q, N) = Orphans(R, M)  BY <1>1, <1>2 DEF Orphans
  <1>7. OwnCounters(Q, N, W)
    <2>1. ASSUME NEW q \in Recs, Q[q].st = "live", q # r
          PROVE  R[q].st = "live" /\ Q[q].mem = R[q].mem /\ R[q].mem \in Mems \ {m}
                 /\ R[q].mem \notin W /\ N[R[q].mem].st = "used"
      BY <2>1 DEF SameOwner, MemSide, OwnCounters
    <2> QED  BY <1>3, <2>1 DEF OwnCounters, MemSide
  <1>8. InUse(Q, N, W, u)
    <2>1. \A x \in W : N[x].st = "used"  BY DEF InUse, MemSide
    <2>2. \A b \in Bufs : u[b] # 0 => N[u[b]].st = "used"  BY DEF InUse, MemSide
    <2>3. ASSUME NEW x \in Mems, N[x].st = "used"
          PROVE  N[x].refs = Cardinality(Charged(u, x)) + IF x \in W \/ Owned(Q, x) THEN 2 ELSE 0
      <3>1. CASE x = m  BY <1>2, <1>5, <3>1
      <3>2. CASE x # m  BY <1>1, <2>3, <3>2 DEF InUse, MemSide
      <3> QED  BY <3>1, <3>2
    <2> QED  BY <2>1, <2>2, <2>3 DEF InUse
  <1> QED  BY <1>6, <1>7, <1>8 DEF MemSide

\* References to a counter in use are added or dropped, not all of them.
Recounts(M, N, W, V, u, v, m) ==
    /\ M[m].st = "used" /\ N[m].st = "used"
    /\ \A x \in Mems \ {m} : N[x] = M[x]
    /\ V \subseteq W /\ \A x : x # m => (x \in V <=> x \in W)
    /\ \A b \in Bufs : v[b] = u[b] \/ {u[b], v[b]} = {0, m}
    /\ \A b \in Bufs : u[b] = 0 \/ u[b] \in Mems

LEMMA CounterUsed ==
    ASSUME NEW R, NEW M, NEW N, NEW f \in Seq(Pool), NEW W \in SUBSET Mems, NEW V,
           NEW n, NEW u, NEW v, MemSide(R, M, f, W, n, u),
           NEW m \in Mems, Recounts(M, N, W, V, u, v, m),
           N[m].refs = Cardinality(Charged(v, m)) + IF m \in V \/ Owned(R, m) THEN 2 ELSE 0
    PROVE  MemSide(R, N, f, V, n, v)
  <1> USE DEF Recounts
  <1>0. m # 0 /\ 0 \notin Mems  BY LruAssumption, BoundAssumption DEF Mems
  <1>1. \A x \in Mems : N[x].st = M[x].st  OBVIOUS
  <1>2. \A x \in Mems \ {m} : Charged(v, x) = Charged(u, x)  BY <1>0 DEF Charged
  <1>3. Orphans(R, N) = Orphans(R, M)  BY <1>1 DEF Orphans
  <1>4. OwnCounters(R, N, V)  BY <1>1 DEF OwnCounters, MemSide
  <1>5. InUse(R, N, V, v)
    <2>1. \A x \in V : N[x].st = "used"  BY <1>1 DEF InUse, MemSide
    <2>2. \A b \in Bufs : v[b] # 0 => N[v[b]].st = "used"  BY <1>0, <1>1 DEF InUse, MemSide
    <2>3. ASSUME NEW x \in Mems, N[x].st = "used"
          PROVE  N[x].refs = Cardinality(Charged(v, x)) + IF x \in V \/ Owned(R, x) THEN 2 ELSE 0
      <3>1. CASE x = m  BY <3>1
      <3>2. CASE x # m
        <4>1. Charged(v, x) = Charged(u, x) /\ N[x] = M[x] /\ (x \in V <=> x \in W)  BY <1>2, <3>2
        <4>2. M[x].refs = Cardinality(Charged(u, x)) + IF x \in W \/ Owned(R, x) THEN 2 ELSE 0
          BY <2>3, <4>1 DEF InUse, MemSide
        <4> QED  BY <4>1, <4>2
      <3> QED  BY <3>1, <3>2
    <2> QED  BY <2>1, <2>2, <2>3 DEF InUse
  <1>6. FreeRight(N, f)
    <2>1. /\ \A x \in Pool : x \in Mems
      BY LruAssumption, BoundAssumption DEF Pool, Mems
    <2>f. FreeRight(M, f)  BY DEF MemSide
    <2>2. ASSUME NEW x \in Pool, N[x].st # "used"
          PROVE  N[x] = [st |-> "free", refs |-> 1] /\ \E i \in 1..Len(f) : f[i] = x
      <3>1. x # m /\ N[x] = M[x]  BY <2>1, <2>2
      <3> QED  BY <2>2, <2>f, <3>1 DEF FreeRight
    <2>3. ASSUME NEW i \in 1..Len(f) PROVE N[f[i]].st = "free"
      <3>1. M[f[i]].st = "free"  BY <2>f DEF FreeRight
      <3>2. f[i] \in Pool  OBVIOUS
      <3> QED  BY <1>1, <2>1, <3>1, <3>2
    <2>4. \A i, j \in 1..Len(f) : f[i] = f[j] => i = j  BY <2>f DEF FreeRight
    <2>5. \A x \in Mems \ Pool : N[x].st # "free"  BY <1>1, <2>f DEF FreeRight
    <2> QED  BY <2>2, <2>3, <2>4, <2>5 DEF FreeRight
  <1> QED  BY <1>3, <1>4, <1>5, <1>6 DEF MemSide

\* cli_mem_release(): the free list with one more counter.
GivesBack(M, N, f, g, m) ==
    /\ M[m].st = "used" /\ \A x \in Mems \ {m} : N[x] = M[x]
    /\ IF m \in Pool THEN N[m] = [st |-> "free", refs |-> 1] /\ g = <<m>> \o f
       ELSE N[m] = [st |-> "none", refs |-> 0] /\ g = f

LEMMA FreeReleased ==
    ASSUME NEW M, NEW N, NEW f \in Seq(Pool), NEW g, FreeRight(M, f),
           NEW m \in Mems, GivesBack(M, N, f, g, m)
    PROVE  FreeRight(N, g)
  <1> USE DEF GivesBack
  <1>p. \A x \in Pool : x \in Mems  BY LruAssumption, BoundAssumption DEF Pool, Mems
  <1>f. /\ \A x \in Pool : M[x].st # "used" =>
              M[x] = [st |-> "free", refs |-> 1] /\ \E i \in 1..Len(f) : f[i] = x
        /\ \A i \in 1..Len(f) : f[i] \in Pool /\ M[f[i]].st = "free" /\ f[i] # m
        /\ \A i, j \in 1..Len(f) : f[i] = f[j] => i = j
        /\ \A x \in Mems \ Pool : M[x].st # "free"
    BY DEF FreeRight
  <1>1. CASE m \in Pool
    <2>0. g = <<m>> \o f /\ N[m] = [st |-> "free", refs |-> 1]  BY <1>1
    <2>g. /\ Len(g) = Len(f) + 1 /\ Len(f) \in Nat
          /\ g[1] = m /\ \A i \in 2..Len(g) : g[i] = f[i - 1] /\ i - 1 \in 1..Len(f)
          /\ \A i \in 1..Len(f) : g[i + 1] = f[i] /\ i + 1 \in 1..Len(g)
      BY ONLY f \in Seq(Pool), <1>1, <2>0, Prepended
    <2>1. ASSUME NEW x \in Pool, N[x].st # "used"
          PROVE  N[x] = [st |-> "free", refs |-> 1] /\ \E i \in 1..Len(g) : g[i] = x
      <3>1. CASE x = m  BY <2>0, <2>g, <3>1
      <3>2. CASE x # m
        <4>1. N[x] = M[x]  BY <1>p, <3>2
        <4>2. M[x] = [st |-> "free", refs |-> 1] /\ \E i \in 1..Len(f) : f[i] = x
          BY <1>f, <2>1, <4>1
        <4> QED  BY <2>g, <4>1, <4>2
      <3> QED  BY <3>1, <3>2
    <2>2. ASSUME NEW i \in 1..Len(g) PROVE N[g[i]].st = "free"
      <3>1. CASE i = 1  BY <2>0, <2>g, <3>1
      <3>2. CASE i \in 2..Len(g)
        <4>1. g[i] = f[i - 1] /\ i - 1 \in 1..Len(f)  BY <2>g, <3>2
        <4>2. N[g[i]] = M[g[i]] /\ M[g[i]].st = "free"  BY <1>f, <1>p, <4>1
        <4> QED  BY <4>2
      <3> QED  BY <2>g, <3>1, <3>2
    <2>3. ASSUME NEW i \in 1..Len(g), NEW j \in 1..Len(g), g[i] = g[j] PROVE i = j
      <3>1. CASE i = 1 \/ j = 1  BY <1>f, <2>3, <2>g, <3>1
      <3>2. CASE i \in 2..Len(g) /\ j \in 2..Len(g)
        <4>1. i - 1 \in 1..Len(f) /\ j - 1 \in 1..Len(f) /\ f[i-1] = f[j-1]  BY <2>3, <2>g, <3>2
        <4>2. i - 1 = j - 1  BY <1>f, <4>1
        <4> QED  BY <3>2, <4>2
      <3> QED  BY <2>g, <3>1, <3>2
    <2>4. \A x \in Mems \ Pool : N[x].st # "free"  BY <1>1, <1>f
    <2> QED  BY <2>1, <2>2, <2>3, <2>4 DEF FreeRight
  <1>2. CASE m \notin Pool
    <2>0. g = f /\ N[m].st = "none"  BY <1>2
    <2>1. ASSUME NEW x \in Pool, N[x].st # "used"
          PROVE  N[x] = [st |-> "free", refs |-> 1] /\ \E i \in 1..Len(f) : f[i] = x
      BY <1>2, <1>f, <1>p, <2>1
    <2>2. \A i \in 1..Len(f) : N[f[i]].st = "free"  BY <1>f, <1>p
    <2>3. \A x \in Mems \ Pool : N[x].st # "free"  BY <1>f, <2>0
    <2> QED  BY <1>f, <2>0, <2>1, <2>2, <2>3 DEF FreeRight
  <1> QED  BY <1>1, <1>2

\* The last reference to a counter is dropped: it goes back to the pool, or to
\* the slab cache, and is not pending any more.
Releases(M, N, W, V, u, v, m) ==
    /\ M[m].st = "used" /\ N[m].st # "used"
    /\ \A x \in Mems \ {m} : N[x] = M[x]
    /\ V = W \ {m}
    /\ \A b \in Bufs : v[b] = IF u[b] = m THEN 0 ELSE u[b]
    /\ \A b \in Bufs : u[b] = 0 \/ u[b] \in Mems

LEMMA CounterReleased ==
    ASSUME NEW R, NEW M, NEW N, NEW f \in Seq(Pool), NEW g, NEW W \in SUBSET Mems, NEW V,
           NEW n, NEW u, NEW v, MemSide(R, M, f, W, n, u), FreeRight(N, g),
           NEW m \in Mems, Releases(M, N, W, V, u, v, m), ~Owned(R, m)
    PROVE  MemSide(R, N, g, V, n - 1, v)
  <1> USE DEF Releases
  <1>0. m # 0 /\ 0 \notin Mems  BY LruAssumption, BoundAssumption DEF Mems
  <1>1. \A x \in Mems \ {m} : Charged(v, x) = Charged(u, x)  BY <1>0 DEF Charged
  <1>2. Orphans(R, N) = Orphans(R, M) \ {m} /\ m \in Orphans(R, M)  BY DEF Orphans
  <1>3. Cardinality(Orphans(R, N)) = n - 1
    <2>1. IsFiniteSet(Orphans(R, M))  BY OrphansFinite
    <2>2. Cardinality(Orphans(R, M) \ {m}) = Cardinality(Orphans(R, M)) - 1
      BY <1>2, <2>1, FS_RemoveElement
    <2> QED  BY <1>2, <2>2 DEF MemSide
  <1>4. OwnCounters(R, N, V)
    <2>1. ASSUME NEW r \in Recs, R[r].st = "live" PROVE R[r].mem # m  BY <2>1 DEF Owned
    <2> QED  BY <2>1 DEF OwnCounters, MemSide
  <1>5. InUse(R, N, V, v)
    <2>1. \A x \in V : N[x].st = "used"  BY DEF InUse, MemSide
    <2>2. \A b \in Bufs : v[b] # 0 => N[v[b]].st = "used"  BY <1>0 DEF InUse, MemSide
    <2>3. ASSUME NEW x \in Mems, N[x].st = "used"
          PROVE  N[x].refs = Cardinality(Charged(v, x)) + IF x \in V \/ Owned(R, x) THEN 2 ELSE 0
      <3>1. Charged(v, x) = Charged(u, x) /\ N[x] = M[x] /\ (x \in V <=> x \in W)
        BY <1>1, <2>3
      <3>2. M[x].refs = Cardinality(Charged(u, x)) + IF x \in W \/ Owned(R, x) THEN 2 ELSE 0
        BY <2>3, <3>1 DEF InUse, MemSide
      <3> QED  BY <3>1, <3>2
    <2> QED  BY <2>1, <2>2, <2>3 DEF InUse
  <1> QED  BY <1>3, <1>4, <1>5 DEF MemSide

\* As many counters lose their client as clients are freed.
LEMMA AsManyCounters ==
    ASSUME NEW R, NEW G \in SUBSET Recs,
           \A r, q \in G : R[r].mem = R[q].mem => r = q
    PROVE  /\ IsFiniteSet({R[r].mem : r \in G})
           /\ Cardinality({R[r].mem : r \in G}) = Cardinality(G)
  <1> DEFINE T == {R[r].mem : r \in G}
             h == [r \in G |-> R[r].mem]
  <1>1. IsFiniteSet(G)
    <2>1. 1 \in Int /\ MaxRecs \in Int  BY BoundAssumption
    <2>2. IsFiniteSet(Recs)  BY <2>1, FS_Interval DEF Recs
    <2> QED  BY <2>2, FS_Subset
  <1>2. h \in [G -> T] /\ \A r, q \in G : h[r] = h[q] => r = q  OBVIOUS
  <1>3. \A t \in T : \E r \in G : h[r] = t  OBVIOUS
  <1> HIDE DEF h
  <1>4. h \in Injection(G, T)  BY <1>2 DEF Injection, IsInjective
  <1>5. h \in Surjection(G, T)  BY <1>2, <1>3 DEF Surjection
  <1>6. h \in Bijection(G, T)  BY <1>4, <1>5 DEF Bijection
  <1>7. ExistsBijection(G, T)  BY <1>6 DEF ExistsBijection
  <1> QED  BY <1>1, <1>7, FS_Bijection

\* All live clients are freed at once.
LEMMA OwnersFreed ==
    ASSUME NEW R, NEW Q, NEW G \in SUBSET Recs,
           \A r \in Recs : R[r].st = "live" <=> r \in G,
           \A r \in Recs : Q[r].st # "live",
           NEW M, NEW f, NEW W, NEW n, NEW u, MemSide(R, M, f, W, n, u)
    PROVE  MemSide(Q, M, f, W \cup {R[r].mem : r \in G}, n + Cardinality(G), u)
  <1> DEFINE T == {R[r].mem : r \in G}
  <1>o. OwnCounters(R, M, W) /\ InUse(R, M, W, u)  BY DEF MemSide
  <1>1. \A x : ~Owned(Q, x)  BY DEF Owned
  <1>2. \A x : Owned(R, x) <=> x \in T  BY DEF Owned
  <1>3. \A x \in T : x \in Mems /\ M[x].st = "used"  BY <1>o DEF OwnCounters
  <1>i. \A r, q \in G : R[r].mem = R[q].mem => r = q  BY <1>o DEF OwnCounters
  <1>4. IsFiniteSet(T) /\ Cardinality(T) = Cardinality(G)
    <2>1. G \in SUBSET Recs  OBVIOUS
    <2> QED  BY ONLY <1>i, <2>1, AsManyCounters
  <1> HIDE DEF T
  <1>5. Orphans(Q, M) = Orphans(R, M) \cup T /\ Orphans(R, M) \cap T = {}
    BY <1>1, <1>2, <1>3 DEF Orphans
  <1>6. Cardinality(Orphans(Q, M)) = n + Cardinality(G)
    <2>1. IsFiniteSet(Orphans(R, M)) /\ Cardinality(Orphans(R, M)) \in Nat  BY OrphansFinite
    <2>2. Cardinality(Orphans(R, M) \cup T)
            = Cardinality(Orphans(R, M)) + Cardinality(T) - Cardinality(Orphans(R, M) \cap T)
      BY <1>4, <2>1, FS_Union
    <2>3. Cardinality(Orphans(R, M) \cap T) = 0  BY <1>5, FS_EmptySet
    <2>4. Cardinality(T) \in Nat  BY <1>4, FS_CardinalityType
    <2>5. n = Cardinality(Orphans(R, M))  BY DEF MemSide
    <2> QED  BY <1>4, <1>5, <2>1, <2>2, <2>3, <2>4, <2>5
  <1>7. OwnCounters(Q, M, W \cup T)  BY DEF OwnCounters
  <1>8. InUse(Q, M, W \cup T, u)
    <2>1. \A x : x \in W \cup T \/ Owned(Q, x) <=> x \in W \/ Owned(R, x)  BY <1>1, <1>2
    <2> QED  BY <1>3, <1>o, <2>1 DEF InUse
  <1> QED  BY <1>6, <1>7, <1>8 DEF MemSide, T

\* The free list without the counter that is given out.
LEMMA FreeTaken ==
    ASSUME NEW M, NEW N, NEW f \in Seq(Pool), NEW g, FreeRight(M, f),
           NEW m \in Mems, N[m].st = "used", \A x \in Mems \ {m} : N[x] = M[x],
           IF m \in Pool THEN f # <<>> /\ m = Head(f) /\ g = Tail(f) ELSE g = f
    PROVE  FreeRight(N, g) /\ g \in Seq(Pool)
  <1>p. \A x \in Pool : x \in Mems  BY LruAssumption, BoundAssumption DEF Pool, Mems
  <1>f. /\ \A x \in Pool : M[x].st # "used" =>
              M[x] = [st |-> "free", refs |-> 1] /\ \E i \in 1..Len(f) : f[i] = x
        /\ \A i \in 1..Len(f) : f[i] \in Pool /\ M[f[i]].st = "free"
        /\ \A i, j \in 1..Len(f) : f[i] = f[j] => i = j
        /\ \A x \in Mems \ Pool : M[x].st # "free"
    BY DEF FreeRight
  <1>1. CASE m \in Pool
    <2>0. f # <<>> /\ m = Head(f) /\ g = Tail(f)  BY <1>1
    <2>g. /\ Len(f) \in Nat /\ Len(g) = Len(f) - 1 /\ g \in Seq(Pool)
          /\ f[1] = m /\ 1 \in 1..Len(f)
          /\ \A i \in 1..Len(g) : g[i] = f[i + 1] /\ i + 1 \in 1..Len(f)
          /\ \A i \in 2..Len(f) : g[i - 1] = f[i] /\ i - 1 \in 1..Len(g)
      BY ONLY f \in Seq(Pool), <2>0
    <2>1. ASSUME NEW x \in Pool, N[x].st # "used"
          PROVE  N[x] = [st |-> "free", refs |-> 1] /\ \E i \in 1..Len(g) : g[i] = x
      <3>1. x # m /\ N[x] = M[x]  BY <1>p, <2>1
      <3>2. PICK i \in 1..Len(f) : f[i] = x  BY <1>f, <2>1, <3>1
      <3>3. i \in 2..Len(f)  BY <2>g, <3>1, <3>2
      <3> QED  BY <1>f, <2>1, <2>g, <3>1, <3>2, <3>3
    <2>2. ASSUME NEW i \in 1..Len(g) PROVE N[g[i]].st = "free"
      <3>1. g[i] = f[i + 1] /\ i + 1 \in 1..Len(f) /\ i + 1 # 1  BY <2>g
      <3>2. g[i] \in Pool /\ M[g[i]].st = "free" /\ g[i] # m  BY <1>f, <2>g, <3>1
      <3> QED  BY <1>p, <3>2
    <2>3. ASSUME NEW i \in 1..Len(g), NEW j \in 1..Len(g), g[i] = g[j] PROVE i = j
      <3>1. i + 1 \in 1..Len(f) /\ j + 1 \in 1..Len(f) /\ f[i + 1] = f[j + 1]  BY <2>3, <2>g
      <3>2. i + 1 = j + 1  BY <1>f, <3>1
      <3> QED  BY <3>2
    <2>4. \A x \in Mems \ Pool : N[x].st # "free"  BY <1>1, <1>f
    <2> QED  BY <2>1, <2>2, <2>3, <2>4, <2>g DEF FreeRight
  <1>2. CASE m \notin Pool
    <2>0. g = f  BY <1>2
    <2>1. ASSUME NEW x \in Pool, N[x].st # "used"
          PROVE  N[x] = [st |-> "free", refs |-> 1] /\ \E i \in 1..Len(f) : f[i] = x
      BY <1>2, <1>f, <1>p, <2>1
    <2>2. \A i \in 1..Len(f) : N[f[i]].st = "free"  BY <1>f, <1>p, <1>2
    <2>3. \A x \in Mems \ Pool : N[x].st # "free"  BY <1>f
    <2> QED  BY <1>f, <2>0, <2>1, <2>2, <2>3 DEF FreeRight
  <1> QED  BY <1>1, <1>2

-----------------------------------------------------------------------------
(* What the helpers do to the variables. *)

\* percpu_ref_put() of one or two references.
LEMMA PutEffect ==
    ASSUME TypeOK, NEW V \in SUBSET Mems, NEW m \in Mems, NEW d \in {1, 2},
           Becomes(MemPutN([State EXCEPT !.works = V], m, d))
    PROVE  /\ UNCHANGED <<recs, lru>> /\ works' = V
           /\ mem[m].refs = d =>
                /\ mem' \in [Mems -> Counters]
                /\ mem'[m] = IF m \in Pool THEN [st |-> "free", refs |-> 1]
                             ELSE [st |-> "none", refs |-> 0]
                /\ \A x \in Mems \ {m} : mem'[x] = mem[x]
                /\ free_list' = IF m \in Pool THEN <<m>> \o free_list ELSE free_list
                /\ pending' = pending - 1
           /\ mem[m].refs # d =>
                /\ mem' \in [Mems -> Counters]
                /\ mem'[m].st = mem[m].st /\ mem'[m].refs = mem[m].refs - d
                /\ \A x \in Mems \ {m} : mem'[x] = mem[x]
                /\ UNCHANGED <<free_list, pending>>
  <1>0. mem \in [Mems -> Counters] /\ mem[m] \in Counters  BY DEF TypeOK
  <1> DEFINE s == [State EXCEPT !.works = V]
  <1>1. /\ s = [recs |-> recs, lru |-> lru, mem |-> mem, free |-> free_list,
                works |-> V, pending |-> pending]
    BY DEF State
  <1> HIDE DEF s
  <1>2. CASE mem[m].refs = d
    <2> DEFINE z == [s EXCEPT !.mem[m].refs = 0]
               e == IF m \in Pool THEN [st |-> "free", refs |-> 1]
                    ELSE [st |-> "none", refs |-> 0]
               M == [mem EXCEPT ![m].refs = 0]
    <2>1. z = [recs |-> recs, lru |-> lru, mem |-> M, free |-> free_list,
               works |-> V, pending |-> pending]
      BY <1>1
    <2>2. M \in [Mems -> Counters] /\ \A x \in Mems \ {m} : M[x] = mem[x]
      BY <1>0 DEF Counters
    <2>3. Becomes(MemRelease(z, m))  BY <1>1, <1>2 DEF MemPutN, s
    <2> HIDE DEF z, M
    <2>4. /\ recs' = recs /\ lru' = lru /\ works' = V
          /\ mem' = [M EXCEPT ![m] = e]
          /\ free_list' = IF m \in Pool THEN <<m>> \o free_list ELSE free_list
          /\ pending' = pending - 1
      BY <2>1, <2>3 DEF Becomes, MemRelease
    <2>5. e \in Counters  BY DEF Counters
    <2> HIDE DEF e
    <2>6. mem' \in [Mems -> Counters] /\ mem'[m] = e /\ \A x \in Mems \ {m} : mem'[x] = mem[x]
      BY <2>2, <2>4, <2>5
    <2> QED  BY <1>2, <2>4, <2>6 DEF e
  <1>3. CASE mem[m].refs # d
    <2>1. Becomes([s EXCEPT !.mem[m].refs = @ - d])  BY <1>1, <1>3 DEF MemPutN, s
    <2>2. /\ recs' = recs /\ lru' = lru /\ works' = V /\ free_list' = free_list
          /\ pending' = pending /\ mem' = [mem EXCEPT ![m].refs = @ - d]
      BY <1>1, <2>1 DEF Becomes
    <2>3. mem[m].refs - d \in Int  BY <1>0 DEF Counters
    <2>4. /\ mem' \in [Mems -> Counters]
          /\ mem'[m].st = mem[m].st /\ mem'[m].refs = mem[m].refs - d
          /\ \A x \in Mems \ {m} : mem'[x] = mem[x]
      BY <1>0, <2>2, <2>3 DEF Counters
    <2> QED  BY <1>3, <2>2, <2>4
  <1> QED  BY <1>2, <1>3

\* tfw_client_free().
LEMMA FreeEffect ==
    ASSUME TypeOK, NEW r \in Recs, Becomes(RecFree(State, r))
    PROVE  /\ recs' \in [Recs -> Clients]
           /\ recs'[r].st = "freed" /\ \A q \in Recs \ {r} : recs'[q] = recs[q]
           /\ works' = works \cup {recs[r].mem} /\ pending' = pending + 1
           /\ UNCHANGED <<lru, mem, free_list>>
  <1>1. /\ recs' = [recs EXCEPT ![r] = [@ EXCEPT !.st = "freed", !.linked = FALSE]]
        /\ works' = works \cup {recs[r].mem} /\ pending' = pending + 1
        /\ UNCHANGED <<lru, mem, free_list>>
    BY DEF Becomes, RecFree, State
  <1>2. recs \in [Recs -> Clients] /\ recs[r] \in Clients  BY DEF TypeOK
  <1>3. [recs[r] EXCEPT !.st = "freed", !.linked = FALSE] \in Clients  BY <1>2 DEF Clients
  <1> QED  BY <1>1, <1>2, <1>3 DEF Clients

\* A client as frang_conn_new() leaves it.
NewClient(a, m) == [st |-> "live", addr |-> a, refcnt |-> 2, linked |-> TRUE,
                    curr |-> 1, mem |-> m]

\* What becomes of a client that leaves the list.
Put(c) == IF c.refcnt = 1 THEN [[c EXCEPT !.refcnt = 0] EXCEPT !.st = "freed", !.linked = FALSE]
          ELSE [c EXCEPT !.refcnt = @ - 1]

LEMMA PutResult ==
    ASSUME NEW c \in Clients
    PROVE  /\ Put(c) \in Clients /\ Put(c).mem = c.mem
           /\ c.refcnt = 1 => Put(c).st = "freed"
           /\ c.refcnt # 1 => /\ Put(c).st = c.st /\ Put(c).refcnt = c.refcnt - 1
                              /\ Put(c).curr = c.curr
  <1>1. CASE c.refcnt = 1
    <2> DEFINE z == [c EXCEPT !.refcnt = 0]
    <2>1. Put(c) = [z EXCEPT !.st = "freed", !.linked = FALSE]  BY <1>1 DEF Put
    <2>z. z \in Clients /\ z.mem = c.mem  BY DEF Clients
    <2> HIDE DEF z
    <2>2. [z EXCEPT !.st = "freed", !.linked = FALSE] \in Clients  BY <2>z DEF Clients
    <2>3. Put(c).mem = c.mem /\ Put(c).st = "freed"  BY <2>1, <2>z DEF Clients
    <2> QED  BY <1>1, <2>1, <2>2, <2>3
  <1>2. CASE c.refcnt # 1
    <2>1. Put(c) = [c EXCEPT !.refcnt = @ - 1]  BY <1>2 DEF Put
    <2> QED  BY <1>2, <2>1 DEF Clients
  <1> QED  BY <1>1, <1>2

\* The state as a record of its parts.
Parts(R, l, M, f, W, n) ==
    [recs |-> R, lru |-> l, mem |-> M, free |-> f, works |-> W, pending |-> n]

WithCurr(s, r) == [s EXCEPT !.recs[r].curr = 1]
WithList(s, g) == [s EXCEPT !.lru = g]

LEMMA PartsBecome ==
    ASSUME NEW R, NEW l, NEW M, NEW f, NEW W, NEW n, NEW r,
           Becomes(WithCurr(Parts(R, l, M, f, W, n), r))
    PROVE  /\ recs' = [R EXCEPT ![r].curr = 1] /\ lru' = l /\ mem' = M
           /\ free_list' = f /\ works' = W /\ pending' = n
  BY DEF Becomes, Parts, WithCurr

LEMMA PartsWithList ==
    ASSUME NEW R, NEW l, NEW M, NEW f, NEW W, NEW n, NEW g
    PROVE  WithList(Parts(R, l, M, f, W, n), g) = Parts(R, g, M, f, W, n)
  BY DEF Parts, WithList

\* tfw_client_ent_init() with tfw_client_update_lru().
LEMMA NewEffect ==
    ASSUME TypeOK, NEW r \in Recs, NEW a \in Addrs, NEW m \in Mems,
           \A i \in 1..Len(lru) : lru[i] # r,
           Becomes([RecNew(State, r, a, m) EXCEPT !.recs[r].curr = 1])
    PROVE  /\ mem' = [mem EXCEPT ![m] = [st |-> "used", refs |-> IF m \in Pool THEN mem[m].refs + 1 ELSE 2]]
           /\ free_list' = IF m \in Pool THEN Tail(free_list) ELSE free_list
           /\ \/ /\ recs' = [recs EXCEPT ![r] = NewClient(a, m)]
                 /\ lru' = <<r>> \o lru /\ UNCHANGED <<works, pending>>
              \/ LET q == lru[Len(lru)] IN
                 /\ lru # <<>> /\ lru' = <<r>> \o SubSeq(lru, 1, Len(lru) - 1)
                 /\ recs' = [[recs EXCEPT ![q] = Put(recs[q])] EXCEPT ![r] = NewClient(a, m)]
                 /\ IF recs[q].refcnt = 1
                    THEN works' = works \cup {recs[q].mem} /\ pending' = pending + 1
                    ELSE UNCHANGED <<works, pending>>
  <1>0. recs \in [Recs -> Clients] /\ lru \in Seq(Recs)  BY DEF TypeOK
  <1> DEFINE c0 == [st |-> "live", addr |-> a, refcnt |-> 2, linked |-> TRUE, curr |-> 0, mem |-> m]
             R0 == [recs EXCEPT ![r] = c0]
             e0 == [st |-> "used", refs |-> IF m \in Pool THEN mem[m].refs + 1 ELSE 2]
             M0 == [mem EXCEPT ![m] = e0]
             f0 == IF m \in Pool THEN Tail(free_list) ELSE free_list
             s0 == Parts(R0, lru, M0, f0, works, pending)
  <1>s. /\ State.recs = recs /\ State.lru = lru /\ State.mem = mem /\ State.free = free_list
        /\ State.works = works /\ State.pending = pending
    BY DEF State
  <1>1. s0 = Parts(R0, lru, M0, f0, works, pending)  OBVIOUS
  <1>2. Becomes(WithCurr(UpdateLru(s0, r), r))
    <2>1. Becomes(WithCurr(RecNew(State, r, a, m), r))  BY DEF WithCurr
    <2>2. RecNew(State, r, a, m) = UpdateLru(s0, r)  BY <1>s DEF RecNew, Parts
    <2> QED  BY <2>1, <2>2
  <1>3. R0[r] = c0 /\ [c0 EXCEPT !.curr = 1] = NewClient(a, m) /\ [R0 EXCEPT ![r].curr = 1] = [recs EXCEPT ![r] = NewClient(a, m)]
    BY <1>0 DEF NewClient
  <1>4. \A q \in Recs \ {r} : R0[q] = recs[q]  BY <1>0
  <1> HIDE DEF s0, R0, M0, f0, c0, e0
  <1>5. CASE ~(Len(lru) >= LruSize)
    <2>1. UpdateLru(s0, r) = WithList(s0, <<r>> \o lru)  BY <1>1, <1>5 DEF UpdateLru, Parts, WithList
    <2>2. UpdateLru(s0, r) = Parts(R0, <<r>> \o lru, M0, f0, works, pending)
      BY <1>1, <2>1, PartsWithList
    <2>3. /\ recs' = [R0 EXCEPT ![r].curr = 1] /\ lru' = <<r>> \o lru /\ mem' = M0
          /\ free_list' = f0 /\ works' = works /\ pending' = pending
      BY <1>2, <2>2, PartsBecome
    <2> QED  BY <1>3, <2>3 DEF M0, e0, f0
  <1>6. CASE Len(lru) >= LruSize
    <2> DEFINE q == lru[Len(lru)]
               l0 == <<r>> \o SubSeq(lru, 1, Len(lru) - 1)
               s1 == Parts(R0, l0, M0, f0, works, pending)
    <2>1. Len(lru) \in Nat /\ Len(lru) # 0 /\ lru # <<>>  BY <1>0, <1>6, LruAssumption
    <2>2. q \in Recs \ {r} /\ R0[q] = recs[q]  BY <1>0, <1>4, <2>1
    <2>3. UpdateLru(s0, r) = RecPut(WithList(s0, l0), q)  BY <1>1, <1>6 DEF UpdateLru, Parts, WithList
    <2>4. WithList(s0, l0) = s1  BY <1>1, PartsWithList
    <2>5. UpdateLru(s0, r) = RecPut(s1, q)  BY <2>3, <2>4
    <2> HIDE DEF q, l0
    <2>6. CASE recs[q].refcnt = 1
      <3>1. RecPut(s1, q) = RecFree([s1 EXCEPT !.recs[q].refcnt = 0], q)
        BY <2>2, <2>6 DEF RecPut, Parts
      <3> DEFINE R1 == [R0 EXCEPT ![q].refcnt = 0]
                 R2 == [R1 EXCEPT ![q] = [@ EXCEPT !.st = "freed", !.linked = FALSE]]
      <3>2. [s1 EXCEPT !.recs[q].refcnt = 0]
              = Parts(R1, l0, M0, f0, works, pending)
        BY DEF Parts
      <3>m. R1[q].mem = recs[q].mem /\ R2 = [R0 EXCEPT ![q] = Put(recs[q])]
        BY <1>0, <2>2, <2>6 DEF Put, R0, Clients
      <3> HIDE DEF R1
      <3>3. RecPut(s1, q) = Parts(R2, l0, M0, f0, works \cup {R1[q].mem}, pending + 1)
        BY <3>1, <3>2, ZenonT(60) DEF RecFree, Parts
      <3> HIDE DEF R2
      <3>4. /\ recs' = [R2 EXCEPT ![r].curr = 1] /\ lru' = l0 /\ mem' = M0 /\ free_list' = f0
            /\ works' = works \cup {recs[q].mem} /\ pending' = pending + 1
        <4> DEFINE W2 == works \cup {R1[q].mem}
                   n2 == pending + 1
        <4>1. RecPut(s1, q) = Parts(R2, l0, M0, f0, W2, n2)  BY <3>3
        <4> HIDE DEF W2, n2
        <4>2. Becomes(WithCurr(Parts(R2, l0, M0, f0, W2, n2), r))  BY <1>2, <2>5, <4>1
        <4>3. /\ recs' = [R2 EXCEPT ![r].curr = 1] /\ lru' = l0 /\ mem' = M0 /\ free_list' = f0
              /\ works' = W2 /\ pending' = n2
          BY ONLY <4>2, PartsBecome
        <4> QED  BY <3>m, <4>3 DEF W2, n2
      <3>5. recs' = [[recs EXCEPT ![q] = Put(recs[q])] EXCEPT ![r] = NewClient(a, m)]
        BY <1>0, <1>3, <2>2, <3>4, <3>m DEF R0
      <3> QED  BY <2>1, <2>6, <3>4, <3>5 DEF q, l0, M0, e0, f0
    <2>7. CASE recs[q].refcnt # 1
      <3> DEFINE R1 == [R0 EXCEPT ![q].refcnt = @ - 1]
      <3>1. RecPut(s1, q) = [s1 EXCEPT !.recs[q].refcnt = @ - 1]
        BY <2>2, <2>7 DEF RecPut, Parts
      <3>2. RecPut(s1, q) = Parts(R1, l0, M0, f0, works, pending)
        BY <3>1 DEF Parts
      <3>m. R1 = [R0 EXCEPT ![q] = Put(recs[q])]
        BY <1>0, <2>2, <2>7 DEF Put, R0
      <3> HIDE DEF R1
      <3>4. /\ recs' = [R1 EXCEPT ![r].curr = 1] /\ lru' = l0 /\ mem' = M0 /\ free_list' = f0
            /\ works' = works /\ pending' = pending
        BY <1>2, <2>5, <3>2, PartsBecome
      <3>5. recs' = [[recs EXCEPT ![q] = Put(recs[q])] EXCEPT ![r] = NewClient(a, m)]
        BY <1>0, <1>3, <2>2, <3>4, <3>m DEF R0
      <3> QED  BY <2>1, <2>7, <3>4, <3>5 DEF q, l0, M0, e0, f0
    <2> QED  BY <2>6, <2>7
  <1> QED  BY <1>5, <1>6

-----------------------------------------------------------------------------
(* The steps. *)

\* The parts of the invariant as the lemmas take them.
LEMMA IInvParts ==
    IInv <=> /\ TypeOK /\ Referenced(recs, lru, sk) /\ (~raced => Dropped(recs, sk))
             /\ MemSide(recs, mem, free_list, works, pending, buf) /\ Stopped
  BY DEF IInv, MemSide

LEMMA IInvParts2 ==
    IInv' <=> /\ TypeOK' /\ Referenced(recs', lru', sk') /\ (~raced' => Dropped(recs', sk'))
              /\ MemSide(recs', mem', free_list', works', pending', buf') /\ Stopped'
  BY DEF IInv, MemSide

\* Facts about types that the steps need.
LEMMA Typed ==
    ASSUME TypeOK
    PROVE  /\ SocketsOK(sk) /\ \A i \in 1..Len(lru) : lru[i] \in Recs
           /\ \A s \in Socks : sk[s] # NoSk => sk[s].st \in {"open", "put"} /\ sk[s].rec \in Recs
           /\ NoSk.st = "none"
           /\ \A b \in Bufs : buf[b] = 0 \/ buf[b] \in Mems
           /\ 0 \notin Mems
           /\ \A r \in Recs : recs[r] \in Clients
  <1>1. NoSk.st = "none"  BY DEF NoSk
  <1>2. ASSUME NEW s \in Socks
        PROVE  \/ sk[s] = NoSk
               \/ sk[s].st \in {"open", "put"} /\ sk[s].rec \in Recs
    <2>1. sk[s] \in Sockets  BY DEF TypeOK
    <2> QED  BY <2>1 DEF Sockets
  <1>3. \A i \in 1..Len(lru) : lru[i] \in Recs  BY DEF TypeOK
  <1>4. 0 \notin Mems  BY LruAssumption, BoundAssumption DEF Mems
  <1>5. SocketsOK(sk)  BY <1>1, <1>2 DEF SocketsOK
  <1>6. \A b \in Bufs : buf[b] = 0 \/ buf[b] \in Mems  BY DEF TypeOK
  <1>7. \A r \in Recs : recs[r] \in Clients  BY DEF TypeOK
  <1> QED  BY <1>1, <1>2, <1>3, <1>4, <1>5, <1>6, <1>7

\* While a socket is in use the system has not gone beyond closing sockets.
LEMMA NotStopped ==
    ASSUME TypeOK, Stopped, stage \notin {"wait", "down"}, stage' = stage
    PROVE  Stopped'
  BY DEF Stopped

\* frang_conn_new() with a known client.
LEMMA KnownStep ==
    ASSUME IInv, NEW s \in Socks, NEW a \in Addrs, ConnKnown(s, a)
    PROVE  IInv'
  <1>0. TypeOK /\ ~raced /\ stage = "run" /\ sk[s] = NoSk  BY DEF IInv, ConnKnown
  <1>1. PICK r \in Found(a) :
            /\ recs' = [recs EXCEPT ![r].refcnt = @ + 1, ![r].curr = @ + 1]
            /\ sk' = [sk EXCEPT ![s] = [st |-> "open", rec |-> r]]
            /\ raced' = (recs[r].refcnt = 0)
    BY DEF ConnKnown
  <1>2. UNCHANGED <<lru, mem, free_list, works, pending, buf, stage>>  BY DEF ConnKnown
  <1>3. r \in Recs /\ recs[r].st = "live"  BY DEF Found
  <1>t. recs[r] \in Clients /\ NoSk.st = "none"  BY <1>0, <1>3, Typed
  <1>4. /\ recs' \in [Recs -> Clients]
        /\ recs'[r].st = "live" /\ recs'[r].refcnt = recs[r].refcnt + 1
        /\ recs'[r].curr = recs[r].curr + 1
        /\ recs'[r].mem = recs[r].mem
        /\ \A q \in Recs \ {r} : recs'[q] = recs[q]
    BY <1>0, <1>1, <1>3, <1>t DEF TypeOK, Clients
  <1>5. /\ sk' \in [Socks -> Sockets]
        /\ sk'[s].st = "open" /\ sk'[s].rec = r /\ \A t \in Socks \ {s} : sk'[t] = sk[t]
    <2>1. [st |-> "open", rec |-> r] \in Sockets  BY <1>3 DEF Sockets
    <2> QED  BY <1>0, <1>1, <2>1 DEF TypeOK
  <1>6. TypeOK'  BY <1>0, <1>1, <1>2, <1>4, <1>5 DEF TypeOK
  <1>7. Referenced(recs', lru, sk') /\ (recs[r].refcnt # 0 => Dropped(recs', sk'))
    <2>1. /\ Referenced(recs, lru, sk) /\ Dropped(recs, sk) /\ SocketsOK(sk)
          /\ \A i \in 1..Len(lru) : lru[i] \in Recs
      BY <1>0, Typed DEF IInv
    <2>2. s \in Socks /\ sk[s].st = "none"  BY <1>0, <1>t
    <2>3. Opens(recs, recs', sk, sk', r, s)  BY <1>3, <1>4, <1>5, <2>2 DEF Opens
    <2> QED  BY ONLY <1>3, <2>1, <2>2, <2>3, ClientReferenced
  <1>8. MemSide(recs', mem, free_list, works, pending, buf)
    <2>1. \A q \in Recs : SameOwner(recs'[q], recs[q])  BY <1>3, <1>4 DEF SameOwner
    <2>2. MemSide(recs, mem, free_list, works, pending, buf)  BY IInvParts
    <2> QED  BY ONLY <2>1, <2>2, OwnersKept
  <1>9. Stopped'  BY <1>0, <1>2, NotStopped DEF IInv
  <1> QED  BY <1>1, <1>2, <1>6, <1>7, <1>8, <1>9, IInvParts2

\* tfw_classify_conn_close().
LEMMA CloseStep ==
    ASSUME IInv, NEW s \in Socks, ConnClose(s)
    PROVE  IInv'
  <1> DEFINE r == sk[s].rec
  <1>0. TypeOK /\ ~raced /\ sk[s].st = "open"  BY DEF IInv, ConnClose
  <1>1. /\ recs' = [recs EXCEPT ![r].curr = @ - 1, ![r].refcnt = @ - 1]
        /\ sk' = [sk EXCEPT ![s] = IF recs[r].refcnt = 1 THEN [st |-> "put", rec |-> r]
                                   ELSE NoSk]
        /\ UNCHANGED <<lru, mem, free_list, works, pending, buf, stage, raced>>
    BY DEF ConnClose
  <1>n. NoSk.st = "none" /\ sk[s] # NoSk  BY <1>0, Typed
  <1>3. r \in Recs /\ recs[r].st = "live"
    <2>1. r \in Recs  BY <1>0, <1>n, Typed
    <2> QED  BY <1>0, <2>1 DEF IInv, Referenced
  <1> HIDE DEF r
  <1>t. recs[r] \in Clients  BY <1>0, <1>3, Typed
  <1>4. /\ recs' \in [Recs -> Clients]
        /\ recs'[r].st = "live" /\ recs'[r].refcnt = recs[r].refcnt - 1
        /\ recs'[r].curr = recs[r].curr - 1
        /\ recs'[r].mem = recs[r].mem
        /\ \A q \in Recs \ {r} : recs'[q] = recs[q]
    BY <1>0, <1>1, <1>3, <1>t DEF TypeOK, Clients
  <1>5. /\ sk' \in [Socks -> Sockets]
        /\ IF recs[r].refcnt = 1 THEN sk'[s].st = "put" /\ sk'[s].rec = r ELSE sk'[s].st = "none"
        /\ \A t \in Socks \ {s} : sk'[t] = sk[t]
    <2>1. [st |-> "put", rec |-> r] \in Sockets /\ NoSk \in Sockets  BY <1>3 DEF Sockets
    <2> QED  BY <1>0, <1>1, <1>n, <2>1 DEF TypeOK
  <1>6. TypeOK'  BY <1>0, <1>1, <1>4, <1>5 DEF TypeOK
  <1>7. Referenced(recs', lru, sk') /\ Dropped(recs', sk')
    <2>1. /\ Referenced(recs, lru, sk) /\ Dropped(recs, sk) /\ SocketsOK(sk)
          /\ \A i \in 1..Len(lru) : lru[i] \in Recs
      BY <1>0, Typed DEF IInv
    <2>2. s \in Socks /\ sk[s].st = "open" /\ sk[s].rec = r  BY <1>0 DEF r
    <2>3. Closes(recs, recs', sk, sk', r, s)  BY <1>3, <1>4, <1>5, <2>2 DEF Closes
    <2> QED  BY ONLY <1>3, <2>1, <2>2, <2>3, ClientClosed
  <1>8. MemSide(recs', mem, free_list, works, pending, buf)
    <2>1. \A q \in Recs : SameOwner(recs'[q], recs[q])  BY <1>3, <1>4 DEF SameOwner
    <2>2. MemSide(recs, mem, free_list, works, pending, buf)  BY IInvParts
    <2> QED  BY ONLY <2>1, <2>2, OwnersKept
  <1>9. Stopped'
    <2>1. stage \notin {"wait", "down"}  BY <1>n DEF IInv, Stopped
    <2> QED  BY <1>0, <1>1, <2>1, NotStopped DEF IInv
  <1> QED  BY <1>1, <1>6, <1>7, <1>8, <1>9, IInvParts2

\* The socket with the last reference frees the client.
LEMMA FreeStep ==
    ASSUME IInv, NEW s \in Socks, ConnFree(s)
    PROVE  IInv'
  <1> DEFINE r == sk[s].rec
  <1>0. TypeOK /\ ~raced /\ sk[s].st = "put"  BY DEF IInv, ConnFree
  <1>1. /\ Becomes(RecFree(State, r))
        /\ sk' = [sk EXCEPT ![s] = NoSk] /\ UNCHANGED <<buf, stage, raced>>
    BY DEF ConnFree
  <1>n. NoSk.st = "none" /\ sk[s] # NoSk  BY <1>0, Typed
  <1>3. r \in Recs  BY <1>0, <1>n, Typed
  <1> HIDE DEF r
  <1>4. /\ recs' \in [Recs -> Clients]
        /\ recs'[r].st = "freed" /\ \A q \in Recs \ {r} : recs'[q] = recs[q]
        /\ works' = works \cup {recs[r].mem} /\ pending' = pending + 1
        /\ UNCHANGED <<lru, mem, free_list>>
    BY <1>0, <1>1, <1>3, FreeEffect
  <1>5. /\ sk' \in [Socks -> Sockets] /\ sk'[s].st = "none"
        /\ \A t \in Socks \ {s} : sk'[t] = sk[t]
    <2>1. NoSk \in Sockets  BY DEF Sockets
    <2> QED  BY <1>0, <1>1, <1>n, <2>1 DEF TypeOK
  <1>7. recs[r].st = "live" /\ Referenced(recs', lru, sk') /\ Dropped(recs', sk')
    <2>1. /\ Referenced(recs, lru, sk) /\ Dropped(recs, sk) /\ SocketsOK(sk)
          /\ \A i \in 1..Len(lru) : lru[i] \in Recs
      BY <1>0, Typed DEF IInv
    <2>2. s \in Socks /\ sk[s].st = "put" /\ sk[s].rec = r  BY <1>0 DEF r
    <2> QED  BY ONLY <1>3, <1>4, <1>5, <2>1, <2>2, ClientFreed
  <1>m. recs[r].mem \in Mems  BY <1>3, <1>7 DEF IInv, OwnCounters
  <1>6. TypeOK'  BY <1>0, <1>1, <1>4, <1>5, <1>m DEF TypeOK
  <1>8. MemSide(recs', mem, free_list, works', pending', buf)
    <2>1. \A q \in Recs \ {r} : SameOwner(recs'[q], recs[q])  BY <1>4 DEF SameOwner
    <2>2. MemSide(recs, mem, free_list, works, pending, buf)  BY IInvParts
    <2>3. MemSide(recs', mem, free_list, works \cup {recs[r].mem}, pending + 1, buf)
      BY ONLY <1>3, <1>4, <1>7, <2>1, <2>2, OwnerFreed
    <2> QED  BY <1>4, <2>3
  <1>9. Stopped'
    <2>1. stage \notin {"wait", "down"}  BY <1>n DEF IInv, Stopped
    <2> QED  BY <1>0, <1>1, <2>1, NotStopped DEF IInv
  <1> QED  BY <1>1, <1>4, <1>6, <1>7, <1>8, <1>9, IInvParts2

\* A counter that is not in use is taken from the pool or from the slab cache.
LEMMA TakenEffect ==
    ASSUME IInv, NEW m \in MemAlloc(State), m # 0
    PROVE  /\ m \in Mems /\ mem[m].st # "used"
           /\ IF m \in Pool THEN free_list # <<>> /\ m = Head(free_list) /\ mem[m].refs = 1
              ELSE TRUE
  <1>0. TypeOK /\ FreeRight(mem, free_list)  BY DEF IInv
  <1>p. \A x \in Pool : x \in Mems  BY LruAssumption, BoundAssumption DEF Pool, Mems
  <1>1. CASE free_list # <<>>
    <2>1. m = Head(free_list)  BY <1>1 DEF MemAlloc, State
    <2>2. free_list \in Seq(Pool)  BY <1>0 DEF TypeOK
    <2>3. m = free_list[1] /\ 1 \in 1..Len(free_list) /\ m \in Pool  BY <1>1, <2>1, <2>2
    <2>4. mem[m].st = "free"  BY <1>0, <2>3 DEF FreeRight
    <2>5. mem[m] = [st |-> "free", refs |-> 1]  BY <1>0, <2>3, <2>4 DEF FreeRight
    <2> QED  BY <1>1, <1>p, <2>1, <2>3, <2>4, <2>5
  <1>2. CASE free_list = <<>>
    <2>1. m \in Mems \ Pool /\ mem[m].st = "none"  BY <1>2 DEF MemAlloc, State
    <2> QED  BY <2>1
  <1> QED  BY <1>1, <1>2

\* frang_conn_new() with a new client.
LEMMA NewStep ==
    ASSUME IInv, NEW s \in Socks, NEW a \in Addrs, ConnNew(s, a)
    PROVE  IInv'
  <1>0. /\ TypeOK /\ ~raced /\ stage = "run" /\ sk[s] = NoSk
        /\ UNCHANGED <<buf, stage, raced>>
    BY DEF IInv, ConnNew
  <1>1. PICK r \in Recs, m \in MemAlloc(State) :
            /\ recs[r] = NoRec /\ m # 0
            /\ Becomes([RecNew(State, r, a, m) EXCEPT !.recs[r].curr = 1])
            /\ sk' = [sk EXCEPT ![s] = [st |-> "open", rec |-> r]]
    BY DEF ConnNew
  <1>2. /\ m \in Mems /\ mem[m].st # "used"
        /\ m \in Pool => free_list # <<>> /\ m = Head(free_list) /\ mem[m].refs = 1
    BY <1>1, TakenEffect
  <1>t. /\ NoSk.st = "none" /\ SocketsOK(sk) /\ recs \in [Recs -> Clients]
        /\ \A i \in 1..Len(lru) : lru[i] \in Recs
    BY <1>0, Typed DEF TypeOK
  <1>r. recs[r].st = "none"  BY <1>1 DEF NoRec
  <1>l. \A i \in 1..Len(lru) : lru[i] # r  BY <1>r DEF IInv, Referenced
  <1>e. /\ mem' = [mem EXCEPT ![m] = [st |-> "used", refs |-> IF m \in Pool THEN mem[m].refs + 1 ELSE 2]]
        /\ free_list' = IF m \in Pool THEN Tail(free_list) ELSE free_list
        /\ \/ /\ recs' = [recs EXCEPT ![r] = NewClient(a, m)]
              /\ lru' = <<r>> \o lru /\ UNCHANGED <<works, pending>>
           \/ LET q == lru[Len(lru)] IN
              /\ lru # <<>> /\ lru' = <<r>> \o SubSeq(lru, 1, Len(lru) - 1)
              /\ recs' = [[recs EXCEPT ![q] = Put(recs[q])] EXCEPT ![r] = NewClient(a, m)]
              /\ IF recs[q].refcnt = 1
                 THEN works' = works \cup {recs[q].mem} /\ pending' = pending + 1
                 ELSE UNCHANGED <<works, pending>>
    BY <1>0, <1>1, <1>2, <1>l, NewEffect
  <1>c. /\ NewClient(a, m) \in Clients
        /\ NewClient(a, m).st = "live" /\ NewClient(a, m).refcnt = 2
        /\ NewClient(a, m).curr = 1 /\ NewClient(a, m).mem = m
    BY <1>2 DEF NewClient, Clients
  <1>m. /\ mem' \in [Mems -> Counters] /\ mem'[m].st = "used" /\ mem'[m].refs = 2
        /\ \A x \in Mems \ {m} : mem'[x] = mem[x]
    <2>0. (IF m \in Pool THEN mem[m].refs + 1 ELSE 2) = 2  BY <1>2
    <2>1. mem' = [mem EXCEPT ![m] = [st |-> "used", refs |-> 2]]  BY <1>e, <2>0
    <2>2. [st |-> "used", refs |-> 2] \in Counters  BY DEF Counters
    <2> QED  BY <1>0, <1>2, <2>1, <2>2 DEF TypeOK
  <1>f. FreeRight(mem', free_list') /\ free_list' \in Seq(Pool)
    <2>1. IF m \in Pool THEN free_list # <<>> /\ m = Head(free_list) /\ free_list' = Tail(free_list)
          ELSE free_list' = free_list
      BY <1>2, <1>e
    <2>2. free_list \in Seq(Pool) /\ FreeRight(mem, free_list)  BY <1>0 DEF TypeOK, IInv
    <2> QED  BY ONLY <1>2, <1>m, <2>1, <2>2, FreeTaken
  <1>k. /\ sk' \in [Socks -> Sockets] /\ sk[s].st = "none"
        /\ sk'[s].st = "open" /\ sk'[s].rec = r /\ \A t \in Socks \ {s} : sk'[t] = sk[t]
    <2>1. [st |-> "open", rec |-> r] \in Sockets  BY DEF Sockets
    <2> QED  BY <1>0, <1>1, <1>t, <2>1 DEF TypeOK
  <1>s. Stopped'  BY <1>0, NotStopped DEF IInv
  \* The client is added to a state that is right with list l and records R.
  <1>a. ASSUME NEW R \in [Recs -> Clients], NEW l \in Seq(Recs), Referenced(R, l, sk), Dropped(R, sk),
               MemSide(R, mem, free_list, works', pending', buf), works' \in SUBSET Mems, pending' \in Int,
               R[r].st = "none", recs' = [R EXCEPT ![r] = NewClient(a, m)], lru' = <<r>> \o l
        PROVE  IInv'
    <2>1. /\ recs' \in [Recs -> Clients] /\ recs'[r] = NewClient(a, m)
          /\ \A q \in Recs \ {r} : recs'[q] = R[q]
      BY <1>a, <1>c
    <2>2. lru' \in Seq(Recs)
      <3>1. l \in Seq(Recs) /\ r \in Recs /\ lru' = <<r>> \o l  BY <1>a
      <3> QED  BY ONLY <3>1, Prepended
    <2>3. TypeOK'  BY <1>0, <1>a, <1>f, <1>k, <1>m, <2>1, <2>2 DEF TypeOK
    <2>4. Referenced(recs', lru', sk') /\ Dropped(recs', sk')
      <3>1. Adds(R, recs', sk, sk', r, s)  BY <1>a, <1>c, <1>k, <2>1 DEF Adds
      <3>2. r \in Recs /\ s \in Socks  OBVIOUS
      <3> QED  BY ONLY <1>a, <1>t, <3>1, <3>2, ClientAdded
    <2>5. MemSide(recs', mem', free_list', works', pending', buf)
      <3>1. \A q \in Recs \ {r} : SameOwner(recs'[q], R[q])  BY <2>1 DEF SameOwner
      <3>2. /\ r \in Recs /\ recs'[r].st = "live" /\ recs'[r].mem = m
            /\ buf \in [Bufs -> Mems \cup {0}]
        BY <1>0, <1>c, <2>1 DEF TypeOK
      <3>3. GetsCounter(R, recs', mem, mem', r, m)
        BY <1>2, <1>a, <1>m, <3>1, <3>2 DEF GetsCounter
      <3> QED  BY ONLY <1>2, <1>a, <1>f, <3>2, <3>3, OwnerAdded
    <2> QED  BY <1>0, <1>s, <2>3, <2>4, <2>5, IInvParts2
  <1>i. /\ Referenced(recs, lru, sk) /\ Dropped(recs, sk) /\ lru \in Seq(Recs)
        /\ MemSide(recs, mem, free_list, works, pending, buf)
        /\ works \in SUBSET Mems /\ pending \in Int
    BY <1>0, IInvParts DEF TypeOK
  <1>3. CASE /\ recs' = [recs EXCEPT ![r] = NewClient(a, m)]
             /\ lru' = <<r>> \o lru /\ UNCHANGED <<works, pending>>
    BY <1>3, <1>a, <1>i, <1>r, <1>t
  <1>4. ASSUME NEW q, q = lru[Len(lru)],
               lru # <<>>, lru' = <<r>> \o SubSeq(lru, 1, Len(lru) - 1),
               recs' = [[recs EXCEPT ![q] = Put(recs[q])] EXCEPT ![r] = NewClient(a, m)],
               IF recs[q].refcnt = 1
                 THEN works' = works \cup {recs[q].mem} /\ pending' = pending + 1
                 ELSE UNCHANGED <<works, pending>>
        PROVE  IInv'
    <2> DEFINE l == SubSeq(lru, 1, Len(lru) - 1)
               R == [recs EXCEPT ![q] = Put(recs[q])]
    <2>1. AllButLast(lru, l) /\ l \in Seq(Recs)
      <3>1. lru \in Seq(Recs) /\ lru # <<>>  BY <1>4, <1>i
      <3> QED  BY ONLY <3>1, Shortened
    <2>2. q \in Recs /\ q # r
      <3>1. Len(lru) \in 1..Len(lru)  BY <2>1 DEF AllButLast
      <3> QED  BY <1>4, <1>l, <1>t, <3>1
    <2> HIDE DEF l
    <2>3. /\ Put(recs[q]) \in Clients /\ Put(recs[q]).mem = recs[q].mem
          /\ recs[q].refcnt = 1 => Put(recs[q]).st = "freed"
          /\ recs[q].refcnt # 1 => /\ Put(recs[q]).st = recs[q].st
                                   /\ Put(recs[q]).refcnt = recs[q].refcnt - 1
                                   /\ Put(recs[q]).curr = recs[q].curr
      <3>1. recs[q] \in Clients  BY <1>t, <2>2
      <3> QED  BY ONLY <3>1, PutResult
    <2>4. /\ R \in [Recs -> Clients] /\ R[q] = Put(recs[q]) /\ R[r].st = "none"
          /\ \A x \in Recs \ {q} : R[x] = recs[x]
      BY <1>r, <1>t, <2>2, <2>3
    <2>5. recs' = [R EXCEPT ![r] = NewClient(a, m)] /\ lru' = <<r>> \o l  BY <1>4 DEF l
    <2> HIDE DEF R
    <2>6. recs[q].st = "live" /\ Referenced(R, l, sk) /\ Dropped(R, sk)
      <3>1. Evicts(recs, R, q)  BY <2>3, <2>4 DEF Evicts
      <3> QED  BY ONLY <1>4, <1>i, <1>t, <2>1, <3>1, ClientEvicted, ZenonT(60)
    <2>7. recs[q].mem \in Mems  BY <2>2, <2>6 DEF IInv, OwnCounters
    <2>8. /\ MemSide(R, mem, free_list, works', pending', buf)
          /\ works' \in SUBSET Mems /\ pending' \in Int
      <3>s. \A x \in Recs \ {q} : SameOwner(R[x], recs[x])  BY <2>4 DEF SameOwner
      <3>1. CASE recs[q].refcnt = 1
        <4>1. works' = works \cup {recs[q].mem} /\ pending' = pending + 1  BY <1>4, <3>1
        <4>2. R[q].st = "freed"  BY <2>3, <2>4, <3>1
        <4>3. MemSide(R, mem, free_list, works \cup {recs[q].mem}, pending + 1, buf)
          BY ONLY <1>i, <2>2, <2>6, <3>s, <4>2, OwnerFreed
        <4> QED  BY <1>i, <2>7, <4>1, <4>3
      <3>2. CASE recs[q].refcnt # 1
        <4>1. works' = works /\ pending' = pending  BY <1>4, <3>2
        <4>2. SameOwner(R[q], recs[q])  BY <2>3, <2>4, <3>2 DEF SameOwner
        <4>3. \A x \in Recs : SameOwner(R[x], recs[x])  BY <3>s, <4>2
        <4>4. MemSide(R, mem, free_list, works, pending, buf)  BY ONLY <1>i, <4>3, OwnersKept
        <4> QED  BY <1>i, <4>1, <4>4
      <3> QED  BY <3>1, <3>2
    <2> QED  BY <1>a, <2>1, <2>4, <2>5, <2>6, <2>8
  <1> QED  BY <1>3, <1>4, <1>e

\* A buffer is charged to the client of a connection.
LEMMA GetStep ==
    ASSUME IInv, NEW b \in Bufs, NEW s \in Socks, BufGet(b, s)
    PROVE  IInv'
  <1> DEFINE m == recs[sk[s].rec].mem
  <1>0. /\ TypeOK /\ ~raced /\ sk[s].st = "open" /\ buf[b] = 0
        /\ buf' = [buf EXCEPT ![b] = m] /\ mem' = [mem EXCEPT ![m].refs = @ + 1]
        /\ UNCHANGED <<recs, lru, free_list, works, pending, sk, stage, raced>>
    BY DEF IInv, BufGet
  <1>t. /\ NoSk.st = "none" /\ sk[s].rec \in Recs /\ 0 \notin Mems
        /\ \A c \in Bufs : buf[c] = 0 \/ buf[c] \in Mems
    BY <1>0, Typed
  <1>1. recs[sk[s].rec].st = "live"  BY <1>0 DEF IInv, Referenced
  <1>2. m \in Mems /\ mem[m].st = "used"  BY <1>1, <1>t DEF IInv, OwnCounters
  <1>3. MemSide(recs, mem, free_list, works, pending, buf)  BY IInvParts
  <1>4. Owned(recs, m)  BY <1>1, <1>t DEF Owned
  <1> HIDE DEF m
  <1>5. /\ mem' \in [Mems -> Counters] /\ mem'[m].st = "used" /\ mem'[m].refs = mem[m].refs + 1
        /\ \A x \in Mems \ {m} : mem'[x] = mem[x]
    <2>1. mem \in [Mems -> Counters] /\ mem[m] \in Counters  BY <1>0, <1>2 DEF TypeOK
    <2> QED  BY <1>0, <1>2, <2>1 DEF Counters
  <1>6. buf' \in [Bufs -> Mems \cup {0}] /\ buf'[b] = m /\ \A c \in Bufs \ {b} : buf'[c] = buf[c]
    BY <1>0, <1>2 DEF TypeOK
  <1>7. Cardinality(Charged(buf', m)) = Cardinality(Charged(buf, m)) + 1
    <2>1. Charged(buf', m) = Charged(buf, m) \cup {b} /\ b \notin Charged(buf, m)
      BY <1>0, <1>2, <1>6, <1>t DEF Charged
    <2>2. IsFiniteSet(Charged(buf, m))  BY ChargedFinite
    <2> QED  BY <2>1, <2>2, FS_AddElement
  <1>8. mem'[m].refs = Cardinality(Charged(buf', m))
                         + IF m \in works \/ Owned(recs, m) THEN 2 ELSE 0
    <2>1. mem[m].refs = Cardinality(Charged(buf, m))
                         + IF m \in works \/ Owned(recs, m) THEN 2 ELSE 0
      BY <1>2 DEF IInv, InUse
    <2>2. Cardinality(Charged(buf, m)) \in Nat  BY ChargedFinite
    <2> QED  BY <1>4, <1>5, <1>7, <2>1, <2>2
  <1>9. MemSide(recs, mem', free_list, works, pending, buf')
    <2>1. free_list \in Seq(Pool) /\ works \in SUBSET Mems  BY <1>0 DEF TypeOK
    <2>2. \A c \in Bufs : buf'[c] = buf[c] \/ {buf[c], buf'[c]} = {0, m}  BY <1>0, <1>6
    <2>3. Recounts(mem, mem', works, works, buf, buf', m)
      BY <1>2, <1>5, <1>t, <2>2 DEF Recounts
    <2> QED  BY ONLY <1>2, <1>3, <1>8, <2>1, <2>3, CounterUsed
  <1>10. TypeOK'  BY <1>0, <1>5, <1>6 DEF TypeOK
  <1>11. Stopped'  BY <1>0 DEF IInv, Stopped
  <1>12. Referenced(recs, lru, sk) /\ Dropped(recs, sk)  BY <1>0 DEF IInv
  <1> QED  BY <1>0, <1>9, <1>10, <1>11, <1>12, IInvParts2

\* While a counter in use has no client the pool is not given back.
LEMMA NotDown ==
    ASSUME IInv, NEW m \in Mems, mem[m].st = "used" PROVE stage # "down"
  <1> SUFFICES ASSUME stage = "down" PROVE FALSE  OBVIOUS
  <1>1. pending = 0 /\ \A r \in Recs : recs[r].st # "live"  BY DEF IInv, Stopped
  <1>2. ~Owned(recs, m)  BY <1>1 DEF Owned
  <1>3. m \in Orphans(recs, mem)  BY <1>2 DEF Orphans
  <1>4. Cardinality(Orphans(recs, mem)) = 0  BY <1>1 DEF IInv
  <1> QED  BY <1>3, <1>4, OrphansFinite

\* References to a counter are dropped: of a buffer, or two by its work.
LEMMA PutStep ==
    ASSUME IInv, NEW m \in Mems, NEW d \in {1, 2}, NEW V \in SUBSET Mems,
           Becomes(MemPutN([State EXCEPT !.works = V], m, d)), ~raced,
           mem[m].st = "used", V \subseteq works, \A x : x # m => (x \in V <=> x \in works),
           buf' \in [Bufs -> Mems \cup {0}],
           \A c \in Bufs : buf'[c] = buf[c] \/ (buf[c] = m /\ buf'[c] = 0),
           mem[m].refs - d = Cardinality(Charged(buf', m))
                               + IF m \in V \/ Owned(recs, m) THEN 2 ELSE 0,
           UNCHANGED <<sk, stage, raced>>
    PROVE  IInv'
  <1>0. TypeOK /\ MemSide(recs, mem, free_list, works, pending, buf)  BY IInvParts
  <1>t. /\ 0 \notin Mems /\ \A c \in Bufs : buf[c] = 0 \/ buf[c] \in Mems  BY <1>0, Typed
  <1>e. /\ UNCHANGED <<recs, lru>> /\ works' = V
        /\ mem[m].refs = d =>
             /\ mem' \in [Mems -> Counters]
             /\ mem'[m] = IF m \in Pool THEN [st |-> "free", refs |-> 1]
                          ELSE [st |-> "none", refs |-> 0]
             /\ \A x \in Mems \ {m} : mem'[x] = mem[x]
             /\ free_list' = IF m \in Pool THEN <<m>> \o free_list ELSE free_list
             /\ pending' = pending - 1
        /\ mem[m].refs # d =>
             /\ mem' \in [Mems -> Counters]
             /\ mem'[m].st = mem[m].st /\ mem'[m].refs = mem[m].refs - d
             /\ \A x \in Mems \ {m} : mem'[x] = mem[x]
             /\ UNCHANGED <<free_list, pending>>
    BY <1>0, PutEffect
  <1>p. mem[m] \in Counters /\ free_list \in Seq(Pool) /\ works \in SUBSET Mems /\ pending \in Int
    BY <1>0 DEF TypeOK
  <1>c. /\ Cardinality(Charged(buf', m)) \in Nat
        /\ Cardinality(Charged(buf', m)) = 0 <=> Charged(buf', m) = {}
    BY ChargedFinite
  <1>1. CASE mem[m].refs = d
    <2>e. /\ mem' \in [Mems -> Counters]
          /\ mem'[m] = IF m \in Pool THEN [st |-> "free", refs |-> 1]
                       ELSE [st |-> "none", refs |-> 0]
          /\ \A x \in Mems \ {m} : mem'[x] = mem[x]
          /\ free_list' = IF m \in Pool THEN <<m>> \o free_list ELSE free_list
          /\ pending' = pending - 1
      BY <1>1, <1>e
    <2>1. Cardinality(Charged(buf', m)) = 0 /\ m \notin V /\ ~Owned(recs, m)
      <3>1. mem[m].refs - d = 0  BY <1>1
      <3> QED  BY <1>c, <3>1
    <2>2. Charged(buf', m) = {}  BY <1>c, <2>1
    <2>3. \A c \in Bufs : buf'[c] = IF buf[c] = m THEN 0 ELSE buf[c]
      BY <2>2 DEF Charged
    <2>4. V = works \ {m}  BY <2>1
    <2>5. FreeRight(mem', free_list')
      <3>1. FreeRight(mem, free_list) /\ m \in Mems /\ mem[m].st = "used"  BY DEF IInv
      <3>2. IF m \in Pool THEN mem'[m] = [st |-> "free", refs |-> 1] /\ free_list' = <<m>> \o free_list
            ELSE mem'[m] = [st |-> "none", refs |-> 0] /\ free_list' = free_list
        BY <2>e
      <3>3. GivesBack(mem, mem', free_list, free_list', m)  BY <2>e, <3>1, <3>2 DEF GivesBack
      <3> QED  BY ONLY <1>p, <3>1, <3>3, FreeReleased
    <2>6. free_list' \in Seq(Pool)
      <3>1. CASE m \in Pool
        <4>1. free_list \in Seq(Pool) /\ m \in Pool /\ free_list' = <<m>> \o free_list
          BY <1>p, <2>e, <3>1
        <4> QED  BY ONLY <4>1, Prepended
      <3>2. CASE m \notin Pool  BY <1>p, <2>e, <3>2
      <3> QED  BY <3>1, <3>2
    <2>7. MemSide(recs, mem', free_list', V, pending - 1, buf')
      <3>1. mem[m].st = "used" /\ mem'[m].st # "used" /\ m \in Mems
        <4>1. mem'[m].st \in {"free", "none"}  BY <2>e
        <4> QED  BY <4>1
      <3>2. Releases(mem, mem', works, V, buf, buf', m)
        BY <1>t, <2>3, <2>4, <2>e, <3>1 DEF Releases
      <3> QED  BY ONLY <1>0, <1>p, <2>1, <2>5, <3>1, <3>2, CounterReleased
    <2>8. TypeOK'  BY <1>0, <1>e, <1>p, <2>6, <2>e DEF TypeOK
    <2>9. Stopped'
      <3>1. stage # "down"  BY NotDown
      <3> QED  BY <1>e, <3>1 DEF IInv, Stopped
    <2>10. Referenced(recs, lru, sk) /\ Dropped(recs, sk)  BY DEF IInv
    <2> QED  BY <1>e, <2>7, <2>8, <2>9, <2>10, <2>e, IInvParts2
  <1>2. CASE mem[m].refs # d
    <2>e. /\ mem' \in [Mems -> Counters]
          /\ mem'[m].st = mem[m].st /\ mem'[m].refs = mem[m].refs - d
          /\ \A x \in Mems \ {m} : mem'[x] = mem[x]
          /\ UNCHANGED <<free_list, pending>>
      BY <1>2, <1>e
    <2>1. \A c \in Bufs : buf'[c] = buf[c] \/ {buf[c], buf'[c]} = {0, m}  OBVIOUS
    <2>2. MemSide(recs, mem', free_list, V, pending, buf')
      <3>1. Recounts(mem, mem', works, V, buf, buf', m)
        BY <1>t, <2>1, <2>e DEF Recounts
      <3>2. mem'[m].refs = Cardinality(Charged(buf', m))
                             + IF m \in V \/ Owned(recs, m) THEN 2 ELSE 0
        BY <2>e
      <3>3. m \in Mems  OBVIOUS
      <3> QED  BY ONLY <1>0, <1>p, <3>1, <3>2, <3>3, CounterUsed
    <2>3. TypeOK'  BY <1>0, <1>e, <1>p, <2>e DEF TypeOK
    <2>4. Stopped'  BY <1>e, <2>e DEF IInv, Stopped
    <2>5. Referenced(recs, lru, sk) /\ Dropped(recs, sk)  BY DEF IInv
    <2> QED  BY <1>e, <2>2, <2>3, <2>4, <2>5, <2>e, IInvParts2
  <1> QED  BY <1>1, <1>2

\* A buffer is freed.
LEMMA BufPutStep ==
    ASSUME IInv, NEW b \in Bufs, BufPut(b)
    PROVE  IInv'
  <1> DEFINE m == buf[b]
  <1>0. /\ TypeOK /\ ~raced /\ m # 0 /\ Becomes(MemPutN(State, m, 1))
        /\ buf' = [buf EXCEPT ![b] = 0] /\ UNCHANGED <<sk, stage, raced>>
    BY DEF IInv, BufPut
  <1>1. m \in Mems  BY <1>0, Typed
  <1>2. mem[m].st = "used"  BY <1>0 DEF IInv, InUse
  <1>3. /\ buf' \in [Bufs -> Mems \cup {0}]
        /\ buf'[b] = 0 /\ \A c \in Bufs \ {b} : buf'[c] = buf[c]
    BY <1>0 DEF TypeOK
  <1>b. buf[b] = m  OBVIOUS
  <1> HIDE DEF m
  <1>4. \A c \in Bufs : buf'[c] = buf[c] \/ (buf[c] = m /\ buf'[c] = 0)  BY <1>3, <1>b
  <1>5. Cardinality(Charged(buf', m)) = Cardinality(Charged(buf, m)) - 1
    <2>1. Charged(buf', m) = Charged(buf, m) \ {b} /\ b \in Charged(buf, m)
      BY <1>0, <1>3, <1>b DEF Charged
    <2>2. IsFiniteSet(Charged(buf, m))  BY ChargedFinite
    <2> QED  BY <2>1, <2>2, FS_RemoveElement
  <1>6. mem[m].refs - 1 = Cardinality(Charged(buf', m))
                            + IF m \in works \/ Owned(recs, m) THEN 2 ELSE 0
    <2>1. mem[m].refs = Cardinality(Charged(buf, m))
                          + IF m \in works \/ Owned(recs, m) THEN 2 ELSE 0
      BY <1>1, <1>2 DEF IInv, InUse
    <2>2. Cardinality(Charged(buf, m)) \in Nat  BY ChargedFinite
    <2> QED  BY <1>5, <2>1, <2>2
  <1>7. State = [State EXCEPT !.works = works]  BY DEF State
  <1>8. Becomes(MemPutN([State EXCEPT !.works = works], m, 1))  BY <1>0, <1>7
  <1>9. works \in SUBSET Mems /\ works \subseteq works /\ 1 \in {1, 2}  BY <1>0 DEF TypeOK
  <1> QED  BY <1>0, <1>1, <1>2, <1>3, <1>4, <1>6, <1>8, <1>9, PutStep

\* tfw_cli_mem_kill_work_fn().
LEMMA KillStep ==
    ASSUME IInv, NEW m \in Mems, KillWork(m)
    PROVE  IInv'
  <1> DEFINE V == works \ {m}
  <1>0. TypeOK /\ ~raced /\ m \in works /\ UNCHANGED <<sk, buf, stage, raced>>  BY DEF IInv, KillWork
  <1>1. [State EXCEPT !.works = @ \ {m}] = [State EXCEPT !.works = V]  BY DEF State
  <1>2. Becomes(MemPutN([State EXCEPT !.works = V], m, 2))  BY <1>1 DEF KillWork
  <1>3. mem[m].st = "used"  BY <1>0 DEF IInv, InUse
  <1>4. ~Owned(recs, m)  BY <1>0 DEF IInv, OwnCounters, Owned
  <1>5. /\ V \in SUBSET Mems /\ V \subseteq works /\ m \notin V
        /\ \A x : x # m => (x \in V <=> x \in works)
        /\ buf' \in [Bufs -> Mems \cup {0}] /\ 2 \in {1, 2}
    BY <1>0 DEF TypeOK
  <1> HIDE DEF V
  <1>6. mem[m].refs - 2 = Cardinality(Charged(buf', m))
                            + IF m \in V \/ Owned(recs, m) THEN 2 ELSE 0
    <2>1. mem[m].refs = Cardinality(Charged(buf, m))
                          + IF m \in works \/ Owned(recs, m) THEN 2 ELSE 0
      BY <1>3 DEF IInv, InUse
    <2>2. Cardinality(Charged(buf, m)) \in Nat  BY ChargedFinite
    <2>3. buf' = buf  BY <1>0
    <2> QED  BY <1>0, <1>4, <1>5, <2>1, <2>2, <2>3
  <1>7. \A c \in Bufs : buf'[c] = buf[c]  BY <1>0
  <1>8. m \in Mems /\ IInv /\ \A c \in Bufs : buf'[c] = buf[c] \/ (buf[c] = m /\ buf'[c] = 0)  BY <1>7
  <1>9. UNCHANGED <<sk, stage, raced>>  BY <1>0
  <1> QED  BY ONLY <1>0, <1>2, <1>3, <1>5, <1>6, <1>8, <1>9, PutStep

\* tfw_client_free_lru(): no socket is left, so a live client is referenced by
\* the list alone, and all of them are freed.
LEMMA FreeLruStep ==
    ASSUME IInv, FreeLru
    PROVE  IInv'
  <1> DEFINE listed == {lru[i] : i \in DOMAIN lru}
             gone   == {r \in listed : recs[r].refcnt = 1}
  <1>0. /\ TypeOK /\ ~raced /\ stage = "stop" /\ \A s \in Socks : sk[s] = NoSk
        /\ recs' = [r \in Recs |->
             IF r \in gone THEN [recs[r] EXCEPT !.refcnt = 0, !.st = "freed", !.linked = FALSE]
             ELSE IF r \in listed THEN [recs[r] EXCEPT !.refcnt = @ - 1]
             ELSE recs[r]]
        /\ works' = works \cup {recs[r].mem : r \in gone}
        /\ pending' = pending + Cardinality(gone)
        /\ lru' = <<>> /\ stage' = "wait" /\ UNCHANGED <<mem, free_list, sk, buf, raced>>
    BY DEF IInv, FreeLru
  <1>t. /\ NoSk.st = "none" /\ \A i \in 1..Len(lru) : lru[i] \in Recs
        /\ \A r \in Recs : recs[r] \in Clients
    BY <1>0, Typed
  <1>q. lru \in Seq(Recs)  BY <1>0 DEF TypeOK
  <1>d. DOMAIN lru = 1..Len(lru)  BY ONLY <1>q
  <1>l. \A r \in listed : r \in Recs /\ recs[r].st = "live"  BY <1>d, <1>t DEF IInv, Referenced
  <1>1. ASSUME NEW r \in Recs, recs[r].st = "live" PROVE r \in gone
    <2>1. Open(sk, r) = {}  BY <1>0, <1>t DEF Open
    <2>2. Cardinality(Open(sk, r)) = 0  BY <2>1, OpenFinite
    <2>3. recs[r].refcnt = IF InLru(lru, r) THEN 1 ELSE 0
      <3>1. recs[r].refcnt = Cardinality(Open(sk, r)) + IF InLru(lru, r) THEN 1 ELSE 0
        BY <1>1 DEF IInv, Referenced
      <3> QED  BY <2>2, <3>1
    <2>4. recs[r].refcnt # 0  BY <1>0, <1>1, <1>t DEF IInv, Dropped
    <2>5. InLru(lru, r) /\ recs[r].refcnt = 1  BY <2>3, <2>4
    <2> QED  BY <2>5 DEF InLru
  <1>2. \A r \in listed : r \in gone  BY <1>1, <1>l
  <1>3. gone \in SUBSET Recs /\ \A r \in Recs : recs[r].st = "live" <=> r \in gone  BY <1>1, <1>l
  <1> HIDE DEF listed, gone
  <1>4. ASSUME NEW r \in Recs PROVE recs'[r] \in Clients /\ recs'[r].st # "live"
    <2>1. CASE r \in gone
      <3> DEFINE c == recs[r]
      <3>1. recs'[r] = [c EXCEPT !.refcnt = 0, !.st = "freed", !.linked = FALSE]  BY <1>0, <2>1
      <3>2. c \in Clients  BY <1>t
      <3> HIDE DEF c
      <3>3. recs'[r] = [st |-> "freed", addr |-> c.addr, refcnt |-> 0, linked |-> FALSE,
                        curr |-> c.curr, mem |-> c.mem]
        BY <3>1, <3>2 DEF Clients
      <3> QED  BY <3>2, <3>3 DEF Clients
    <2>2. CASE r \notin gone
      <3>1. recs'[r] = recs[r] /\ recs[r].st # "live"  BY <1>0, <1>1, <1>2, <2>2
      <3> QED  BY <1>t, <3>1
    <2> QED  BY <2>1, <2>2
  <1>5. recs' \in [Recs -> Clients]  BY <1>0, <1>4
  <1>6. MemSide(recs', mem, free_list, works', pending', buf)
    <2>1. MemSide(recs, mem, free_list, works, pending, buf)  BY IInvParts
    <2>2. MemSide(recs', mem, free_list, works \cup {recs[r].mem : r \in gone},
                  pending + Cardinality(gone), buf)
      <3>1. \A r \in Recs : recs'[r].st # "live"  BY <1>4
      <3> QED  BY ONLY <1>3, <2>1, <3>1, OwnersFreed
    <2> QED  BY <1>0, <2>2
  <1>7. works' \in SUBSET Mems
    <2>1. \A r \in gone : recs[r].mem \in Mems  BY <1>3 DEF IInv, OwnCounters
    <2> QED  BY <1>0, <2>1 DEF TypeOK
  <1>8. pending' \in Int
    <2>1. pending' = Cardinality(Orphans(recs', mem))  BY <1>6 DEF MemSide
    <2> QED  BY <2>1, OrphansFinite
  <1>9. TypeOK'
    <2>0. lru' = <<>>  BY <1>0
    <2>1. lru' \in Seq(Recs)  BY ONLY <2>0
    <2>2. /\ mem' \in [Mems -> Counters] /\ free_list' \in Seq(Pool) /\ sk' \in [Socks -> Sockets]
          /\ buf' \in [Bufs -> Mems \cup {0}] /\ raced' \in BOOLEAN /\ stage' \in {"run", "stop", "wait", "down"}
      BY <1>0 DEF TypeOK
    <2> QED  BY ONLY <1>5, <1>7, <1>8, <2>1, <2>2 DEF TypeOK
  <1>10. Referenced(recs', lru', sk')
    <2>1. Len(lru') = 0  BY <1>0
    <2>2. \A i \in 1..Len(lru') : FALSE  BY <2>1
    <2>3. \A s \in Socks : sk'[s].st = "none"  BY <1>0, <1>t
    <2> QED  BY <1>4, <2>2, <2>3 DEF Referenced
  <1>11. Dropped(recs', sk')  BY <1>0, <1>4, <1>t DEF Dropped
  <1>12. Stopped'  BY <1>0, <1>4 DEF Stopped
  <1> QED  BY <1>0, <1>6, <1>9, <1>10, <1>11, <1>12, IInvParts2

\* The other steps of tfw_client_stop() change the stage alone.
LEMMA StageStep ==
    ASSUME IInv, UNCHANGED <<recs, lru, mem, free_list, works, pending, sk, buf, raced>>,
           \/ stage = "run" /\ stage' = "stop"
           \/ stage = "wait" /\ stage' = "down" /\ pending = 0
           \/ stage' = stage
    PROVE  IInv'
  <1>1. TypeOK'  BY DEF IInv, TypeOK
  <1>2. Stopped'  BY DEF IInv, Stopped
  <1>3. /\ Referenced(recs, lru, sk) /\ (~raced => Dropped(recs, sk))
        /\ MemSide(recs, mem, free_list, works, pending, buf)
    BY IInvParts
  <1> QED  BY <1>1, <1>2, <1>3, IInvParts2

\* At first all counters of the pool are free and there are no clients.
LEMMA InitInv == Init => IInv
  <1> SUFFICES ASSUME Init PROVE IInv  OBVIOUS
  <1>p. \A x \in Pool : x \in Mems  BY LruAssumption, BoundAssumption DEF Pool, Mems
  <1>r. NoRec \in Clients /\ NoRec.st = "none"
    BY DEF NoRec, Clients
  <1>k. NoSk \in Sockets /\ NoSk.st = "none"  BY DEF NoSk, Sockets
  <1>f. free_list \in Seq(Pool) /\ Len(free_list) = LruSize /\ \A i \in 1..LruSize : free_list[i] = i
    BY LruAssumption DEF Init, Pool
  <1>m. /\ mem \in [Mems -> Counters]
        /\ \A x \in Pool : mem[x] = [st |-> "free", refs |-> 1]
        /\ \A x \in Mems \ Pool : mem[x] = [st |-> "none", refs |-> 0]
    <2>1. [st |-> "free", refs |-> 1] \in Counters /\ [st |-> "none", refs |-> 0] \in Counters
      BY DEF Counters
    <2> QED  BY <1>p, <2>1 DEF Init
  <1>u. \A x \in Mems : mem[x].st # "used"  BY <1>m
  <1>1. TypeOK
    <2>1. recs \in [Recs -> Clients] /\ sk \in [Socks -> Sockets]  BY <1>k, <1>r DEF Init
    <2>2. lru \in Seq(Recs) /\ works \in SUBSET Mems /\ pending \in Int  BY DEF Init
    <2>3. /\ buf \in [Bufs -> Mems \cup {0}] /\ stage \in {"run", "stop", "wait", "down"}
          /\ raced \in BOOLEAN
      BY DEF Init
    <2> QED  BY ONLY <1>f, <1>m, <2>1, <2>2, <2>3 DEF TypeOK
  <1>l. Len(lru) = 0 /\ \A i \in 1..Len(lru) : FALSE
    <2>1. Len(lru) = 0  BY DEF Init
    <2> QED  BY <2>1
  <1>s. (\A r \in Recs : recs[r].st = "none") /\ \A s \in Socks : sk[s].st = "none"
    BY <1>k, <1>r DEF Init
  <1>2. Referenced(recs, lru, sk) /\ Dropped(recs, sk)  BY <1>l, <1>s DEF Referenced, Dropped
  <1>3. OwnCounters(recs, mem, works)  BY <1>s DEF OwnCounters
  <1>4. InUse(recs, mem, works, buf)  BY <1>u DEF InUse, Init
  <1>5. FreeRight(mem, free_list)
    <2>1. \A x \in Pool : x \in 1..Len(free_list) /\ free_list[x] = x  BY <1>f DEF Pool
    <2>2. \A i \in 1..Len(free_list) : i \in Pool /\ free_list[i] = i  BY <1>f DEF Pool
    <2> QED  BY <1>m, <2>1, <2>2 DEF FreeRight
  <1>6. pending = Cardinality(Orphans(recs, mem))
    <2>1. Orphans(recs, mem) = {}  BY <1>u DEF Orphans
    <2> QED  BY <2>1, FS_EmptySet DEF Init
  <1>7. Stopped  BY DEF Init, Stopped
  <1> QED  BY <1>1, <1>2, <1>3, <1>4, <1>5, <1>6, <1>7 DEF IInv

-----------------------------------------------------------------------------
(* The theorems. *)

\* Every step of connections, buffers, works and of the shutdown keeps the
\* invariant of client.c: references, counters and free list agree.
THEOREM IInvariance == Spec => []IInv
  <1>1. IInv /\ [Next]_vars => IInv'
    <2> SUFFICES ASSUME IInv, [Next]_vars PROVE IInv'  OBVIOUS
    <2>1. ASSUME NEW s \in Socks, NEW a \in Addrs, ConnKnown(s, a) PROVE IInv'  BY <2>1, KnownStep
    <2>2. ASSUME NEW s \in Socks, NEW a \in Addrs, ConnNew(s, a) PROVE IInv'  BY <2>2, NewStep
    <2>3. ASSUME NEW s \in Socks, ConnClose(s) PROVE IInv'  BY <2>3, CloseStep
    <2>4. ASSUME NEW s \in Socks, ConnFree(s) PROVE IInv'  BY <2>4, FreeStep
    <2>5. ASSUME NEW b \in Bufs, NEW s \in Socks, BufGet(b, s) PROVE IInv'  BY <2>5, GetStep
    <2>6. ASSUME NEW b \in Bufs, BufPut(b) PROVE IInv'  BY <2>6, BufPutStep
    <2>7. ASSUME NEW m \in Mems, KillWork(m) PROVE IInv'  BY <2>7, KillStep
    <2>8. CASE Stop  BY <2>8, StageStep DEF Stop
    <2>9. CASE FreeLru  BY <2>9, FreeLruStep
    <2>10. CASE PoolExit  BY <2>10, StageStep DEF PoolExit
    <2>11. CASE UNCHANGED vars  BY <2>11, StageStep DEF vars
    <2> QED  BY <2>1, <2>2, <2>3, <2>4, <2>5, <2>6, <2>7, <2>8, <2>9, <2>10, <2>11 DEF Next
  <1> QED  BY <1>1, InitInv, PTL DEF Spec

\* References of clients and of memory counters are exact, conn_curr is the
\* number of open sockets (tfw_classify_conn_close(), tfw_client_free()).
THEOREM ReferencesExact == Spec => []RefsExact
  <1>1. IInv => RefsExact  BY DEF IInv, Referenced, InUse, RefsExact
  <1> QED  BY <1>1, IInvariance, PTL

\* A free list that holds every counter of the pool once is as long as the pool.
LEMMA WholeLength ==
    ASSUME NEW f \in Seq(Pool), \A i, j \in 1..Len(f) : f[i] = f[j] => i = j,
           \A m \in Pool : \E i \in 1..Len(f) : f[i] = m
    PROVE  Len(f) = LruSize /\ {f[i] : i \in DOMAIN f} = Pool
  <1>1. Len(f) \in Nat /\ DOMAIN f = 1..Len(f) /\ f \in [1..Len(f) -> Pool]  OBVIOUS
  <1> DEFINE D == 1..Len(f)
  <1>2. f \in Injection(D, Pool)  BY <1>1 DEF Injection, IsInjective
  <1>3. f \in Surjection(D, Pool)  BY <1>1 DEF Surjection
  <1>4. f \in Bijection(D, Pool)  BY <1>2, <1>3 DEF Bijection
  <1>5. ExistsBijection(D, Pool)  BY <1>4 DEF ExistsBijection
  <1>6. IsFiniteSet(D) /\ Cardinality(D) = Len(f)
    <2>1. 1 \in Int /\ Len(f) \in Int  BY <1>1
    <2>2. /\ IsFiniteSet(D) /\ Cardinality(D) = IF 1 > Len(f) THEN 0 ELSE Len(f) - 1 + 1
      BY <2>1, FS_Interval
    <2> QED  BY <1>1, <2>2
  <1>7. Cardinality(Pool) = LruSize
    <2>1. 1 \in Int /\ LruSize \in Int  BY LruAssumption
    <2>2. Cardinality(Pool) = IF 1 > LruSize THEN 0 ELSE LruSize - 1 + 1
      BY <2>1, FS_Interval DEF Pool
    <2> QED  BY <2>2, LruAssumption
  <1>8. Cardinality(D) = Cardinality(Pool)  BY <1>5, <1>6, FS_Bijection
  <1> QED  BY <1>1, <1>6, <1>7, <1>8

\* tfw_client_stop() gives the pool back only when every counter of it is free
\* and neither a work nor a buffer refers to one.
THEOREM PoolGivenBackWhole == Spec => []PoolWhole
  <1>1. IInv => PoolWhole
    <2> SUFFICES ASSUME IInv, stage = "down"
                 PROVE  /\ Len(free_list) = LruSize
                        /\ {free_list[i] : i \in DOMAIN free_list} = Pool
                        /\ works = {} /\ \A b \in Bufs : buf[b] = 0
      BY DEF PoolWhole
    <2>0. TypeOK /\ FreeRight(mem, free_list)  BY DEF IInv
    <2>1. \A m \in Mems : mem[m].st # "used"  BY NotDown
    <2>2. works = {}  BY <2>0, <2>1 DEF IInv, InUse, TypeOK
    <2>3. \A b \in Bufs : buf[b] = 0  BY <2>0, <2>1 DEF IInv, InUse, TypeOK
    <2>p. \A x \in Pool : x \in Mems  BY LruAssumption, BoundAssumption DEF Pool, Mems
    <2>4. \A m \in Pool : \E i \in 1..Len(free_list) : free_list[i] = m
      BY <2>0, <2>1, <2>p DEF FreeRight
    <2>5. \A i, j \in 1..Len(free_list) : free_list[i] = free_list[j] => i = j  BY <2>0 DEF FreeRight
    <2>6. free_list \in Seq(Pool)  BY <2>0 DEF TypeOK
    <2>7. Len(free_list) = LruSize /\ {free_list[i] : i \in DOMAIN free_list} = Pool
      BY ONLY <2>4, <2>5, <2>6, WholeLength
    <2> QED  BY <2>2, <2>3, <2>7
  <1> QED  BY <1>1, IInvariance, PTL
=============================================================================
