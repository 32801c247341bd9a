-------------------------- MODULE AccessLogProofs --------------------------
(***************************************************************************)
(* The access log for any set of CPUs, any size of the rings, any lengths  *)
(* of records and any number of requests and restarts of the daemon: what  *)
(* is unread stays intact, rows are inserted once and in order, and every  *)
(* record that is dropped is reported.                                     *)
(***************************************************************************)
EXTENDS AccessLog, SlotLemmas, TLAPS

-----------------------------------------------------------------------------
(* What the database client does to a worker. *)

\* A worker that differs in the state of its connection only.
Like(v, w) ==
    /\ v \in Threads
    /\ v.pc = w.pc /\ v.t = w.t /\ v.h = w.h /\ v.blk = w.blk

\* ensure_connected() leaves the position and the block alone.
LEMMA ConnectedResult ==
    ASSUME NEW w \in Threads, NEW a \in EnsureConnected(w)
    PROVE  a[1] \in BOOLEAN /\ Like(a[2], w)
  <1>1. \/ a = <<TRUE, w>> \/ a = <<FALSE, w>>
        \/ a = <<TRUE, [w EXCEPT !.reconnect = FALSE]>>
    BY DEF EnsureConnected
  <1>2. CASE a = <<TRUE, w>>  BY <1>2 DEF Like
  <1>3. CASE a = <<FALSE, w>>  BY <1>3 DEF Like
  <1>4. CASE a = <<TRUE, [w EXCEPT !.reconnect = FALSE]>>
    <2>1. Like([w EXCEPT !.reconnect = FALSE], w)  BY DEF Like, Threads
    <2> QED  BY <1>4, <2>1
  <1> QED  BY <1>1, <1>2, <1>3, <1>4

\* So does a query, whether it fails or not.
LEMMA QueryResult ==
    ASSUME NEW w \in Threads, NEW q \in Query(w)
    PROVE  q[1] \in BOOLEAN /\ q[3] \in BOOLEAN /\ Like(q[2], w)
  <1>1. PICK a \in EnsureConnected(w) :
            \/ q = <<FALSE, a[2], FALSE>> \/ q = <<TRUE, a[2], TRUE>>
            \/ \E done \in BOOLEAN : q = <<FALSE, [a[2] EXCEPT !.reconnect = TRUE], done>>
    BY DEF Query, DoneOnFailure
  <1>2. Like(a[2], w)  BY ConnectedResult
  <1>3. CASE q = <<FALSE, a[2], FALSE>> \/ q = <<TRUE, a[2], TRUE>>
    <2>1. CASE q = <<FALSE, a[2], FALSE>>
      <3>1. q[1] = FALSE /\ q[3] = FALSE /\ q[2] = a[2]  BY <2>1
      <3> QED  BY <1>2, <3>1
    <2>2. CASE q = <<TRUE, a[2], TRUE>>
      <3>1. q[1] = TRUE /\ q[3] = TRUE /\ q[2] = a[2]  BY <2>2
      <3> QED  BY <1>2, <3>1
    <2> QED  BY <1>3, <2>1, <2>2
  <1>4. CASE \E done \in BOOLEAN : q = <<FALSE, [a[2] EXCEPT !.reconnect = TRUE], done>>
    <2>1. /\ q[1] \in BOOLEAN /\ q[3] \in BOOLEAN
          /\ q[2] = [a[2] EXCEPT !.reconnect = TRUE]
      BY <1>4
    <2>2. Like([a[2] EXCEPT !.reconnect = TRUE], w)  BY <1>2 DEF Like, Threads
    <2> QED  BY <2>1, <2>2
  <1> QED  BY <1>1, <1>3, <1>4

\* ensure_table_created() too.
LEMMA TableResult ==
    ASSUME NEW w \in Threads, NEW a \in EnsureTable(w)
    PROVE  a[1] \in BOOLEAN /\ Like(a[2], w)
  <1>1. CASE ~w.table
    <2>1. a = <<TRUE, w>>  BY <1>1 DEF EnsureTable
    <2>2. a[1] = TRUE /\ a[2] = w  BY <2>1
    <2> QED  BY <2>2 DEF Like
  <1>2. CASE w.table
    <2>1. PICK q \in Query(w) : a = <<~q[1], [q[2] EXCEPT !.table = ~q[1]]>>
      BY <1>2 DEF EnsureTable
    <2>2. q[1] \in BOOLEAN /\ Like(q[2], w)  BY QueryResult
    <2>3. a[1] = ~q[1] /\ a[2] = [q[2] EXCEPT !.table = ~q[1]]  BY <2>1
    <2>4. a[1] \in BOOLEAN  BY <2>2, <2>3
    <2>5. Like(a[2], w)  BY <2>2, <2>3 DEF Like, Threads
    <2> QED  BY <2>4, <2>5
  <1> QED  BY <1>1, <1>2

\* flush() inserts the whole block and clears it, or it keeps the block, which
\* may be stored nevertheless.
LEMMA FlushResult ==
    ASSUME NEW w \in Threads, NEW force \in BOOLEAN, NEW f \in Flush(w, force)
    PROVE  /\ f[1] \in BOOLEAN /\ f[3] \in BOOLEAN
           /\ f[2] \in Threads /\ f[2].pc = w.pc /\ f[2].t = w.t /\ f[2].h = w.h
           /\ \/ ~(f[3] /\ f[1]) /\ f[2].blk = w.blk
              \/ f[3] /\ f[2].blk = <<>>
  <1>1. PICK a \in EnsureTable(w) :
            f \in IF ~a[1] THEN {<<FALSE, a[2], FALSE>>}
                  ELSE IF a[2].blk = <<>> \/ (~force /\ Len(a[2].blk) < MaxBlock)
                       THEN {<<TRUE, a[2], FALSE>>}
                  ELSE { IF q[1] THEN <<TRUE, [q[2] EXCEPT !.blk = <<>>], TRUE>> ELSE q :
                         q \in Query(a[2]) }
    BY DEF Flush
  <1>2. Like(a[2], w)  BY TableResult
  <1>4. CASE \E q \in Query(a[2]) :
                 f = IF q[1] THEN <<TRUE, [q[2] EXCEPT !.blk = <<>>], TRUE>> ELSE q
    <2>1. PICK q \in Query(a[2]) :
                 f = IF q[1] THEN <<TRUE, [q[2] EXCEPT !.blk = <<>>], TRUE>> ELSE q
      BY <1>4
    <2>2. q[1] \in BOOLEAN /\ q[3] \in BOOLEAN /\ Like(q[2], a[2])
      BY <1>2, QueryResult DEF Like
    <2>3. CASE q[1]
      <3>1. f[1] = TRUE /\ f[2] = [q[2] EXCEPT !.blk = <<>>] /\ f[3] = TRUE  BY <2>1, <2>3
      <3>2. <<>> \in Seq(Rows)  OBVIOUS
      <3> QED  BY <1>2, <2>2, <3>1, <3>2 DEF Like, Threads
    <2>4. CASE ~q[1]
      <3>1. f = q  BY <2>1, <2>4
      <3> QED  BY <1>2, <2>2, <2>4, <3>1 DEF Like
    <2> QED  BY <2>2, <2>3, <2>4
  <1>5. CASE f = <<FALSE, a[2], FALSE>>  BY <1>2, <1>5 DEF Like
  <1>6. CASE f = <<TRUE, a[2], FALSE>>  BY <1>2, <1>6 DEF Like
  <1> QED  BY <1>1, <1>4, <1>5, <1>6

-----------------------------------------------------------------------------
(* Steps that neither read nor write records. *)

\* The new worker v has read nothing, or has dropped what it read, or is where
\* it was.
Idles(v, w) ==
    \/ v.pc # "read" /\ v.blk = <<>>
    \/ w.pc # "read" /\ v.pc # "read" /\ v.blk = w.blk
    \/ v.pc = w.pc /\ v.t = w.t /\ v.h = w.h /\ v.blk = w.blk

\* Nothing follows every block.
LEMMA FollowsEmpty == ASSUME NEW b PROVE MayFollow(<<>>, b)
  BY DEF MayFollow, Precede

SameCells(b, a) == b.head = a.head /\ b.tail = a.tail /\ b.cell = a.cell

\* Such steps of workers, of the device and of tfw_mmap_buffer_free() keep the
\* invariant.
LEMMA QuietStep ==
    ASSUME IInv, ring' \in [Cpus -> Rings], th' \in [Cpus -> Threads],
           \A d \in Cpus : SameCells(ring'[d], ring[d]),
           \A d \in Cpus : Idles(th'[d], th[d]),
           UNCHANGED <<wr, dropped, sent, events, db>>
    PROVE  IInv'
  <1>1. TypeOK'  BY DEF IInv, TypeOK
  <1>2. ASSUME NEW d \in Cpus PROVE CpuInv(d)'
    <2>0. CpuInv(d) /\ SameCells(ring'[d], ring[d]) /\ Idles(th'[d], th[d])
      BY DEF IInv
    <2>1. Mapped(ring[d], sent[d])'  BY <2>0 DEF CpuInv, Mapped, SameCells
    <2>2. Framed(sent[d])' /\ Ordered(sent[d])'  BY <2>0 DEF CpuInv, Framed, Ordered
    <2>3. Writing(wr[d], ring[d], Total(d))'
      BY <2>0 DEF CpuInv, Writing, SameCells, Total
    <2>4. Reading(th[d], ring[d], sent[d])'
      BY <2>0 DEF CpuInv, Reading, Boundary, SameCells, Idles
    <2>5. Stamped(d)'
      BY <2>0 DEF CpuInv, Stamped, Older
    <2>6. BlockInOrder(d)'
      <3> USE DEF CpuInv, BlockInOrder, ReadPos, Older, SameCells
      <3>1. CASE th'[d].pc # "read" /\ th'[d].blk = <<>>  BY <2>0, <3>1 DEF Sorted
      <3>2. CASE th[d].pc # "read" /\ th'[d].pc # "read" /\ th'[d].blk = th[d].blk
        BY <2>0, <3>2
      <3>3. CASE th'[d].pc = th[d].pc /\ th'[d].t = th[d].t /\ th'[d].blk = th[d].blk
        BY <2>0, <3>3
      <3> QED  BY <2>0, <3>1, <3>2, <3>3 DEF Idles
    <2>7. RowsBefore(d)'
      <3>1. ASSUME NEW i \in 1..Len(db), db[i].cpu = d
            PROVE  /\ \A k \in 1..Len(db[i].rows) : RowBefore(d, db[i].rows[k])'
                   /\ MayFollow(th[d].blk, db[i])'
        <4>1. /\ \A k \in 1..Len(db[i].rows) : RowBefore(d, db[i].rows[k])
              /\ MayFollow(th[d].blk, db[i])
          BY <2>0, <3>1 DEF CpuInv, RowsBefore
        <4>2. \A k \in 1..Len(db[i].rows) : RowBefore(d, db[i].rows[k])'
          BY <2>0, <4>1 DEF RowBefore, Behind, Older, SameCells
        <4>3. th'[d].blk = th[d].blk \/ th'[d].blk = <<>>  BY <2>0 DEF Idles
        <4>4. MayFollow(th'[d].blk, db[i])
          BY <4>1, <4>3, FollowsEmpty
        <4> QED  BY <4>2, <4>4
      <3> QED  BY <3>1 DEF RowsBefore
    <2> QED  BY <2>1, <2>2, <2>3, <2>4, <2>5, <2>6, <2>7 DEF CpuInv
  <1>3. RowsOnceInOrder'  BY DEF IInv, RowsOnceInOrder
  <1> QED  BY <1>1, <1>2, <1>3 DEF IInv

-----------------------------------------------------------------------------
(* Inserting a block. *)

\* A block that goes to the database may follow the blocks of its CPU and is
\* before the records still to be read.  It is gone from the worker if the answer
\* has arrived; if not, what the worker keeps of it may follow it.
LEMMA FlushStep ==
    ASSUME IInv, NEW c \in Cpus, th[c].pc # "read", NEW ok \in BOOLEAN,
           NEW v \in Threads, v.pc # "read", v.blk = <<>> \/ (v.blk = th[c].blk /\ ~ok),
           th' = [th EXCEPT ![c] = v],
           db' = Append(db, [cpu |-> c, rows |-> th[c].blk, ok |-> ok]),
           ring' \in [Cpus -> Rings], \A d \in Cpus : SameCells(ring'[d], ring[d]),
           UNCHANGED <<wr, dropped, sent, events>>
    PROVE  IInv'
  <1> DEFINE blk == th[c].blk
             new == [cpu |-> c, rows |-> blk, ok |-> ok]
  <1>0. TypeOK /\ th[c] \in Threads  BY DEF IInv, TypeOK
  <1>s. blk \in Seq(Rows) /\ db \in Seq(Blocks)  BY <1>0 DEF TypeOK, Threads
  <1>w. new \in Blocks /\ new.cpu = c /\ new.rows = blk /\ new.ok = ok  BY <1>s DEF Blocks
  <1>l. /\ Len(db') = Len(db) + 1 /\ Len(db) \in Nat
        /\ \A i \in 1..Len(db) : db'[i] = db[i]
        /\ db'[Len(db) + 1] = new
        /\ db' \in Seq(Blocks)
    <2> HIDE DEF new
    <2>1. db' = Append(db, new)  BY DEF new
    <2> QED  BY <1>s, <1>w, <2>1
  <1>i. \A i \in 1..Len(db') : i \in 1..Len(db) \/ i = Len(db) + 1  BY ONLY <1>l
  <1>1. TypeOK'
    <2>2. th' \in [Cpus -> Threads]  BY <1>0 DEF TypeOK
    <2> QED  BY <1>0, <1>l, <2>2 DEF TypeOK
  <1>c. /\ \A i \in 1..Len(blk) :
             /\ blk[i][1] = c
             /\ Behind(sent[c], ring[c].tail, blk[i][2])
             /\ Older(wr[c], blk[i][2])
        /\ Sorted(blk)
    BY DEF IInv, CpuInv, BlockInOrder, ReadPos
  <1>r. \A i \in 1..Len(db) : db[i].cpu = c => MayFollow(blk, db[i])
    BY DEF IInv, CpuInv, RowsBefore
  <1>v. MayFollow(v.blk, new)
    <2>1. CASE v.blk = <<>>  BY <2>1, FollowsEmpty
    <2>2. CASE v.blk = blk /\ ~ok
      <3>1. Begins(blk, blk)  BY <1>s DEF Begins
      <3> QED  BY <1>w, <2>2, <3>1 DEF MayFollow
    <2> QED  BY <2>1, <2>2
  <1>b. \A i \in 1..Len(db) : db[i].cpu = c => MayFollow(v.blk, db[i])
    BY <1>r, FollowsEmpty
  <1> HIDE DEF blk, new
  <1>2. ASSUME NEW d \in Cpus PROVE CpuInv(d)'
    <2>0. CpuInv(d) /\ SameCells(ring'[d], ring[d])  BY DEF IInv
    <2>a. th'[c] = v /\ (d # c => th'[d] = th[d])  BY <1>0 DEF TypeOK
    <2>1. Mapped(ring[d], sent[d])'  BY <2>0 DEF CpuInv, Mapped, SameCells
    <2>2. Framed(sent[d])' /\ Ordered(sent[d])'  BY <2>0 DEF CpuInv, Framed, Ordered
    <2>3. Writing(wr[d], ring[d], Total(d))'
      BY <2>0 DEF CpuInv, Writing, SameCells, Total
    <2>4. Reading(th[d], ring[d], sent[d])'
      BY <2>0, <2>a DEF CpuInv, Reading, Boundary, SameCells
    <2>5. Stamped(d)'
      BY <2>0 DEF CpuInv, Stamped, Older
    <2>6. BlockInOrder(d)'
      <3>1. CASE th'[d].blk = <<>>  BY <3>1 DEF BlockInOrder, Sorted
      <3>2. CASE th'[d] = th[d]
        BY <2>0, <3>2 DEF CpuInv, BlockInOrder, ReadPos, Older, SameCells
      <3>3. CASE d = c /\ th'[c].blk = th[c].blk
        BY <1>c, <2>0, <2>a, <3>3 DEF blk, BlockInOrder, ReadPos, Older, SameCells
      <3> QED  BY <2>a, <3>1, <3>2, <3>3
    <2>7. RowsBefore(d)'
      <3>1. ASSUME NEW i \in 1..Len(db'), db'[i].cpu = d
            PROVE  /\ \A k \in 1..Len(db'[i].rows) : RowBefore(d, db'[i].rows[k])
                   /\ MayFollow(th'[d].blk, db'[i])
        <4>1. CASE i \in 1..Len(db)
          <5>1. db'[i] = db[i]  BY <1>l, <4>1
          <5>2. \A k \in 1..Len(db[i].rows) : RowBefore(d, db[i].rows[k])
            BY <2>0, <3>1, <4>1, <5>1 DEF CpuInv, RowsBefore
          <5>3. CASE d # c
            <6>1. MayFollow(th[d].blk, db[i])
              BY <2>0, <3>1, <4>1, <5>1 DEF CpuInv, RowsBefore
            <6> QED  BY <2>a, <5>1, <5>2, <5>3, <6>1
          <5>4. CASE d = c  BY <1>b, <2>a, <3>1, <4>1, <5>1, <5>2, <5>4
          <5> QED  BY <5>3, <5>4
        <4>2. CASE i = Len(db) + 1
          <5>1. db'[i] = new /\ d = c  BY <1>l, <1>w, <3>1, <4>2
          <5> QED  BY <1>c, <1>v, <1>w, <2>a, <5>1 DEF RowBefore
        <4> QED  BY <1>i, <4>1, <4>2
      <3>2. ASSUME NEW i \in 1..Len(db'), db'[i].cpu = d, NEW k \in 1..Len(db'[i].rows)
            PROVE  /\ Behind(sent'[d], ring'[d].tail, db'[i].rows[k][2])
                   /\ db'[i].rows[k][2] <= events'
                   /\ wr'[d].st = "write" => db'[i].rows[k][2] < wr'[d].id
        <4>1. RowBefore(d, db'[i].rows[k])  BY <3>1, <3>2
        <4> QED  BY <2>0, <4>1 DEF RowBefore, SameCells, Older
      <3>3. ASSUME NEW i \in 1..Len(db'), db'[i].cpu = d
            PROVE  MayFollow(th'[d].blk, db'[i])
        BY <3>1, <3>3
      <3> QED  BY <3>2, <3>3 DEF RowsBefore, RowBefore, Older
    <2> QED  BY <2>1, <2>2, <2>3, <2>4, <2>5, <2>6, <2>7 DEF CpuInv
  <1>3. RowsOnceInOrder'
    <2>1. ASSUME NEW i \in 1..Len(db') PROVE Sorted(db'[i].rows)
      <3>1. CASE i \in 1..Len(db)
        <4>1. db'[i] = db[i]  BY <1>l, <3>1
        <4> QED  BY <3>1, <4>1 DEF IInv, RowsOnceInOrder
      <3>2. CASE i = Len(db) + 1  BY <1>c, <1>l, <1>w, <3>2
      <3> QED  BY <1>i, <3>1, <3>2
    <2>2. ASSUME NEW i \in 1..Len(db'), NEW j \in 1..Len(db'),
                 i < j, db'[i].cpu = db'[j].cpu
          PROVE  MayFollow(db'[j].rows, db'[i])
      <3>0. i \in 1..Len(db)  BY ONLY i \in 1..Len(db'), j \in 1..Len(db'), <2>2, <1>l
      <3>1. db'[i] = db[i]  BY <1>l, <3>0
      <3>2. CASE j \in 1..Len(db)
        <4>1. db'[j] = db[j]  BY <1>l, <3>2
        <4> QED  BY <2>2, <3>0, <3>1, <3>2, <4>1 DEF IInv, RowsOnceInOrder
      <3>3. CASE j = Len(db) + 1
        <4>1. db'[j] = new  BY <1>l, <3>3
        <4> QED  BY <1>r, <1>w, <2>2, <3>0, <3>1, <4>1
      <3> QED  BY <1>i, <3>2, <3>3
    <2> QED  BY <2>1, <2>2 DEF RowsOnceInOrder
  <1> QED  BY <1>1, <1>2, <1>3 DEF IInv

-----------------------------------------------------------------------------
(* Reading the ring. *)

\* A worker that changes is the only one, and rings, rows and writers do not.
OnlyWorker(c, v) ==
    /\ th' = [th EXCEPT ![c] = v]
    /\ UNCHANGED <<ring, wr, dropped, sent, events, db>>

\* A sequence with one more element.
LEMMA Appended ==
    ASSUME NEW S, NEW s \in Seq(S), NEW e \in S, NEW r, r = Append(s, e)
    PROVE  /\ Len(r) = Len(s) + 1 /\ Len(s) \in Nat
           /\ \A i \in 1..Len(s) : r[i] = s[i]
           /\ r[Len(s) + 1] = e
  OBVIOUS

\* consume() starts at the tail and will not read beyond the head as it is now.
LEMMA ConsumeStep ==
    ASSUME IInv, NEW c \in Cpus, th[c].pc # "read",
           NEW v \in Threads, v.pc = "read", v.blk = th[c].blk,
           v.t = ring[c].tail, v.h = ring[c].head, OnlyWorker(c, v)
    PROVE  IInv'
  <1>0. TypeOK  BY DEF IInv
  <1>1. TypeOK'  BY <1>0 DEF TypeOK, OnlyWorker
  <1>2. ASSUME NEW d \in Cpus PROVE CpuInv(d)'
    <2>0. CpuInv(d) /\ sent[d] \in Seq(Cells)  BY <1>0 DEF IInv, TypeOK
    <2>a. th'[c] = v /\ (d # c => th'[d] = th[d])  BY <1>0 DEF TypeOK, OnlyWorker
    <2>b. UNCHANGED <<ring, wr, dropped, sent, events, db>>  BY DEF OnlyWorker
    <2>1. /\ Mapped(ring[d], sent[d])' /\ Framed(sent[d])' /\ Ordered(sent[d])'
          /\ Writing(wr[d], ring[d], Total(d))'
          /\ Stamped(d)'
      BY <2>0, <2>b DEF CpuInv, Stamped, Total, Older
    <2>2. Reading(th[d], ring[d], sent[d])'
      <3>1. CASE d = c
        <4>1. ring[c].tail \in Nat /\ ring[c].head \in Nat /\ Len(sent[c]) \in Nat
          <5>1. ring[c] \in Rings /\ sent[c] \in Seq(Cells)  BY <1>0 DEF TypeOK
          <5> QED  BY <5>1 DEF Rings
        <4> QED  BY <2>0, <2>a, <2>b, <3>1, <4>1 DEF CpuInv, Reading, Boundary, Mapped
      <3>2. CASE d # c  BY <2>0, <2>a, <2>b, <3>2 DEF CpuInv, Reading, Boundary
      <3> QED  BY <3>1, <3>2
    <2>3. BlockInOrder(d)' /\ RowsBefore(d)'
      BY <2>0, <2>a, <2>b DEF CpuInv, BlockInOrder, RowsBefore, RowBefore, ReadPos, Older
    <2> QED  BY <2>1, <2>2, <2>3 DEF CpuInv
  <1>3. RowsOnceInOrder'  BY DEF IInv, RowsOnceInOrder, OnlyWorker
  <1> QED  BY <1>1, <1>2, <1>3 DEF IInv

\* A record that begins before a boundary ends there or before it.
LEMMA RecordFits ==
    ASSUME NEW s \in Seq(Cells), Framed(s), NEW p \in Nat, NEW h \in Nat,
           Boundary(s, p), Boundary(s, h), p < h
    PROVE  /\ s[p + 1].at = 1
           /\ s[p + 1].len >= 1 /\ p + s[p + 1].len <= h
           /\ Boundary(s, p + s[p + 1].len)
  <1>1. p + 1 \in 1..Len(s) /\ s[p + 1].at = 1  BY DEF Boundary
  <1>2. s[p + 1] \in Cells  BY <1>1
  <1> DEFINE n == s[p + 1].len
  <1>3. n \in Nat  BY <1>2 DEF Cells
  <1>4. /\ n >= 1 /\ (p + 1) + n <= Len(s) + 1
        /\ (p + 1) + n <= Len(s) => s[(p + 1) + n].at = 1
        /\ \A j \in (p + 1) + 1 .. (p + 1) + n - 1 : s[j].at # 1
    BY <1>1 DEF Framed
  <1> HIDE DEF n
  <1>5. p + n <= h
    <2> SUFFICES ASSUME h < p + n PROVE FALSE  BY <1>3
    <2>1. h + 1 \in (p + 1) + 1 .. (p + 1) + n - 1  BY <1>3
    <2>2. h < Len(s)  BY <1>3, <1>4
    <2>3. s[h + 1].at = 1  BY <2>2 DEF Boundary
    <2> QED  BY <1>4, <2>1, <2>3
  <1>6. (p + 1) + n = (p + n) + 1  BY <1>3
  <1>7. Boundary(s, p + n)  BY <1>3, <1>4, <1>6 DEF Boundary
  <1> QED  BY <1>1, <1>4, <1>5, <1>7 DEF n

\* process_events() takes one record: its row is behind all earlier ones of the
\* CPU and before all records behind it.
LEMMA ReadStep ==
    ASSUME IInv, NEW c \in Cpus, th[c].pc = "read", th[c].t < th[c].h,
           NEW v \in Threads, v.pc = "read", v.h = th[c].h,
           v.t = th[c].t + ring[c].cell[th[c].t % Size].len,
           v.blk = Append(th[c].blk, <<c, ring[c].cell[th[c].t % Size].id>>),
           OnlyWorker(c, v)
    PROVE  IInv'
  <1>0. TypeOK  BY DEF IInv
  <1>1. TypeOK'  BY <1>0 DEF TypeOK, OnlyWorker
  <1> DEFINE t == th[c].t
             s == sent[c]
             e == s[t + 1]
             blk == th[c].blk
  <1>c. CpuInv(c)  BY DEF IInv
  <1>t. /\ t \in Nat /\ th[c].h \in Nat /\ s \in Seq(Cells) /\ blk \in Seq(Rows)
        /\ ring[c].tail \in Nat /\ ring[c].head \in Nat
    BY <1>0 DEF TypeOK, Threads, Rings
  <1>2. /\ ring[c].tail <= t /\ t <= th[c].h
        /\ Boundary(s, t) /\ Boundary(s, th[c].h)
    BY <1>c DEF CpuInv, Reading
  <1>3. Framed(s) /\ Ordered(s) /\ Mapped(ring[c], s)  BY <1>c DEF CpuInv
  <1>4. ring[c].cell[t % Size] = e
    <2>1. t \in ring[c].tail .. ring[c].head - 1  BY <1>t, <1>2, <1>3 DEF Boundary, Mapped
    <2> QED  BY <1>3, <2>1 DEF Mapped
  <1>5. v.t = t + e.len /\ v.blk = Append(blk, <<c, e.id>>)  BY <1>4
  <1> HIDE DEF t, s, blk
  <1>6. /\ e.at = 1 /\ e.len >= 1 /\ t + e.len <= th[c].h
        /\ Boundary(s, t + e.len)
    BY <1>t, <1>2, <1>3, RecordFits DEF t
  <1>7. t + 1 \in 1..Len(s) /\ e \in Cells  BY <1>t, <1>2 DEF Boundary, t
  <1>8. e.id \in Nat /\ e.len \in Nat  BY <1>7 DEF Cells
  <1>o. Older(wr[c], e.id)  BY <1>c, <1>7 DEF CpuInv, Stamped, s
  <1>9. Behind(s, v.t, e.id)
    <2> SUFFICES ASSUME NEW j \in 1..Len(s), v.t < j, s[j].at = 1 PROVE e.id < s[j].id
      BY DEF Behind
    <2>1. t + 1 < j  BY <1>t, <1>5, <1>6, <1>8
    <2> QED  BY <1>3, <1>7, <2>1 DEF Ordered
  <1>b. \A i \in 1..Len(blk) : blk[i][2] < e.id /\ blk[i][1] = c /\ Older(wr[c], blk[i][2])
                               /\ Behind(s, t, blk[i][2])
    <2>1. \A i \in 1..Len(blk) : /\ blk[i][1] = c /\ Behind(s, t, blk[i][2])
                                 /\ Older(wr[c], blk[i][2])
      BY <1>c DEF CpuInv, BlockInOrder, ReadPos, blk, s, t
    <2> QED  BY <1>t, <1>6, <1>7, <2>1 DEF Behind
  <1>d. \A i \in 1..Len(db) : db[i].cpu = c =>
            \A k \in 1..Len(db[i].rows) : db[i].rows[k][2] < e.id
    <2>1. \A i \in 1..Len(db) : db[i].cpu = c =>
              \A k \in 1..Len(db[i].rows) : Behind(s, ring[c].tail, db[i].rows[k][2])
      BY <1>c DEF CpuInv, RowsBefore, RowBefore, s
    <2>2. ring[c].tail < t + 1  BY ONLY <1>t, <1>2
    <2> QED  BY ONLY <1>6, <1>7, <2>1, <2>2 DEF Behind
  <1> DEFINE id == e.id
             row == <<c, id>>
  <1>w. row[1] = c /\ row[2] = id /\ row \in Rows  BY <1>8 DEF Rows
  <1> HIDE DEF row
  <1>l. /\ Len(v.blk) = Len(blk) + 1 /\ Len(blk) \in Nat
        /\ \A i \in 1..Len(blk) : v.blk[i] = blk[i]
        /\ v.blk[Len(blk) + 1] = row
    <2>1. v.blk = Append(blk, row)  BY <1>5 DEF row
    <2>2. \A r : r = Append(blk, row) =>
             /\ Len(r) = Len(blk) + 1 /\ Len(blk) \in Nat
             /\ \A i \in 1..Len(blk) : r[i] = blk[i]
             /\ r[Len(blk) + 1] = row
      BY <1>t, <1>w, Appended
    <2> QED  BY <2>1, <2>2
  <1>n. Len(v.blk) = Len(blk) + 1 /\ Len(blk) \in Nat  BY <1>l
  <1>i. \A i \in 1..Len(v.blk) : i \in 1..Len(blk) \/ i = Len(blk) + 1  BY ONLY <1>n
  <1>k. v.blk[Len(blk) + 1][1] = c /\ v.blk[Len(blk) + 1][2] = id  BY <1>l, <1>w
  <1>10. ASSUME NEW d \in Cpus PROVE CpuInv(d)'
    <2>0. CpuInv(d)  BY DEF IInv
    <2>a. th'[c] = v /\ (d # c => th'[d] = th[d])  BY <1>0 DEF TypeOK, OnlyWorker
    <2>b. UNCHANGED <<ring, wr, dropped, sent, events, db>>  BY DEF OnlyWorker
    <2>1. /\ Mapped(ring[d], sent[d])' /\ Framed(sent[d])' /\ Ordered(sent[d])'
          /\ Writing(wr[d], ring[d], Total(d))'
          /\ Stamped(d)'
      BY <2>0, <2>b DEF CpuInv, Stamped, Total, Older
    <2>2. CASE d # c
      BY <2>0, <2>1, <2>2, <2>a, <2>b
         DEF CpuInv, Reading, Boundary, BlockInOrder, RowsBefore, RowBefore, ReadPos, Older
    <2>3. CASE d = c
      <3>1. Reading(th[c], ring[c], sent[c])'
        <4>1. Boundary(s, ring[c].tail)  BY <1>c DEF CpuInv, Reading, s
        <4>2. ring[c].tail <= v.t /\ v.t <= v.h  BY <1>t, <1>2, <1>5, <1>6, <1>8
        <4> QED
          BY <1>2, <1>5, <1>6, <2>a, <2>b, <4>1, <4>2 DEF Reading, Boundary, s
      <3>2. BlockInOrder(c)'
        <4>1. \A i \in 1..Len(blk) : Behind(s, v.t, blk[i][2])
          BY <1>t, <1>b, <1>5, <1>6, <1>8 DEF Behind
        <4>2. ASSUME NEW i \in 1..Len(v.blk)
              PROVE  v.blk[i][1] = c /\ Behind(s, v.t, v.blk[i][2]) /\ Older(wr[c], v.blk[i][2])
          <5>1. CASE i \in 1..Len(blk)
            <6>1. v.blk[i] = blk[i]  BY <1>l, <5>1
            <6> QED  BY <1>b, <4>1, <5>1, <6>1
          <5>2. CASE i = Len(blk) + 1  BY <1>k, <1>9, <1>o, <5>2
          <5> QED  BY <1>i, <5>1, <5>2
        <4>3. ASSUME NEW i \in 1..Len(v.blk), NEW j \in 1..Len(v.blk), i < j
              PROVE  v.blk[i][2] < v.blk[j][2]
          <5>1. CASE j \in 1..Len(blk)
            <6>1. i \in 1..Len(blk)
              BY ONLY i \in 1..Len(v.blk), i < j, <5>1, <1>n
            <6> QED
              BY <1>c, <1>l, <4>3, <5>1, <6>1 DEF CpuInv, BlockInOrder, Sorted, blk
          <5>2. CASE j = Len(blk) + 1
            <6>1. i \in 1..Len(blk)
              BY ONLY i \in 1..Len(v.blk), i < j, <5>2, <1>n
            <6> QED  BY <1>b, <1>k, <1>l, <5>2, <6>1
          <5> QED  BY <1>i, <5>1, <5>2
        <4> QED  BY <2>a, <2>b, <4>2, <4>3 DEF BlockInOrder, Sorted, ReadPos, Older, s
      <3>3. RowsBefore(c)'
        <4>1. ASSUME NEW i \in 1..Len(db), db[i].cpu = c PROVE MayFollow(v.blk, db[i])
          <5>0. MayFollow(blk, db[i])  BY <1>c, <4>1 DEF CpuInv, RowsBefore, blk
          <5>1. CASE Precede(db[i].rows, blk)
            <6>1. ASSUME NEW k \in 1..Len(db[i].rows), NEW j \in 1..Len(v.blk)
                  PROVE  db[i].rows[k][2] < v.blk[j][2]
              <7>1. CASE j \in 1..Len(blk)  BY <1>l, <5>1, <7>1 DEF Precede
              <7>2. CASE j = Len(blk) + 1  BY <1>d, <1>k, <4>1, <7>2
              <7> QED  BY <1>i, <7>1, <7>2
            <6> QED  BY <6>1 DEF MayFollow, Precede
          <5>2. CASE ~db[i].ok /\ Begins(db[i].rows, blk)
            <6>0. Len(db[i].rows) \in Nat
              <7>1. db[i] \in Blocks  BY <1>0 DEF TypeOK
              <7>2. db[i].rows \in Seq(Rows)  BY <7>1 DEF Blocks
              <7> QED  BY <7>2
            <6>1. Len(db[i].rows) <= Len(v.blk)  BY <1>n, <5>2, <6>0 DEF Begins
            <6>2. ASSUME NEW k \in 1..Len(db[i].rows) PROVE v.blk[k] = db[i].rows[k]
              <7>1. k \in 1..Len(blk)  BY <1>n, <5>2, <6>0 DEF Begins
              <7> QED  BY <1>l, <5>2, <7>1 DEF Begins
            <6> QED  BY <5>2, <6>1, <6>2 DEF MayFollow, Begins
          <5> QED  BY <5>0, <5>1, <5>2 DEF MayFollow
        <4> QED  BY <1>c, <2>a, <2>b, <4>1 DEF CpuInv, RowsBefore, RowBefore, Older
      <3> QED  BY <2>1, <2>3, <3>1, <3>2, <3>3 DEF CpuInv
    <2> QED  BY <2>2, <2>3
  <1>11. RowsOnceInOrder'  BY DEF IInv, RowsOnceInOrder, OnlyWorker
  <1> QED  BY <1>1, <1>10, <1>11 DEF IInv

\* What the writer has reserved still fits in if the tail moves on.
LEMMA RoomKept ==
    ASSUME NEW r \in Nat, NEW p \in Nat, NEW h \in Nat, NEW t \in Nat, NEW u \in Nat,
           t <= u, r + p + (h - t) < Size
    PROVE  r + p + (h - u) < Size
  BY SizeAssumption

\* The tail is moved to the head that consume() has seen, behind what was read
\* or, after an exception, skipped.
LEMMA TailStep ==
    ASSUME IInv, NEW c \in Cpus, th[c].pc = "read",
           NEW v \in Threads, v.pc # "read", v.blk = th[c].blk \/ v.blk = <<>>,
           ring' = [ring EXCEPT ![c].tail = th[c].h], th' = [th EXCEPT ![c] = v],
           UNCHANGED <<wr, dropped, sent, events, db>>
    PROVE  IInv'
  <1>0. TypeOK /\ th[c].h \in Nat  BY DEF IInv, TypeOK, Threads
  <1>r. /\ ring'[c].tail = th[c].h /\ ring'[c].head = ring[c].head
        /\ ring'[c].cell = ring[c].cell
        /\ \A d \in Cpus \ {c} : ring'[d] = ring[d]
        /\ ring' \in [Cpus -> Rings]
    BY <1>0 DEF TypeOK, Rings
  <1>t. th'[c] = v /\ \A d \in Cpus \ {c} : th'[d] = th[d]  BY <1>0 DEF TypeOK
  <1>1. TypeOK'  BY <1>0, <1>r DEF TypeOK
  <1>2. ASSUME NEW d \in Cpus PROVE CpuInv(d)'
    <2>0. CpuInv(d)  BY DEF IInv
    <2>1. CASE d # c
      BY <1>r, <1>t, <2>0, <2>1
         DEF CpuInv, Reading, Boundary, Stamped, BlockInOrder, RowsBefore, RowBefore,
             ReadPos, Older, Total
    <2>2. CASE d = c
      <3>n. /\ ring[c].tail \in Nat /\ ring[c].head \in Nat /\ th[c].t \in Nat
            /\ wr[c] \in Writers /\ Len(sent[c]) \in Nat
        <4>1. ring[c] \in Rings /\ sent[c] \in Seq(Cells) /\ th[c] \in Threads
              /\ wr[c] \in Writers
          BY <1>0 DEF TypeOK
        <4> QED  BY <4>1 DEF Rings, Threads
      <3>c. /\ CpuInv(c) /\ ring[c].tail <= th[c].t /\ th[c].t <= th[c].h
            /\ Boundary(sent[c], th[c].h)
        BY <2>0, <2>2 DEF CpuInv, Reading
      <3>h. th[c].h <= ring[c].head  BY <3>c DEF CpuInv, Mapped, Boundary
      <3>1. Mapped(ring[c], sent[c])'
        BY <1>0, <1>r, <3>n, <3>c, <3>h, SizeAssumption, SMTT(30) DEF CpuInv, Mapped
      <3>2. Framed(sent[c])' /\ Ordered(sent[c])'  BY <3>c DEF CpuInv
      <3>3. Writing(wr[c], ring[c], Total(c))'
        <4> SUFFICES ASSUME wr[c].st = "write"
                     PROVE  Writing(wr[c], ring'[c], Total(c))
          BY DEF Writing, Total
        <4>1. wr[c].room \in Nat /\ wr[c].p \in Nat  BY <3>n DEF Writers
        <4>2. wr[c].room + wr[c].p + (ring[c].head - ring[c].tail) < Size
          BY <3>c DEF CpuInv, Writing
        <4>3. wr[c].room + wr[c].p + (ring[c].head - th[c].h) < Size
          <5>1. ring[c].tail <= th[c].h  BY <1>0, <3>n, <3>c
          <5> QED  BY <1>0, <3>n, <4>1, <4>2, <5>1, RoomKept
        <4> QED  BY <1>r, <3>c, <4>3 DEF CpuInv, Writing
      <3>4. Reading(th[c], ring[c], sent[c])'
        BY <1>r, <1>t, <3>c DEF Reading, Boundary
      <3>5. Stamped(c)'
        BY <3>c DEF CpuInv, Stamped, Older
      <3>6. BlockInOrder(c)'
        <4>1. CASE v.blk = <<>>  BY <1>t, <4>1 DEF BlockInOrder, Sorted
        <4>2. CASE v.blk = th[c].blk
          <5>1. \A i \in 1..Len(th[c].blk) : Behind(sent[c], th[c].h, th[c].blk[i][2])
            <6>1. \A i \in 1..Len(th[c].blk) : Behind(sent[c], th[c].t, th[c].blk[i][2])
              BY <3>c DEF CpuInv, BlockInOrder, ReadPos
            <6> QED  BY <1>0, <3>n, <3>c, <6>1, SMTT(30) DEF Behind
          <5> QED
            BY <1>r, <1>t, <3>c, <4>2, <5>1 DEF CpuInv, BlockInOrder, ReadPos, Older
        <4> QED  BY <4>1, <4>2
      <3>7. RowsBefore(c)'
        <4>1. ASSUME NEW i \in 1..Len(db), db[i].cpu = c, NEW k \in 1..Len(db[i].rows)
              PROVE  RowBefore(c, db[i].rows[k])'
          <5>1. Behind(sent[c], ring[c].tail, db[i].rows[k][2]) /\ Older(wr[c], db[i].rows[k][2])
            BY <3>c, <4>1 DEF CpuInv, RowsBefore, RowBefore
          <5>2. Behind(sent[c], th[c].h, db[i].rows[k][2])
            <6>1. \A j \in 1..Len(sent[c]) : th[c].h < j => ring[c].tail < j
              BY <1>0, <3>n, <3>c
            <6> QED  BY <5>1, <6>1 DEF Behind
          <5> QED  BY <1>r, <5>1, <5>2 DEF RowBefore, Older
        <4>2. ASSUME NEW i \in 1..Len(db), db[i].cpu = c PROVE MayFollow(v.blk, db[i])
          <5>1. MayFollow(th[c].blk, db[i])  BY <3>c, <4>2 DEF CpuInv, RowsBefore
          <5> QED  BY <5>1, FollowsEmpty
        <4> QED  BY <1>t, <4>1, <4>2 DEF RowsBefore
      <3> QED  BY <2>2, <3>1, <3>2, <3>3, <3>4, <3>5, <3>6, <3>7 DEF CpuInv
    <2> QED  BY <2>1, <2>2
  <1>3. RowsOnceInOrder'  BY DEF IInv, RowsOnceInOrder
  <1> QED  BY <1>1, <1>2, <1>3 DEF IInv

-----------------------------------------------------------------------------
(* The writer. *)

\* The part of the invariant that compares identifiers.
Stamps(c) ==
    Stamped(c) /\ BlockInOrder(c) /\ RowsBefore(c)

\* It is kept if records, rows and the worker do not change, and what was older
\* than the next record still is.
LEMMA StampsKept ==
    ASSUME IInv, NEW d \in Cpus, UNCHANGED <<th, sent, db>>,
           ring'[d].tail = ring[d].tail, wr'[d].st = "write" => wr'[d].id <= events',
           ASSUME NEW id \in Nat, Older(wr[d], id) PROVE Older(wr[d], id)'
    PROVE  Stamps(d)'
  <1>0. CpuInv(d)  BY DEF IInv
  <1>t. sent[d] \in Seq(Cells) /\ th[d] \in Threads /\ db \in Seq(Blocks)
    BY DEF IInv, TypeOK
  <1>3. Stamped(d)'
    <2>1. \A i \in 1..Len(sent[d]) : sent[d][i] \in Cells  BY <1>t
    <2>2. \A i \in 1..Len(sent[d]) : sent[d][i].id \in Nat  BY <2>1 DEF Cells
    <2>3. \A i \in 1..Len(sent[d]) : Older(wr[d], sent[d][i].id)  BY <1>0 DEF CpuInv, Stamped
    <2>4. ASSUME NEW i \in 1..Len(sent[d]) PROVE Older(wr[d], sent[d][i].id)'
      BY <2>2, <2>3
    <2> QED  BY <2>4 DEF Stamped
  <1>4. BlockInOrder(d)'
    <2>1. \A i \in 1..Len(th[d].blk) : th[d].blk[i][2] \in Nat  BY <1>t DEF Threads, Rows
    <2>2. \A i \in 1..Len(th[d].blk) : Older(wr[d], th[d].blk[i][2])
      BY <1>0 DEF CpuInv, BlockInOrder
    <2>3. ASSUME NEW i \in 1..Len(th[d].blk) PROVE Older(wr[d], th[d].blk[i][2])'
      BY <2>1, <2>2
    <2> QED  BY <1>0, <2>3 DEF CpuInv, BlockInOrder, ReadPos
  <1>5. RowsBefore(d)'
    <2>1. ASSUME NEW i \in 1..Len(db), db[i].cpu = d, NEW k \in 1..Len(db[i].rows)
          PROVE  RowBefore(d, db[i].rows[k])'
      <3>1. db[i].rows[k][2] \in Nat
        <4>1. db[i] \in Blocks  BY <1>t
        <4>2. db[i].rows \in Seq(Rows)  BY <4>1 DEF Blocks
        <4>3. db[i].rows[k] \in Rows  BY <4>2
        <4> QED  BY <4>3 DEF Rows
      <3>2. RowBefore(d, db[i].rows[k])  BY <1>0, <2>1 DEF CpuInv, RowsBefore
      <3>3. Older(wr[d], db[i].rows[k][2])'  BY <3>1, <3>2 DEF RowBefore
      <3> QED  BY <3>2, <3>3 DEF RowBefore
    <2> QED  BY <1>0, <2>1 DEF CpuInv, RowsBefore
  <1> QED  BY <1>3, <1>4, <1>5 DEF Stamps

\* The writer gives a record up, or does not even begin it.
LEMMA DropStep ==
    ASSUME IInv, NEW c \in Cpus, NEW n \in Nat, NEW w \in Writers, w.st = "idle",
           wr' = [wr EXCEPT ![c] = w], dropped' = [dropped EXCEPT ![c] = n],
           events' \in Nat, events' >= events,
           UNCHANGED <<ring, th, sent, db>>
    PROVE  IInv'
  <1>0. TypeOK  BY DEF IInv
  <1>1. TypeOK'  BY <1>0 DEF TypeOK
  <1>w. /\ wr'[c] = w
        /\ \A d \in Cpus \ {c} : wr'[d] = wr[d] /\ dropped'[d] = dropped[d]
    BY <1>0 DEF TypeOK
  <1>2. ASSUME NEW d \in Cpus PROVE CpuInv(d)'
    <2>0. CpuInv(d)  BY DEF IInv
    <2>t. /\ wr[d] \in Writers /\ sent[d] \in Seq(Cells) /\ th[d] \in Threads
          /\ events \in Nat
      BY <1>0 DEF TypeOK
    <2>o. ASSUME NEW id \in Nat, Older(wr[d], id) PROVE Older(wr[d], id)'
      <3>1. CASE d = c  BY <1>w, <2>o, <2>t, <3>1 DEF Older
      <3>2. CASE d # c
        <4>1. wr'[d] = wr[d] /\ wr[d].id \in Nat  BY <1>w, <2>t, <3>2 DEF Writers
        <4> QED  BY <2>o, <2>t, <4>1 DEF Older
      <3> QED  BY <3>1, <3>2
    <2>i. wr'[d].st = "write" => wr'[d].id <= events'
      <3>1. wr[d].id \in Nat /\ (wr[d].st = "write" => wr[d].id <= events)
        BY <2>0, <2>t DEF CpuInv, Stamped, Writers
      <3> QED  BY <1>w, <2>t, <3>1
    <2>1. /\ Mapped(ring[d], sent[d])' /\ Framed(sent[d])' /\ Ordered(sent[d])'
          /\ Reading(th[d], ring[d], sent[d])'
      BY <2>0 DEF CpuInv
    <2>2. Writing(wr[d], ring[d], Total(d))'
      BY <1>w, <2>0 DEF CpuInv, Writing, Total
    <2>3. Stamps(d)'  BY <2>0, <2>o, <2>i, StampsKept
    <2> QED  BY <2>1, <2>2, <2>3 DEF CpuInv, Stamps
  <1>3. RowsOnceInOrder'  BY DEF IInv, RowsOnceInOrder
  <1> QED  BY <1>1, <1>2, <1>3 DEF IInv

\* A record that is begun has a larger identifier than all before it, and the
\* room that is free now.
LEMMA BeginStep ==
    ASSUME IInv, NEW c \in Cpus, NEW len \in Lens,
           wr' = [wr EXCEPT ![c] = [st |-> "write", room |-> GetRoom(ring[c]), p |-> 0,
                                    id |-> events + 1, len |-> len]],
           events' = events + 1,
           UNCHANGED <<ring, dropped, th, sent, db>>
    PROVE  IInv'
  <1>0. TypeOK  BY DEF IInv
  <1>r. /\ ring[c].head \in Nat /\ ring[c].tail \in Nat /\ events \in Nat
        /\ dropped[c] \in Nat /\ len \in Nat /\ len >= 1
    <2>1. ring[c] \in Rings /\ dropped[c] \in Nat /\ events \in Nat  BY <1>0 DEF TypeOK
    <2> QED  BY <2>1, RecordAssumption DEF Rings
  <1>m. ring[c].tail <= ring[c].head /\ ring[c].head - ring[c].tail < Size
    BY DEF IInv, CpuInv, Mapped
  <1>g. GetRoom(ring[c]) \in Nat /\ GetRoom(ring[c]) + (ring[c].head - ring[c].tail) < Size
    BY <1>r, <1>m, SizeAssumption DEF GetRoom
  <1> DEFINE w == [st |-> "write", room |-> GetRoom(ring[c]), p |-> 0,
                   id |-> events + 1, len |-> len]
  <1>w. /\ w \in Writers /\ w.st = "write" /\ w.room = GetRoom(ring[c]) /\ w.p = 0
        /\ w.id = events + 1 /\ w.len = len
    BY <1>g, <1>r DEF Writers
  <1> HIDE DEF w
  <1>v. wr'[c] = w /\ \A d \in Cpus \ {c} : wr'[d] = wr[d]  BY <1>0 DEF TypeOK, w
  <1>1. TypeOK'  BY <1>0, <1>w, <1>r DEF TypeOK, w
  <1>2. ASSUME NEW d \in Cpus PROVE CpuInv(d)'
    <2>0. CpuInv(d)  BY DEF IInv
    <2>t. /\ wr[d] \in Writers /\ sent[d] \in Seq(Cells) /\ th[d] \in Threads
      BY <1>0 DEF TypeOK
    <2>o. ASSUME NEW id \in Nat, Older(wr[d], id) PROVE Older(wr[d], id)'
      <3>1. CASE d = c  BY <1>v, <1>w, <1>r, <2>o, <3>1 DEF Older
      <3>2. CASE d # c
        <4>1. wr'[d] = wr[d] /\ wr[d].id \in Nat  BY <1>v, <2>t, <3>2 DEF Writers
        <4> QED  BY <2>o, <1>r, <4>1 DEF Older
      <3> QED  BY <3>1, <3>2
    <2>i. wr'[d].st = "write" => wr'[d].id <= events'
      <3>1. wr[d].id \in Nat /\ (wr[d].st = "write" => wr[d].id <= events)
        BY <2>0, <2>t DEF CpuInv, Stamped, Writers
      <3> QED  BY <1>v, <1>w, <1>r, <3>1
    <2>1. /\ Mapped(ring[d], sent[d])' /\ Framed(sent[d])' /\ Ordered(sent[d])'
          /\ Reading(th[d], ring[d], sent[d])'
      BY <2>0 DEF CpuInv
    <2>2. Writing(wr[d], ring[d], Total(d))'
      <3>1. CASE d = c
        <4>1. w.room + w.p + (ring[c].head - ring[c].tail) < Size
          BY <1>g, <1>w, <1>r
        <4>2. w.p <= Total(c)'  BY <1>r, <1>v, <1>w DEF Total
        <4>3. \A j \in 0 .. w.p - 1 : FALSE  BY <1>w
        <4> QED  BY <1>r, <1>v, <1>w, <3>1, <4>1, <4>2, <4>3 DEF Writing
      <3>2. CASE d # c  BY <1>v, <2>0, <3>2 DEF CpuInv, Writing, Total
      <3> QED  BY <3>1, <3>2
    <2>3. Stamps(d)'  BY <2>0, <2>o, <2>i, StampsKept
    <2> QED  BY <2>1, <2>2, <2>3 DEF CpuInv, Stamps
  <1>3. RowsOnceInOrder'  BY DEF IInv, RowsOnceInOrder
  <1> QED  BY <1>1, <1>2, <1>3 DEF IInv

\* What LogWrite() changes if there is room.
Wrote(c, e) ==
    /\ wr' \in [Cpus -> Writers] /\ ring' \in [Cpus -> Rings]
    /\ wr'[c].room = wr[c].room - 1 /\ wr'[c].p = wr[c].p + 1
    /\ wr'[c].st = "write" /\ wr'[c].id = wr[c].id /\ wr'[c].len = wr[c].len
    /\ ring'[c].head = ring[c].head /\ ring'[c].tail = ring[c].tail
    /\ ring'[c].cell = [ring[c].cell EXCEPT ![(ring[c].head + wr[c].p) % Size] = e]
    /\ \A d \in Cpus \ {c} : wr'[d] = wr[d] /\ ring'[d] = ring[d]

\* WRITE_FIELD() with room left writes one cell and nothing else.
LEMMA WriteEffect ==
    ASSUME TypeOK, NEW c \in Cpus, wr[c].st = "write", wr[c].room # 0,
           NEW e \in Cells,
           wr' = [wr EXCEPT ![c].room = @ - 1, ![c].p = @ + 1],
           ring' = [ring EXCEPT ![c].cell[(ring[c].head + wr[c].p) % Size] = e]
    PROVE  Wrote(c, e)
  <1>1. wr[c] \in Writers /\ ring[c] \in Rings  BY DEF TypeOK
  <1>2. wr[c].room - 1 \in Nat /\ wr[c].p + 1 \in Nat  BY <1>1 DEF Writers
  <1>3. /\ wr'[c].room = wr[c].room - 1 /\ wr'[c].p = wr[c].p + 1
        /\ wr'[c].st = "write" /\ wr'[c].id = wr[c].id /\ wr'[c].len = wr[c].len
        /\ \A d \in Cpus \ {c} : wr'[d] = wr[d]
    BY <1>1 DEF TypeOK, Writers
  <1>4. wr' \in [Cpus -> Writers]  BY <1>2 DEF TypeOK, Writers
  <1>5. [ring[c].cell EXCEPT ![(ring[c].head + wr[c].p) % Size] = e] \in [0..Size-1 -> Cells]
    BY <1>1 DEF Rings
  <1>6. /\ ring'[c].head = ring[c].head /\ ring'[c].tail = ring[c].tail
        /\ ring'[c].cell = [ring[c].cell EXCEPT ![(ring[c].head + wr[c].p) % Size] = e]
        /\ \A d \in Cpus \ {c} : ring'[d] = ring[d]
    BY <1>1 DEF TypeOK, Rings
  <1>7. ring' \in [Cpus -> Rings]  BY <1>5 DEF TypeOK, Rings
  <1> QED  BY <1>3, <1>4, <1>6, <1>7 DEF Wrote

\* A cell is written behind the head, into a slot that nobody reads.
LEMMA WriteStep ==
    ASSUME IInv, NEW c \in Cpus, wr[c].st = "write", wr[c].p < Total(c), wr[c].room # 0,
           NEW e \in Cells, e.id = wr[c].id, e.at = wr[c].p + 1, e.len = Total(c),
           Wrote(c, e), UNCHANGED <<dropped, th, sent, events, db>>
    PROVE  IInv'
  <1>0. TypeOK  BY DEF IInv
  <1> DEFINE b == ring[c]
             w == wr[c]
             k == (b.head + w.p) % Size
             n == Total(c)
  <1>b. /\ b \in Rings /\ b.head \in Nat /\ b.tail \in Nat /\ b.cell \in [0..Size-1 -> Cells]
        /\ w \in Writers /\ w.room \in Nat /\ w.p \in Nat /\ w.len \in Nat
    <2>1. b \in Rings /\ w \in Writers  BY <1>0 DEF TypeOK
    <2> QED  BY <2>1 DEF Rings, Writers
  <1>d. dropped[c] \in Nat  BY <1>0 DEF TypeOK
  <1>n. n \in Nat  BY <1>b, <1>d DEF Total
  <1>z. Size \in Nat \ {0}  BY SizeAssumption
  <1>k. k \in 0..Size-1
    <2>1. b.head + w.p \in Nat  BY <1>b
    <2> HIDE DEF b, w
    <2> QED  BY <1>z, <2>1, DivMod
  <1>m. /\ b.head = Len(sent[c]) /\ b.tail <= b.head /\ b.head - b.tail < Size
        /\ \A i \in b.tail .. b.head - 1 : b.cell[i % Size] = sent[c][i + 1]
    BY DEF IInv, CpuInv, Mapped
  <1>w. /\ w.room + w.p + (b.head - b.tail) < Size
        /\ w.len >= 1 /\ w.p <= n
        /\ \A j \in 0 .. w.p - 1 :
             /\ b.cell[(b.head + j) % Size].id = w.id
             /\ b.cell[(b.head + j) % Size].at = j + 1
             /\ b.cell[(b.head + j) % Size].len = n
    BY DEF IInv, CpuInv, Writing
  <1>f. /\ ring'[c].head = b.head /\ ring'[c].tail = b.tail
        /\ ring'[c].cell = [b.cell EXCEPT ![k] = e]
        /\ \A d \in Cpus \ {c} : ring'[d] = ring[d]
    BY DEF Wrote
  <1>g. /\ wr'[c].room = w.room - 1 /\ wr'[c].p = w.p + 1 /\ wr'[c].st = "write"
        /\ wr'[c].id = w.id /\ wr'[c].len = w.len
        /\ \A d \in Cpus \ {c} : wr'[d] = wr[d]
    BY DEF Wrote
  <1>t. Total(c)' = n  BY <1>g DEF Total
  <1>p. w.p < n /\ e.id = w.id /\ e.at = w.p + 1 /\ e.len = n /\ w.room # 0  OBVIOUS
  <1>1. TypeOK'  BY <1>0 DEF TypeOK, Wrote
  <1> HIDE DEF b, w, k, n
  <1>e. \A i \in Nat : i < b.head + w.p /\ b.tail <= i => i % Size # k
    <2> SUFFICES ASSUME NEW i \in Nat, i < b.head + w.p, b.tail <= i, i % Size = k
                 PROVE  FALSE
      OBVIOUS
    <2>1. (b.head + w.p) - i < Size  BY <1>b, <1>w, SizeAssumption
    <2>2. /\ b.head + w.p \in Nat /\ i < (b.head + w.p) + Size
          /\ b.head + w.p < i + Size
      BY <1>b, <1>z, <2>1
    <2>3. i % Size = (b.head + w.p) % Size  BY DEF k
    <2>4. i = b.head + w.p  BY <1>z, <2>2, <2>3, ModInjective
    <2> QED  BY <1>b, <2>4
  <1>s. \A i \in Nat : i % Size \in 0..Size-1  BY DivMod, SizeAssumption
  <1>u. \A i \in Nat : i < b.head + w.p /\ b.tail <= i => ring'[c].cell[i % Size] = b.cell[i % Size]
    BY <1>b, <1>e, <1>f, <1>s
  <1>x. ring'[c].cell[k] = e  BY <1>b, <1>f, <1>k
  <1>2. ASSUME NEW d \in Cpus PROVE CpuInv(d)'
    <2>0. CpuInv(d)  BY DEF IInv
    <2>1. CASE d # c
      <3>1. ring'[d] = ring[d] /\ wr'[d] = wr[d] /\ dropped'[d] = dropped[d]
        BY <1>f, <1>g, <2>1
      <3>2. Stamps(d)'  BY <2>0, <3>1 
        DEF CpuInv, Stamps, Stamped, BlockInOrder, RowsBefore, RowBefore, ReadPos, Older
      <3> QED  BY <2>0, <3>1, <3>2 DEF CpuInv, Stamps, Total
    <2>2. CASE d = c
      <3>1. Mapped(ring[c], sent[c])'
        <4>1. ASSUME NEW i \in b.tail .. b.head - 1
              PROVE  ring'[c].cell[i % Size] = sent[c][i + 1]
          <5>1. i \in Nat /\ i < b.head + w.p /\ b.tail <= i  BY <1>b
          <5> QED  BY <1>m, <1>u, <5>1
        <4> QED  BY <1>f, <1>m, <4>1 DEF Mapped
      <3>2. Framed(sent[c])' /\ Ordered(sent[c])' /\ Reading(th[c], ring[c], sent[c])'
        BY <1>f, <2>0, <2>2 DEF CpuInv, Reading, b
      <3>3. Writing(wr[c], ring[c], Total(c))'
        <4>1. (w.room - 1) + (w.p + 1) + (b.head - b.tail) < Size
          <5>1. (w.room - 1) + (w.p + 1) = w.room + w.p  BY <1>b
          <5> QED  BY <1>b, <1>w, <5>1
        <4>2. w.p + 1 <= n  BY <1>b, <1>n, <1>p
        <4>3. ASSUME NEW j \in 0 .. (w.p + 1) - 1
              PROVE  /\ ring'[c].cell[(b.head + j) % Size].id = w.id
                     /\ ring'[c].cell[(b.head + j) % Size].at = j + 1
                     /\ ring'[c].cell[(b.head + j) % Size].len = n
          <5>1. CASE j = w.p  BY <1>p, <1>x, <5>1 DEF k
          <5>2. CASE j # w.p
            <6>1. j \in 0..w.p - 1 /\ b.head + j \in Nat /\ b.head + j < b.head + w.p
                  /\ b.tail <= b.head + j
              BY <1>b, <1>m, <5>2, SMTT(30)
            <6>2. ring'[c].cell[(b.head + j) % Size] = b.cell[(b.head + j) % Size]
              BY <1>u, <6>1
            <6> QED  BY <1>w, <6>1, <6>2
          <5> QED  BY <5>1, <5>2
        <4> QED  BY <1>f, <1>g, <1>t, <1>w, <4>1, <4>2, <4>3 DEF Writing
      <3>4. Stamps(c)'
        <4>1. ASSUME NEW id \in Nat, Older(wr[c], id) PROVE Older(wr[c], id)'
          BY <1>g, <4>1 DEF Older, w
        <4>2. ring'[c].tail = ring[c].tail  BY <1>f DEF b
        <4>3. wr'[c].st = "write" => wr'[c].id <= events'
          BY <1>g, <2>0, <2>2 DEF CpuInv, Stamped, w
        <4> QED  BY <4>1, <4>2, <4>3, StampsKept
      <3> QED  BY <2>2, <3>1, <3>2, <3>3, <3>4 DEF CpuInv, Stamps
    <2> QED  BY <2>1, <2>2
  <1>3. RowsOnceInOrder'  BY DEF IInv, RowsOnceInOrder
  <1> QED  BY <1>1, <1>2, <1>3 DEF IInv

\* The cells of one record.
Record(r, id) ==
    /\ Len(r) >= 1
    /\ \A i \in 1..Len(r) : r[i].at = i /\ r[i].len = Len(r) /\ r[i].id = id

\* A record behind others keeps them in order and in frame, if it is younger.
LEMMA RecordAppended ==
    ASSUME NEW s \in Seq(Cells), NEW r \in Seq(Cells), NEW id \in Nat,
           Framed(s), Ordered(s), Record(r, id), \A i \in 1..Len(s) : s[i].id < id
    PROVE  /\ Framed(s \o r) /\ Ordered(s \o r)
           /\ \A p \in Nat : Boundary(s, p) => Boundary(s \o r, p)
           /\ \A p \in Nat, x \in Nat : Behind(s, p, x) /\ x < id => Behind(s \o r, p, x)
  <1> DEFINE z == s \o r
             m == Len(s)
             n == Len(r)
  <1>1. m \in Nat /\ n \in Nat /\ Len(z) = m + n /\ z \in Seq(Cells) /\ n >= 1
    BY DEF Record
  <1>2. \A i \in 1..m : z[i] = s[i]  OBVIOUS
  <1>3. \A i \in 1..Len(z) : i > m => /\ i - m \in 1..n /\ z[i] = r[i - m]
    BY <1>1
  <1>t. /\ \A i \in 1..m : s[i].len \in Nat /\ s[i].id \in Nat /\ s[i].at \in Nat
    <2>1. \A i \in 1..m : s[i] \in Cells  OBVIOUS
    <2> QED  BY <2>1 DEF Cells
  <1> HIDE DEF z, m, n
  <1>4. \A i \in 1..Len(z) : i > m => /\ z[i].at = i - m /\ z[i].len = n /\ z[i].id = id
    BY <1>3 DEF Record, n
  <1>5. \A i \in 1..Len(z) : i > m /\ z[i].at = 1 => i = m + 1  BY <1>1, <1>4
  <1>6. Framed(z)
    <2> SUFFICES ASSUME NEW i \in 1..Len(z), z[i].at = 1
                 PROVE  /\ z[i].len >= 1 /\ i + z[i].len <= Len(z) + 1
                        /\ i + z[i].len <= Len(z) => z[i + z[i].len].at = 1
                        /\ \A j \in i+1 .. i + z[i].len - 1 : z[j].at # 1
      BY DEF Framed
    <2>1. CASE i > m
      <3>1. i = m + 1 /\ z[i].len = n  BY <1>4, <1>5, <2>1
      <3>2. ASSUME NEW j \in i+1 .. i + n - 1 PROVE z[j].at # 1
        <4>1. j \in 1..Len(z) /\ j > m /\ j # m + 1  BY <1>1, <3>1
        <4> QED  BY <1>5, <4>1
      <3> QED  BY <1>1, <3>1, <3>2
    <2>2. CASE i <= m
      <3>1. i \in 1..m /\ z[i] = s[i]  BY <1>1, <1>2, <2>2
      <3> DEFINE l == s[i].len
      <3>2. /\ l >= 1 /\ i + l <= m + 1
            /\ i + l <= m => s[i + l].at = 1
            /\ \A j \in i+1 .. i + l - 1 : s[j].at # 1
        BY <3>1 DEF Framed, m
      <3>3. l \in Nat  BY <1>t, <3>1
      <3> HIDE DEF l
      <3>4. i + l <= Len(z) => z[i + l].at = 1
        <4>1. CASE i + l <= m
          <5>1. i + l \in 1..m  BY <3>1, <3>3, <4>1, <1>1
          <5> QED  BY <1>2, <3>2, <4>1, <5>1
        <4>2. CASE i + l = m + 1
          <5>1. m + 1 \in 1..Len(z) /\ m + 1 > m /\ (m + 1) - m = 1  BY <1>1
          <5> QED  BY <1>4, <4>2, <5>1
        <4> QED  BY <1>1, <3>1, <3>2, <3>3, <4>1, <4>2
      <3>5. ASSUME NEW j \in i+1 .. i + l - 1 PROVE z[j].at # 1
        <4>1. j \in 1..m  BY <1>1, <3>1, <3>2, <3>3
        <4> QED  BY <1>2, <3>2, <4>1
      <3>6. l >= 1 /\ i + l <= Len(z) + 1  BY <1>1, <3>1, <3>2, <3>3
      <3> QED  BY <3>1, <3>4, <3>5, <3>6 DEF l
    <2> QED  BY <1>1, <2>1, <2>2
  <1>7. Ordered(z)
    <2> SUFFICES ASSUME NEW i \in 1..Len(z), NEW j \in 1..Len(z), i < j, z[j].at = 1
                 PROVE  z[i].id < z[j].id
      BY DEF Ordered
    <2>1. CASE j <= m
      <3>1. i \in 1..m /\ j \in 1..m  BY <1>1, <2>1
      <3> QED  BY <1>2, <3>1 DEF Ordered, m
    <2>2. CASE j > m
      <3>1. j = m + 1 /\ z[j].id = id  BY <1>4, <1>5, <2>2
      <3>2. i \in 1..m  BY <1>1, <3>1
      <3> QED  BY <1>2, <3>1, <3>2 DEF m
    <2> QED  BY <1>1, <2>1, <2>2
  <1>8. ASSUME NEW p \in Nat, Boundary(s, p) PROVE Boundary(z, p)
    <2>1. p <= m /\ (p < m => s[p + 1].at = 1)  BY <1>8 DEF Boundary, m
    <2>2. CASE p < m
      <3>1. p + 1 \in 1..m  BY <1>1, <2>2
      <3> QED  BY <1>1, <1>2, <2>1, <2>2, <3>1 DEF Boundary
    <2>3. CASE p = m
      <3>1. m + 1 \in 1..Len(z) /\ m + 1 > m /\ (m + 1) - m = 1  BY <1>1
      <3> QED  BY <1>1, <1>4, <2>3, <3>1 DEF Boundary
    <2> QED  BY <1>1, <2>1, <2>2, <2>3
  <1>9. ASSUME NEW p \in Nat, NEW x \in Nat, Behind(s, p, x), x < id PROVE Behind(z, p, x)
    <2> SUFFICES ASSUME NEW j \in 1..Len(z), p < j, z[j].at = 1 PROVE x < z[j].id
      BY DEF Behind
    <2>1. CASE j <= m
      <3>1. j \in 1..m  BY <1>1, <2>1
      <3> QED  BY <1>2, <1>9, <3>1 DEF Behind, m
    <2>2. CASE j > m  BY <1>4, <1>9, <2>2
    <2> QED  BY <1>1, <2>1, <2>2
  <1> QED  BY <1>6, <1>7, <1>8, <1>9 DEF z

\* What LogCommit() changes if it accepts the record.
CellsWritten(c) == [i \in 1..wr[c].p |-> ring[c].cell[(ring[c].head + i - 1) % Size]]

Committed(c, r) ==
    /\ ring' \in [Cpus -> Rings]
    /\ ring'[c].head = ring[c].head + wr[c].p /\ ring'[c].tail = ring[c].tail
    /\ ring'[c].cell = ring[c].cell
    /\ \A d \in Cpus \ {c} : ring'[d] = ring[d]
    /\ sent' = [sent EXCEPT ![c] = @ \o r]
    /\ dropped' = [dropped EXCEPT ![c] = 0]
    /\ wr' = [wr EXCEPT ![c] = NoWr]

\* A function on 1..n is a sequence of length n.
LEMMA SeqOfFcn ==
    ASSUME NEW S, NEW n \in Nat, NEW f \in [1..n -> S]
    PROVE  f \in Seq(S) /\ Len(f) = n
  OBVIOUS

\* Two sequences one after the other.
LEMMA Concatenated ==
    ASSUME NEW S, NEW s \in Seq(S), NEW r \in Seq(S)
    PROVE  /\ s \o r \in Seq(S) /\ Len(s \o r) = Len(s) + Len(r)
           /\ \A i \in 1..Len(s) : (s \o r)[i] = s[i]
           /\ \A i \in 1..Len(r) : (s \o r)[Len(s) + i] = r[i]
  OBVIOUS

\* tfw_mmap_buffer_commit() makes the cells behind the head part of what is
\* unread.
LEMMA CommitStep ==
    ASSUME IInv, NEW c \in Cpus, wr[c].st = "write", wr[c].p = Total(c),
           NEW r, r = CellsWritten(c), Committed(c, r), UNCHANGED <<th, events, db>>
    PROVE  IInv'
  <1>0. TypeOK  BY DEF IInv
  <1>z. Size \in Nat \ {0}  BY SizeAssumption
  <1> DEFINE b == ring[c]
             w == wr[c]
             n == w.p
             s == sent[c]
  <1>v. NoWr \in Writers /\ NoWr.st = "idle"  BY DEF NoWr, Writers
  <1>w. /\ wr'[c] = NoWr /\ sent'[c] = s \o r
        /\ \A d \in Cpus \ {c} : wr'[d] = wr[d] /\ dropped'[d] = dropped[d] /\ sent'[d] = sent[d]
    BY <1>0 DEF TypeOK, Committed
  <1>b. /\ b.head \in Nat /\ b.tail \in Nat /\ b.cell \in [0..Size-1 -> Cells]
        /\ w.room \in Nat /\ w.p \in Nat /\ w.id \in Nat /\ w.len \in Nat
        /\ s \in Seq(Cells) /\ dropped[c] \in Nat /\ events \in Nat
    <2>1. b \in Rings /\ w \in Writers /\ s \in Seq(Cells) /\ dropped[c] \in Nat /\ events \in Nat
      BY <1>0 DEF TypeOK
    <2> QED  BY <2>1 DEF Rings, Writers
  <1>c. CpuInv(c)  BY DEF IInv
  <1>m. /\ b.head = Len(s) /\ b.tail <= b.head
        /\ \A i \in b.tail .. b.head - 1 : b.cell[i % Size] = s[i + 1]
    BY <1>c DEF CpuInv, Mapped
  <1>g. /\ w.room + n + (b.head - b.tail) < Size
        /\ n >= 1
        /\ \A j \in 0 .. n - 1 :
             /\ b.cell[(b.head + j) % Size].id = w.id
             /\ b.cell[(b.head + j) % Size].at = j + 1
             /\ b.cell[(b.head + j) % Size].len = n
    <2>1. Writing(w, b, Total(c))  BY <1>c DEF CpuInv
    <2>2. w.len >= 1  BY <2>1 DEF Writing
    <2>3. Total(c) >= 1  BY <1>b, <2>2 DEF Total
    <2> QED  BY <2>1, <2>3 DEF Writing
  <1>n. n \in Nat /\ b.head \in Nat /\ b.tail \in Nat  BY <1>b
  <1> HIDE DEF b, w, s, n
  <1>r. /\ r \in Seq(Cells) /\ Len(r) = n
        /\ \A i \in 1..n : r[i] = b.cell[(b.head + i - 1) % Size]
    <2>1. ASSUME NEW i \in 1..n PROVE b.cell[(b.head + i - 1) % Size] \in Cells
      <3>1. b.head + i - 1 \in Nat  BY <1>n
      <3>2. (b.head + i - 1) % Size \in 0..Size-1  BY <1>z, <3>1, DivMod
      <3> QED  BY <1>b, <3>2
    <2>2. n \in Nat  BY <1>n
    <2>3. r = [i \in 1..n |-> b.cell[(b.head + i - 1) % Size]]  BY DEF CellsWritten, b, w, n
    <2>4. r \in [1..n -> Cells]  BY <2>1, <2>3
    <2>5. r \in Seq(Cells) /\ Len(r) = n  BY <2>2, <2>4, SeqOfFcn
    <2> QED  BY <2>3, <2>5
  <1>q. Record(r, w.id)
    <2>1. ASSUME NEW i \in 1..n PROVE r[i].at = i /\ r[i].len = n /\ r[i].id = w.id
      <3>1. i - 1 \in 0..n-1 /\ b.head + i - 1 = b.head + (i - 1) /\ (i - 1) + 1 = i  BY <1>n
      <3> QED  BY <1>r, <1>g, <3>1
    <2> QED  BY <1>g, <1>r, <2>1 DEF Record
  <1>o. \A i \in 1..Len(s) : s[i].id < w.id  BY <1>c DEF CpuInv, Stamped, Older, s, w
  <1>a. /\ Framed(s \o r) /\ Ordered(s \o r)
        /\ \A p \in Nat : Boundary(s, p) => Boundary(s \o r, p)
        /\ \A p \in Nat, x \in Nat : Behind(s, p, x) /\ x < w.id => Behind(s \o r, p, x)
    BY <1>b, <1>c, <1>r, <1>q, <1>o, RecordAppended DEF CpuInv, s
  <1>l. /\ s \o r \in Seq(Cells) /\ Len(s \o r) = b.head + n
        /\ \A i \in 1..b.head : (s \o r)[i] = s[i]
        /\ \A i \in 1..n : (s \o r)[b.head + i] = r[i]
    <2>1. s \in Seq(Cells) /\ r \in Seq(Cells) /\ Len(s) = b.head /\ Len(r) = n
      BY <1>b, <1>m, <1>r
    <2>2. /\ s \o r \in Seq(Cells) /\ Len(s \o r) = Len(s) + Len(r)
          /\ \A i \in 1..Len(s) : (s \o r)[i] = s[i]
          /\ \A i \in 1..Len(r) : (s \o r)[Len(s) + i] = r[i]
      <3>1. s \in Seq(Cells)  BY <2>1
      <3>2. r \in Seq(Cells)  BY <2>1
      <3> QED  BY ONLY <3>1, <3>2, Concatenated
    <2> QED  BY <2>1, <2>2
  <1>1. TypeOK'
    <2>1. sent' \in [Cpus -> Seq(Cells)]  BY <1>0, <1>l DEF TypeOK, Committed, s
    <2>2. wr' \in [Cpus -> Writers] /\ dropped' \in [Cpus -> Nat]  BY <1>0, <1>v DEF TypeOK, Committed
    <2> QED  BY <1>0, <2>1, <2>2 DEF TypeOK, Committed
  <1>2. ASSUME NEW d \in Cpus PROVE CpuInv(d)'
    <2>0. CpuInv(d)  BY DEF IInv
    <2>1. CASE d # c
      <3>1. /\ ring'[d] = ring[d] /\ wr'[d] = wr[d] /\ dropped'[d] = dropped[d]
            /\ sent'[d] = sent[d]
        BY <1>w, <2>1 DEF Committed
      <3>2. Stamps(d)'  BY <2>0, <3>1 
        DEF CpuInv, Stamps, Stamped, BlockInOrder, RowsBefore, RowBefore, ReadPos, Older
      <3> QED  BY <2>0, <3>1, <3>2 DEF CpuInv, Stamps, Total
    <2>2. CASE d = c
      <3>r. /\ ring'[c].head = b.head + n /\ ring'[c].tail = b.tail /\ ring'[c].cell = b.cell
            /\ sent'[c] = s \o r
        BY <1>w DEF b, w, n, Committed
      <3>1. Mapped(ring[c], sent[c])'
        <4>1. ASSUME NEW i \in b.tail .. (b.head + n) - 1
              PROVE  b.cell[i % Size] = (s \o r)[i + 1]
          <5>1. CASE i < b.head
            <6>1. i \in b.tail .. b.head - 1 /\ i + 1 \in 1..b.head  BY <1>n, <5>1
            <6> QED  BY <1>m, <1>l, <6>1
          <5>2. CASE i >= b.head
            <6> DEFINE k == i - b.head + 1
            <6>1. k \in 1..n /\ i + 1 = b.head + k /\ b.head + k - 1 = i  BY <1>n, <5>2
            <6> HIDE DEF k
            <6>2. r[k] = b.cell[i % Size]  BY <1>r, <6>1
            <6> QED  BY <1>l, <6>1, <6>2
          <5>3. i \in Int  BY <1>n
          <5>4. i < b.head \/ i >= b.head  BY <1>n, <5>3
          <5> QED  BY <5>1, <5>2, <5>4
        <4>2. b.tail <= b.head + n /\ (b.head + n) - b.tail < Size  
          <5>1. w.room \in Nat /\ w.room + n + (b.head - b.tail) < Size  BY <1>b, <1>g
          <5> QED  BY <1>n, <1>m, <1>z, <5>1
        <4> QED  BY <1>l, <3>r, <4>1, <4>2 DEF Mapped
      <3>2. Framed(sent[c])' /\ Ordered(sent[c])'  BY <1>a, <3>r
      <3>3. Writing(wr[c], ring[c], Total(c))'  BY <1>v, <1>w DEF Writing
      <3>4. Reading(th[c], ring[c], sent[c])'
        <4>1. th[c].t \in Nat /\ th[c].h \in Nat
          <5>1. th[c] \in Threads  BY <1>0 DEF TypeOK
          <5> QED  BY <5>1 DEF Threads
        <4>2. /\ Boundary(s, b.tail)
              /\ th[c].pc = "read" => /\ b.tail <= th[c].t /\ th[c].t <= th[c].h
                                      /\ Boundary(s, th[c].t) /\ Boundary(s, th[c].h)
          BY <1>c DEF CpuInv, Reading, b, s
        <4> QED  BY <1>a, <1>b, <3>r, <4>1, <4>2 DEF Reading
      <3>o. ASSUME NEW x, Older(wr[c], x) PROVE x < w.id /\ Older(wr[c], x)'
        BY <1>v, <1>w, <3>o DEF Older, w
      <3>5. Stamped(c)'
        <4>1. ASSUME NEW i \in 1..Len(s \o r) PROVE (s \o r)[i].id <= events
          <5>1. CASE i <= b.head
            <6>1. i \in 1..Len(s) /\ (s \o r)[i] = s[i]  BY <1>b, <1>m, <1>l, <5>1
            <6> QED  BY <1>c, <6>1 DEF CpuInv, Stamped, Older, s
          <5>2. CASE i > b.head
            <6>1. i - b.head \in 1..n /\ b.head + (i - b.head) = i  BY <1>n, <1>l, <5>2
            <6>2. (s \o r)[i].id = w.id
              <7>1. (s \o r)[i] = r[i - b.head]  BY <1>l, <6>1
              <7> QED  BY <1>q, <1>r, <6>1, <7>1 DEF Record
            <6>3. w.id <= events  BY <1>c DEF CpuInv, Stamped, w
            <6> QED  BY <6>2, <6>3
          <5> QED  BY <1>b, <1>l, <5>1, <5>2
        <4> QED  BY <1>v, <1>w, <3>r, <4>1 DEF Stamped, Older
      <3>6. BlockInOrder(c)'
        <4>1. \A i \in 1..Len(th[c].blk) : th[c].blk[i][2] \in Nat
          <5>1. th[c] \in Threads  BY <1>0 DEF TypeOK
          <5> QED  BY <5>1 DEF Threads, Rows
        <4>2. ReadPos(th[c], b) \in Nat
          <5>1. th[c] \in Threads  BY <1>0 DEF TypeOK
          <5> QED  BY <1>b, <5>1 DEF Threads, ReadPos
        <4>3. ReadPos(th[c], ring[c])' = ReadPos(th[c], b)  BY <3>r DEF ReadPos
        <4>4. ASSUME NEW i \in 1..Len(th[c].blk)
              PROVE  /\ th[c].blk[i][1] = c
                     /\ Behind(s \o r, ReadPos(th[c], b), th[c].blk[i][2])
                     /\ Older(wr[c], th[c].blk[i][2])'
          <5>1. /\ th[c].blk[i][1] = c /\ Behind(s, ReadPos(th[c], b), th[c].blk[i][2])
                /\ Older(wr[c], th[c].blk[i][2])
            BY <1>c DEF CpuInv, BlockInOrder, b, s
          <5>2. th[c].blk[i][2] < w.id /\ Older(wr[c], th[c].blk[i][2])'  BY <3>o, <5>1
          <5> QED  BY <1>a, <4>1, <4>2, <5>1, <5>2
        <4> QED  BY <1>c, <3>r, <4>3, <4>4 DEF CpuInv, BlockInOrder
      <3>7. RowsBefore(c)'
        <4>2. ASSUME NEW i \in 1..Len(db), db[i].cpu = c, NEW k \in 1..Len(db[i].rows)
              PROVE  RowBefore(c, db[i].rows[k])'
          <5>0. db[i].rows[k][2] \in Nat
            <6>1. db[i] \in Blocks  BY <1>0 DEF TypeOK
            <6> QED  BY <6>1 DEF Blocks, Rows
          <5>1. Behind(s, b.tail, db[i].rows[k][2]) /\ Older(wr[c], db[i].rows[k][2])
            BY <1>c, <4>2 DEF CpuInv, RowsBefore, RowBefore, b, s
          <5>2. db[i].rows[k][2] < w.id /\ Older(wr[c], db[i].rows[k][2])'  BY <3>o, <5>1
          <5>3. Behind(s \o r, b.tail, db[i].rows[k][2])  BY <1>a, <1>b, <5>0, <5>1, <5>2
          <5> QED  BY <3>r, <5>2, <5>3 DEF RowBefore
        <4> QED  BY <1>c, <4>2 DEF CpuInv, RowsBefore
      <3> QED  BY <2>2, <3>1, <3>2, <3>3, <3>4, <3>5, <3>6, <3>7 DEF CpuInv
    <2> QED  BY <2>1, <2>2
  <1>3. RowsOnceInOrder'  BY DEF IInv, RowsOnceInOrder
  <1> QED  BY <1>1, <1>2, <1>3 DEF IInv

-----------------------------------------------------------------------------
\* Only the head of one ring changes.
LEMMA HeadMoved ==
    ASSUME TypeOK, NEW c \in Cpus, NEW n, ring[c].head + n \in Nat,
           ring' = [ring EXCEPT ![c].head = @ + n]
    PROVE  /\ ring'[c].head = ring[c].head + n /\ ring'[c].tail = ring[c].tail
           /\ ring'[c].cell = ring[c].cell
           /\ \A d \in Cpus \ {c} : ring'[d] = ring[d]
           /\ ring' \in [Cpus -> Rings]
  <1>1. ring[c] \in Rings  BY DEF TypeOK
  <1>2. ring' \in [Cpus -> Rings]  BY DEF TypeOK, Rings
  <1> QED  BY <1>1, <1>2 DEF TypeOK, Rings

\* Every step of a writer keeps the invariant.
LEMMA WriterStep ==
    ASSUME IInv, NEW c \in Cpus, Writer(c)
    PROVE  IInv'
  <1> USE DEF logger
  <1>0. TypeOK  BY DEF IInv
  <1>t. dropped[c] \in Nat /\ events \in Nat /\ wr[c] \in Writers  BY <1>0 DEF TypeOK
  <1>n. NoWr \in Writers /\ NoWr.st = "idle"  BY DEF NoWr, Writers
  <1>1. ASSUME NEW len \in Lens, LogStart(c, len) PROVE IInv'
    <2>1. CASE GetRoom(ring[c]) < Header
      <3>1. /\ wr' = [wr EXCEPT ![c] = wr[c]]
            /\ dropped' = [dropped EXCEPT ![c] = dropped[c] + 1]
            /\ wr[c].st = "idle" /\ events' = events + 1
            /\ UNCHANGED <<ring, th, sent, db>>
        BY <1>0, <1>1, <2>1 DEF LogStart, TypeOK
      <3>2. dropped[c] + 1 \in Nat /\ events' \in Nat /\ events' >= events  BY <1>t, <3>1
      <3> QED  BY <1>t, <3>1, <3>2, DropStep
    <2>2. CASE ~(GetRoom(ring[c]) < Header)
      <3>1. /\ wr' = [wr EXCEPT ![c] =
                  [st |-> "write", room |-> GetRoom(ring[c]), p |-> 0,
                   id |-> events + 1, len |-> len]]
            /\ events' = events + 1
            /\ UNCHANGED <<ring, dropped, th, sent, db>>
        BY <1>1, <2>2 DEF LogStart
      <3> QED  BY <3>1, BeginStep
    <2> QED  BY <2>1, <2>2
  <1>2. CASE LogWrite(c)
    <2>1. CASE wr[c].room = 0
      <3>1. /\ wr' = [wr EXCEPT ![c] = NoWr]
            /\ dropped' = [dropped EXCEPT ![c] = dropped[c] + 1]
            /\ events' = events /\ UNCHANGED <<ring, th, sent, db>>
        BY <1>2, <2>1 DEF LogWrite, Drop
      <3>2. dropped[c] + 1 \in Nat /\ events' \in Nat /\ events' >= events  BY <1>t, <3>1
      <3> QED  BY <1>n, <3>1, <3>2, DropStep
    <2>2. CASE wr[c].room # 0
      <3> DEFINE e == [id |-> wr[c].id, at |-> wr[c].p + 1, len |-> Total(c),
                       lost |-> IF wr[c].p = wr[c].len THEN dropped[c] ELSE 0]
      <3>1. /\ wr[c].st = "write" /\ wr[c].p < Total(c)
            /\ wr' = [wr EXCEPT ![c].room = @ - 1, ![c].p = @ + 1]
            /\ ring' = [ring EXCEPT ![c].cell[(ring[c].head + wr[c].p) % Size] = e]
            /\ UNCHANGED <<dropped, th, sent, events, db>>
        BY <1>2, <2>2 DEF LogWrite
      <3>2. wr[c].id \in Nat /\ wr[c].p \in Nat /\ wr[c].len \in Nat  BY <1>t DEF Writers
      <3>3. Total(c) \in Nat  BY <1>t, <3>2 DEF Total
      <3>4. /\ e \in Cells /\ e.id = wr[c].id /\ e.at = wr[c].p + 1 /\ e.len = Total(c)
        BY <1>t, <3>2, <3>3 DEF Cells
      <3> HIDE DEF e
      <3>5. Wrote(c, e)  BY <1>0, <2>2, <3>1, <3>4, WriteEffect
      <3> QED  BY <2>2, <3>1, <3>4, <3>5, WriteStep
    <2> QED  BY <2>1, <2>2
  <1>3. CASE LogCommit(c)
    <2>1. CASE Fits(ring[c], wr[c].p)
      <3> DEFINE r == CellsWritten(c)
      <3>1. /\ wr[c].st = "write" /\ wr[c].p = Total(c)
            /\ ring' = [ring EXCEPT ![c].head = @ + wr[c].p]
            /\ sent' = [sent EXCEPT ![c] = @ \o r]
            /\ dropped' = [dropped EXCEPT ![c] = 0]
            /\ wr' = [wr EXCEPT ![c] = NoWr]
            /\ UNCHANGED <<th, events, db>>
        BY <1>3, <2>1 DEF LogCommit, CellsWritten
      <3> HIDE DEF r
      <3>2. ring[c] \in Rings /\ wr[c].p \in Nat  BY <1>0, <1>t DEF TypeOK, Writers
      <3>3. /\ ring'[c].head = ring[c].head + wr[c].p /\ ring'[c].tail = ring[c].tail
            /\ ring'[c].cell = ring[c].cell
            /\ \A d \in Cpus \ {c} : ring'[d] = ring[d]
            /\ ring' \in [Cpus -> Rings]
        <4>1. ring[c].head + wr[c].p \in Nat  BY <3>2 DEF Rings
        <4>2. ring' = [ring EXCEPT ![c].head = @ + wr[c].p]  BY <3>1
        <4> QED  BY <1>0, <4>1, <4>2, HeadMoved
      <3>4. Committed(c, r)  BY <3>1, <3>3 DEF Committed
      <3> QED  BY <3>1, <3>4, CommitStep DEF r
    <2>2. CASE ~Fits(ring[c], wr[c].p)
      <3>1. PICK n \in Nat : Drop(c, n)
        BY <1>3, <1>t, <2>2, GarbageAssumption DEF LogCommit
      <3>2. /\ wr' = [wr EXCEPT ![c] = NoWr]
            /\ dropped' = [dropped EXCEPT ![c] = n + 1]
            /\ events' = events /\ UNCHANGED <<ring, th, sent, db>>
        BY <1>3, <2>2, <3>1 DEF LogCommit, Drop
      <3>3. n + 1 \in Nat /\ events' \in Nat /\ events' >= events  BY <1>t, <3>2
      <3> QED  BY <1>n, <3>2, <3>3, DropStep
    <2> QED  BY <2>1, <2>2
  <1> QED  BY <1>1, <1>2, <1>3 DEF Writer

\* A worker that has another point of control, and a ring that is or is not
\* ready.
LEMMA WorkerAt ==
    ASSUME NEW w \in Threads, NEW p \in ThreadPoints
    PROVE  /\ Goto(w, p) \in Threads /\ Goto(w, p).pc = p
           /\ Goto(w, p).t = w.t /\ Goto(w, p).h = w.h /\ Goto(w, p).blk = w.blk
  BY DEF Goto, Threads

\* The flag of a ring says nothing about its cells.
LEMMA ReadyStep ==
    ASSUME TypeOK, NEW c \in Cpus, NEW x \in BOOLEAN,
           ring' = [ring EXCEPT ![c].ready = x]
    PROVE  ring' \in [Cpus -> Rings] /\ \A d \in Cpus : SameCells(ring'[d], ring[d])
  <1>1. ring[c] \in Rings  BY DEF TypeOK
  <1>2. ring' \in [Cpus -> Rings]  BY DEF TypeOK, Rings
  <1>3. ASSUME NEW d \in Cpus PROVE SameCells(ring'[d], ring[d])
    BY <1>1 DEF TypeOK, Rings, SameCells
  <1> QED  BY <1>2, <1>3

\* Rings that do not change at all.
LEMMA NoReadyStep ==
    ASSUME TypeOK, ring' = ring
    PROVE  ring' \in [Cpus -> Rings] /\ \A d \in Cpus : SameCells(ring'[d], ring[d])
  BY DEF TypeOK, SameCells

\* A worker goes from one point to another and reads at neither.
LEMMA GotoStep ==
    ASSUME IInv, NEW c \in Cpus, th[c].pc # "read", NEW v \in Threads, v.pc # "read",
           v.blk = th[c].blk, th' = [th EXCEPT ![c] = v],
           ring' \in [Cpus -> Rings], \A d \in Cpus : SameCells(ring'[d], ring[d]),
           UNCHANGED <<wr, dropped, sent, events, db>>
    PROVE  IInv'
  <1>1. th' \in [Cpus -> Threads]  BY DEF IInv, TypeOK
  <1>2. ASSUME NEW d \in Cpus PROVE Idles(th'[d], th[d])  BY DEF IInv, TypeOK, Idles
  <1> QED  BY <1>1, <1>2, QuietStep

\* A worker has tried to insert its block and keeps or drops what is left of it.
LEMMA FlushedStep ==
    ASSUME IInv, NEW c \in Cpus, th[c].pc # "read", NEW force \in BOOLEAN,
           NEW f \in Flush(th[c], force), NEW v \in Threads, v.pc # "read",
           v.blk = f[2].blk \/ v.blk = <<>>, th' = [th EXCEPT ![c] = v], Inserted(c, f),
           ring' \in [Cpus -> Rings], \A d \in Cpus : SameCells(ring'[d], ring[d]),
           UNCHANGED <<wr, dropped, sent, events>>
    PROVE  IInv'
  <1>1. th[c] \in Threads  BY DEF IInv, TypeOK
  <1>r. /\ f[1] \in BOOLEAN /\ f[3] \in BOOLEAN
        /\ \/ ~(f[3] /\ f[1]) /\ f[2].blk = th[c].blk
           \/ f[3] /\ f[2].blk = <<>>
    BY <1>1, FlushResult
  <1>2. CASE ~f[3]
    <2>1. db' = db  BY <1>2 DEF Inserted
    <2>2. CASE v.blk = th[c].blk  BY <2>1, <2>2, GotoStep
    <2>3. CASE v.blk = <<>>
      <3>1. th' \in [Cpus -> Threads]  BY DEF IInv, TypeOK
      <3>2. ASSUME NEW d \in Cpus PROVE Idles(th'[d], th[d])
        BY <2>3 DEF IInv, TypeOK, Idles
      <3> QED  BY <2>1, <3>1, <3>2, QuietStep
    <2> QED  BY <1>2, <1>r, <2>2, <2>3
  <1>3. CASE f[3]
    <2>1. db' = Append(db, [cpu |-> c, rows |-> th[c].blk, ok |-> f[1]])
      BY <1>3 DEF Inserted
    <2>2. v.blk = <<>> \/ (v.blk = th[c].blk /\ ~f[1])  BY <1>3, <1>r
    <2> QED  BY <1>r, <2>1, <2>2, FlushStep
  <1> QED  BY <1>r, <1>2, <1>3

\* Every step of a worker keeps the invariant.
LEMMA WorkerStep ==
    ASSUME IInv, NEW c \in Cpus, Worker(c)
    PROVE  IInv'
  <1> USE DEF kernel, ghost
  <1>0. TypeOK  BY DEF IInv
  <1>t. th[c] \in Threads /\ ring[c] \in Rings  BY <1>0 DEF TypeOK
  <1>p. {"top", "consume", "send", "check", "idle", "exit", "done"} \subseteq ThreadPoints
    BY DEF ThreadPoints
  <1>1. CASE WorkerMap(c)
    <2>1. PICK a \in EnsureTable(th[c]) : th' = [th EXCEPT ![c] = Goto(a[2], "top")]
      BY <1>1 DEF WorkerMap
    <2>2. Like(a[2], th[c])  BY <1>t, TableResult
    <2> DEFINE v == Goto(a[2], "top")
    <2>3. v \in Threads /\ v.pc = "top" /\ v.blk = th[c].blk
      BY <1>p, <2>2, WorkerAt DEF Like
    <2>4. /\ th' = [th EXCEPT ![c] = v]  BY <2>1
    <2> HIDE DEF v
    <2>5. ring' \in [Cpus -> Rings] /\ \A d \in Cpus : SameCells(ring'[d], ring[d])
      BY <1>0, <1>1, ReadyStep DEF WorkerMap
    <2>6. th[c].pc # "read" /\ UNCHANGED <<wr, dropped, sent, events, db>>
      BY <1>1 DEF WorkerMap, At
    <2> QED  BY <2>3, <2>4, <2>5, <2>6, GotoStep
  <1>2. CASE WorkerFails(c)
    <2> DEFINE v == Goto(th[c], "done")
    <2>1. v \in Threads /\ v.pc = "done" /\ v.blk = th[c].blk  BY <1>p, <1>t, WorkerAt
    <2>2. th' = [th EXCEPT ![c] = v]  BY <1>2 DEF WorkerFails
    <2> HIDE DEF v
    <2>3. ring' \in [Cpus -> Rings] /\ \A d \in Cpus : SameCells(ring'[d], ring[d])
      BY <1>0, <1>2, NoReadyStep DEF WorkerFails
    <2>4. th[c].pc # "read" /\ UNCHANGED <<wr, dropped, sent, events, db>>
      BY <1>2 DEF WorkerFails, At
    <2> QED  BY <2>1, <2>2, <2>3, <2>4, GotoStep
  <1>3. CASE WorkerTop(c)
    <2> DEFINE v == Goto(th[c], "consume")
    <2>1. v \in Threads /\ v.pc = "consume" /\ v.blk = th[c].blk  BY <1>p, <1>t, WorkerAt
    <2>2. th' = [th EXCEPT ![c] = v]  BY <1>3 DEF WorkerTop
    <2> HIDE DEF v
    <2>3. ring' \in [Cpus -> Rings] /\ \A d \in Cpus : SameCells(ring'[d], ring[d])
      <3>1. CASE stop_flag  BY <1>0, <1>3, <3>1, ReadyStep DEF WorkerTop
      <3>2. CASE ~stop_flag  BY <1>0, <1>3, <3>2, NoReadyStep DEF WorkerTop
      <3> QED  BY <3>1, <3>2
    <2>4. th[c].pc # "read" /\ UNCHANGED <<wr, dropped, sent, events, db>>
      BY <1>3 DEF WorkerTop, At
    <2> QED  BY <2>1, <2>2, <2>3, <2>4, GotoStep
  <1>4. CASE Consume(c)
    <2>1. PICK a \in EnsureConnected(th[c]) : th' = [th EXCEPT ![c] =
               IF ~a[1] \/ ring[c].head = ring[c].tail THEN Goto(a[2], "check")
               ELSE [a[2] EXCEPT !.pc = "read", !.t = ring[c].tail, !.h = ring[c].head]]
      BY <1>4 DEF Consume
    <2>2. Like(a[2], th[c])  BY <1>t, ConnectedResult
    <2>3. /\ th[c].pc # "read" /\ UNCHANGED <<ring, wr, dropped, sent, events, db>>
      BY <1>4 DEF Consume, At
    <2>4. CASE ~a[1] \/ ring[c].head = ring[c].tail
      <3> DEFINE v == Goto(a[2], "check")
      <3>1. v \in Threads /\ v.pc = "check" /\ v.blk = th[c].blk
        BY <1>p, <2>2, WorkerAt DEF Like
      <3>2. th' = [th EXCEPT ![c] = v]  BY <2>1, <2>4
      <3> HIDE DEF v
      <3>3. ring' \in [Cpus -> Rings] /\ \A d \in Cpus : SameCells(ring'[d], ring[d])
        BY <1>0, <2>3, NoReadyStep
      <3> QED  BY <2>3, <3>1, <3>2, <3>3, GotoStep
    <2>5. CASE ~(~a[1] \/ ring[c].head = ring[c].tail)
      <3> DEFINE v == [a[2] EXCEPT !.pc = "read", !.t = ring[c].tail, !.h = ring[c].head]
      <3>1. /\ v \in Threads /\ v.pc = "read" /\ v.blk = th[c].blk
            /\ v.t = ring[c].tail /\ v.h = ring[c].head
        <4>1. ring[c].tail \in Nat /\ ring[c].head \in Nat  BY <1>t DEF Rings
        <4>2. a[2] \in Threads /\ a[2].blk = th[c].blk  BY <2>2 DEF Like
        <4> QED  BY <4>1, <4>2 DEF Threads, ThreadPoints
      <3>2. th' = [th EXCEPT ![c] = v]  BY <2>1, <2>5
      <3> HIDE DEF v
      <3>3. OnlyWorker(c, v)  BY <2>3, <3>2 DEF OnlyWorker
      <3> QED  BY <2>3, <3>1, <3>3, ConsumeStep
    <2> QED  BY <2>4, <2>5
  <1>5. CASE ReadEvent(c)
    <2> DEFINE e == ring[c].cell[th[c].t % Size]
               v == [th[c] EXCEPT !.t = @ + e.len, !.blk = Append(@, <<c, e.id>>)]
    <2>1. /\ th[c].pc = "read" /\ th[c].t < th[c].h
          /\ UNCHANGED <<ring, wr, dropped, sent, events, db>>
      BY <1>5 DEF ReadEvent, At
    <2>2. e \in Cells
      <3>1. th[c].t \in Nat /\ ring[c].cell \in [0..Size-1 -> Cells]
        BY <1>t DEF Threads, Rings
      <3>2. th[c].t % Size \in 0..Size-1  BY <3>1, SizeAssumption, DivMod
      <3> QED  BY <3>1, <3>2
    <2>3. e.len \in Nat /\ e.id \in Nat  BY <2>2 DEF Cells
    <2>4. th' = [th EXCEPT ![c] = v]  BY <1>0, <1>5 DEF ReadEvent, TypeOK, Threads
    <2>5. /\ v \in Threads /\ v.pc = "read" /\ v.h = th[c].h /\ v.t = th[c].t + e.len
          /\ v.blk = Append(th[c].blk, <<c, e.id>>)
      <3> HIDE DEF e
      <3>1. <<c, e.id>> \in Rows  BY <2>3 DEF Rows
      <3>2. Append(th[c].blk, <<c, e.id>>) \in Seq(Rows)  BY <1>t, <3>1 DEF Threads
      <3>3. th[c].t + e.len \in Nat  BY <1>t, <2>3 DEF Threads
      <3> QED  BY <1>t, <2>1, <3>2, <3>3 DEF Threads
    <2> HIDE DEF v
    <2>6. OnlyWorker(c, v)  BY <2>1, <2>4 DEF OnlyWorker
    <2> QED  BY <2>1, <2>5, <2>6, ReadStep
  <1>r. CpuInv(c)  BY DEF IInv
  <1>6. CASE StoreTail(c)
    <2> DEFINE v == Goto(th[c], "send")
    <2>1. v \in Threads /\ v.pc = "send" /\ v.blk = th[c].blk  BY <1>p, <1>t, WorkerAt
    <2>2. /\ th' = [th EXCEPT ![c] = v] /\ th[c].pc = "read" /\ th[c].t >= th[c].h
          /\ ring' = [ring EXCEPT ![c].tail = th[c].t]
          /\ UNCHANGED <<wr, dropped, sent, events, db>>
      BY <1>6 DEF StoreTail, At
    <2> HIDE DEF v
    <2>3. th[c].t = th[c].h
      <3>1. th[c].t \in Nat /\ th[c].h \in Nat  BY <1>t DEF Threads
      <3>2. th[c].t <= th[c].h  BY <1>r, <2>2 DEF CpuInv, Reading
      <3> QED  BY <2>2, <3>1, <3>2
    <2>4. ring' = [ring EXCEPT ![c].tail = th[c].h]  BY <2>2, <2>3
    <2> QED  BY <2>1, <2>2, <2>4, TailStep
  <1>7. CASE ReadFails(c)
    <2>1. /\ th[c].pc = "read" /\ ring' = [ring EXCEPT ![c].tail = th[c].h]
          /\ UNCHANGED <<wr, dropped, sent, events, db>>
      BY <1>7 DEF ReadFails, At
    <2>2. CASE th' = [th EXCEPT ![c] = [@ EXCEPT !.pc = "check", !.blk = <<>>]]
      <3> DEFINE v == [th[c] EXCEPT !.pc = "check", !.blk = <<>>]
      <3>1. <<>> \in Seq(Rows)  OBVIOUS
      <3>2. v \in Threads /\ v.pc = "check" /\ v.blk = <<>>
        BY <1>t, <3>1 DEF Threads, ThreadPoints
      <3>3. th' = [th EXCEPT ![c] = v]  BY <2>2
      <3> HIDE DEF v
      <3> QED  BY <2>1, <3>2, <3>3, TailStep
    <2>3. CASE th' = [th EXCEPT ![c] = Goto(@, "idle")]
      <3> DEFINE v == Goto(th[c], "idle")
      <3>1. v \in Threads /\ v.pc = "idle" /\ v.blk = th[c].blk  BY <1>p, <1>t, WorkerAt
      <3>2. th' = [th EXCEPT ![c] = v]  BY <2>3
      <3> HIDE DEF v
      <3> QED  BY <2>1, <3>1, <3>2, TailStep
    <2> QED  BY <1>7, <2>2, <2>3 DEF ReadFails
  <1>f. ASSUME NEW force \in BOOLEAN, NEW f \in Flush(th[c], force), th[c].pc # "read",
               Flushed(c, f, "top"), UNCHANGED <<ring, wr, dropped, sent, events>>
        PROVE  IInv'
    <2> DEFINE v == Goto(f[2], "top")
    <2>1. f[2] \in Threads  BY <1>t, <1>f, FlushResult
    <2>2. v \in Threads /\ v.pc = "top" /\ v.blk = f[2].blk  BY <1>p, <2>1, WorkerAt
    <2>3. th' = [th EXCEPT ![c] = v] /\ Inserted(c, f)  BY <1>f DEF Flushed
    <2> HIDE DEF v
    <2>4. ring' \in [Cpus -> Rings] /\ \A d \in Cpus : SameCells(ring'[d], ring[d])
      BY <1>0, <1>f, NoReadyStep
    <2> QED  BY <1>f, <2>2, <2>3, <2>4, FlushedStep
  <1>8. CASE Send(c)
    <2>1. th[c].pc # "read" /\ UNCHANGED <<ring, wr, dropped, sent, events>>
      BY <1>8 DEF Send, At
    <2>2. PICK f \in Flush(th[c], FALSE) : Flushed(c, f, "top")  BY <1>8 DEF Send
    <2> QED  BY <1>f, <2>1, <2>2
  <1>9. CASE Check(c)
    <2>1. /\ th[c].pc # "read" /\ UNCHANGED <<ring, wr, dropped, sent, events, db>>
          /\ \/ th' = [th EXCEPT ![c] = Goto(th[c], "idle")]
             \/ th' = [th EXCEPT ![c] = Goto(th[c], "exit")]
      BY <1>9 DEF Check, At
    <2>2. PICK p \in {"idle", "exit"} : th' = [th EXCEPT ![c] = Goto(th[c], p)]  BY <2>1
    <2> DEFINE v == Goto(th[c], p)
    <2>p. p \in ThreadPoints /\ p # "read"  BY DEF ThreadPoints
    <2>3. v \in Threads /\ v.pc # "read" /\ v.blk = th[c].blk  BY <1>t, <2>p, WorkerAt
    <2>4. th' = [th EXCEPT ![c] = v]  BY <2>2
    <2> HIDE DEF v
    <2>5. ring' \in [Cpus -> Rings] /\ \A d \in Cpus : SameCells(ring'[d], ring[d])
      BY <1>0, <2>1, NoReadyStep
    <2> QED  BY <2>1, <2>3, <2>4, <2>5, GotoStep
  <1>10. CASE Idle(c)
    <2>1. th[c].pc # "read" /\ UNCHANGED <<ring, wr, dropped, sent, events>>
      BY <1>10 DEF Idle, At
    <2>2. CASE th' = [th EXCEPT ![c] = Goto(@, "top")] /\ UNCHANGED db
      <3> DEFINE v == Goto(th[c], "top")
      <3>1. v \in Threads /\ v.pc = "top" /\ v.blk = th[c].blk  BY <1>p, <1>t, WorkerAt
      <3>2. th' = [th EXCEPT ![c] = v] /\ UNCHANGED db  BY <2>2
      <3> HIDE DEF v
      <3>3. ring' \in [Cpus -> Rings] /\ \A d \in Cpus : SameCells(ring'[d], ring[d])
        BY <1>0, <2>1, NoReadyStep
      <3> QED  BY <2>1, <3>1, <3>2, <3>3, GotoStep
    <2>3. CASE \E f \in Flush(th[c], TRUE) : Flushed(c, f, "top")  BY <1>f, <2>1, <2>3
    <2> QED  BY <1>10, <2>2, <2>3 DEF Idle
  <1>11. CASE Exit(c)
    <2>1. th[c].pc # "read" /\ UNCHANGED <<wr, dropped, sent, events>>
      BY <1>11 DEF Exit, At
    <2>2. PICK f \in Flush(th[c], TRUE) :
              /\ th' = [th EXCEPT ![c] = [f[2] EXCEPT !.pc = "done", !.blk = <<>>]]
              /\ Inserted(c, f)
      BY <1>11 DEF Exit
    <2>3. f[2] \in Threads  BY <1>t, FlushResult
    <2> DEFINE v == [f[2] EXCEPT !.pc = "done", !.blk = <<>>]
    <2>4. v \in Threads /\ v.pc = "done" /\ v.blk = <<>>
      <3>1. <<>> \in Seq(Rows)  OBVIOUS
      <3> QED  BY <2>3, <3>1 DEF Threads, ThreadPoints
    <2>5. th' = [th EXCEPT ![c] = v] /\ Inserted(c, f)  BY <2>2
    <2> HIDE DEF v
    <2>6. ring' \in [Cpus -> Rings] /\ \A d \in Cpus : SameCells(ring'[d], ring[d])
      BY <1>0, <1>11, ReadyStep DEF Exit
    <2> QED  BY <2>1, <2>4, <2>5, <2>6, FlushedStep
  <1> QED  BY <1>1, <1>2, <1>3, <1>4, <1>5, <1>6, <1>7, <1>8, <1>9, <1>10, <1>11 DEF Worker

\* Steps of the device, the start and the end of the daemon and of
\* tfw_mmap_buffer_free(): workers are where they were, or all are new.
LEMMA DeviceStep ==
    ASSUME IInv, Free \/ OpenTest \/ OpenSet \/ Close \/ Crash \/ Signal
    PROVE  IInv'
  <1> USE DEF kernel, logger, ghost
  <1>0. TypeOK  BY DEF IInv
  <1>s. ASSUME th' = th PROVE th' \in [Cpus -> Threads] /\ \A d \in Cpus : Idles(th'[d], th[d])
    BY <1>0, <1>s DEF TypeOK, Idles
  <1>n. ASSUME NEW p \in {"new", "done"}, th' = [c \in Cpus |-> NewThread(p)]
        PROVE  th' \in [Cpus -> Threads] /\ \A d \in Cpus : Idles(th'[d], th[d])
    <2>1. <<>> \in Seq(Rows)  OBVIOUS
    <2>2. /\ NewThread(p) \in Threads /\ NewThread(p).pc # "read"
          /\ NewThread(p).blk = <<>>
      BY <2>1 DEF NewThread, Threads, ThreadPoints
    <2> QED  BY <1>n, <2>2 DEF Idles
  <1>1. CASE FreeBegin \/ FreeDone \/ OpenTest \/ Close \/ Signal
    <2>1. th' = th /\ ring' = ring /\ UNCHANGED <<wr, dropped, sent, events, db>>
      BY <1>1 DEF FreeBegin, FreeDone, OpenTest, Close, Signal
    <2> QED  BY <1>0, <1>s, <2>1, NoReadyStep, QuietStep
  <1>2. ASSUME NEW c \in Cpus, FreeClear(c) PROVE IInv'
    <2>1. /\ th' = th /\ ring' = [ring EXCEPT ![c].ready = FALSE]
          /\ UNCHANGED <<wr, dropped, sent, events, db>>
      BY <1>2 DEF FreeClear
    <2> QED  BY <1>0, <1>s, <2>1, ReadyStep, QuietStep
  <1>3. CASE OpenSet
    <2>1. /\ th' = [c \in Cpus |-> NewThread("new")] /\ ring' = ring
          /\ UNCHANGED <<wr, dropped, sent, events, db>>
      BY <1>3 DEF OpenSet
    <2> QED  BY <1>0, <1>n, <2>1, NoReadyStep, QuietStep
  <1>4. CASE Crash
    <2>1. /\ th' = [c \in Cpus |-> NewThread("done")]
          /\ UNCHANGED <<wr, dropped, sent, events, db>>
      BY <1>4 DEF Crash
    <2>2. ring' \in [Cpus -> Rings] /\ \A d \in Cpus : SameCells(ring'[d], ring[d])
      <3>1. CASE \E c \in Cpus : ring' = [ring EXCEPT ![c].ready = FALSE]
        BY <1>0, <3>1, ReadyStep
      <3>2. CASE ring' = ring  BY <1>0, <3>2, NoReadyStep
      <3> QED  BY <1>4, <3>1, <3>2 DEF Crash
    <2> QED  BY <1>n, <2>1, <2>2, QuietStep
  <1> QED  BY <1>1, <1>2, <1>3, <1>4 DEF Free

-----------------------------------------------------------------------------
(* The theorems. *)

\* The buffers are empty at the start.
LEMMA InitIInv == Init => IInv
  <1> SUFFICES ASSUME Init PROVE IInv  OBVIOUS
  <1>z. Size \in Nat \ {0}  BY SizeAssumption
  <1>e. <<>> \in Seq(Rows) /\ <<>> \in Seq(Cells) /\ <<>> \in Seq(Blocks)  OBVIOUS
  <1>1. TypeOK
    <2>1. ring \in [Cpus -> Rings]
      <3>1. Empty \in Cells  BY DEF Empty, Cells
      <3>2. [i \in 0..Size-1 |-> Empty] \in [0..Size-1 -> Cells]  BY <3>1
      <3> QED  BY <3>2 DEF Init, Rings
    <2>2. NoWr \in Writers  BY DEF NoWr, Writers
    <2>3. NewThread("done") \in Threads  BY <1>e DEF NewThread, Threads, ThreadPoints
    <2> QED  BY <1>e, <2>1, <2>2, <2>3 DEF Init, TypeOK
  <1>2. ASSUME NEW c \in Cpus PROVE CpuInv(c)
    <2>1. /\ ring[c].head = 0 /\ ring[c].tail = 0 /\ sent[c] = <<>> /\ db = <<>>
          /\ wr[c].st = "idle" /\ th[c].blk = <<>> /\ th[c].pc = "done"
      BY DEF Init, NewThread, NoWr
    <2>2. Len(sent[c]) = 0 /\ Len(db) = 0 /\ Len(th[c].blk) = 0  BY <2>1
    <2>3. Mapped(ring[c], sent[c])  BY <1>z, <2>1, <2>2 DEF Mapped
    <2>4. Framed(sent[c]) /\ Ordered(sent[c])  BY <2>2 DEF Framed, Ordered
    <2>5. Writing(wr[c], ring[c], Total(c))  BY <2>1 DEF Writing
    <2>6. Reading(th[c], ring[c], sent[c])  BY <2>1, <2>2 DEF Reading, Boundary
    <2>7. Stamped(c)  BY <2>1, <2>2 DEF Stamped
    <2>8. BlockInOrder(c)  BY <2>2 DEF BlockInOrder, Sorted
    <2>9. RowsBefore(c)  BY <2>2 DEF RowsBefore
    <2> QED  BY <2>3, <2>4, <2>5, <2>6, <2>7, <2>8, <2>9 DEF CpuInv
  <1>3. RowsOnceInOrder
    <2>1. Len(db) = 0  BY DEF Init
    <2> QED  BY <2>1 DEF RowsOnceInOrder
  <1> QED  BY <1>1, <1>2, <1>3 DEF IInv

\* The inductive invariant: rings, writers, workers and the database agree on
\* which records are written, unread, read and inserted, in every state of
\* do_access_log_req_mmap(), the device and the daemon.
THEOREM IInvariance == Spec => []IInv
  <1>1. IInv /\ [Next]_vars => IInv'
    <2> SUFFICES ASSUME IInv, [Next]_vars PROVE IInv'  OBVIOUS
    <2>1. CASE Next
      BY <2>1, WriterStep, WorkerStep, DeviceStep DEF Next
    <2>2. CASE UNCHANGED vars
      <3>1. UNCHANGED <<ring, th, wr, dropped, sent, events, db>>
        BY <2>2 DEF vars, kernel, logger, ghost
      <3>2. TypeOK  BY DEF IInv
      <3>3. th' \in [Cpus -> Threads] /\ \A d \in Cpus : Idles(th'[d], th[d])
        BY <3>1, <3>2 DEF TypeOK, Idles
      <3> QED  BY <3>1, <3>2, <3>3, NoReadyStep, QuietStep
    <2> QED  BY <2>1, <2>2
  <1> QED  BY <1>1, InitIInv, PTL DEF Spec

\* What is committed and not consumed is in the ring as it was written, for
\* any ring, however often the daemon is killed and started while
\* do_access_log_req_mmap() writes behind the head.
THEOREM UnreadStaysIntact == Spec => []UnreadIntact
  <1>1. IInv => UnreadIntact  BY DEF IInv, CpuInv, Mapped, UnreadIntact
  <1> QED  BY <1>1, IInvariance, PTL

\* The rows of a CPU are in the order of its requests, and none is there twice
\* except those of a block whose answer was lost, which is stored again as a
\* whole before any newer row; for any number of requests, crashes of the daemon
\* and failed inserts (consume(), ClickHouseDecorator::flush()).
THEOREM InsertedOnceInOrder == Spec => []RowsOnceInOrder
  <1>1. IInv => RowsOnceInOrder  BY DEF IInv
  <1> QED  BY <1>1, IInvariance, PTL

-----------------------------------------------------------------------------
(* The sum of the numbers in committed records. *)

\* f[i] is what the first i cells report, up to the n-th one.
Sums(f, s, n) == f = [i \in 0..n |-> IF i = 0 THEN 0 ELSE f[i-1] + s[i].lost]

\* Such sums exist, by induction.
LEMMA SumsExist ==
    ASSUME NEW s \in Seq(Cells)
    PROVE  \A n \in 0..Len(s) : \E f \in [0..n -> Nat] : Sums(f, s, n)
<1> DEFINE T == {n \in 0..Len(s) : ~\E f \in [0..n -> Nat] : Sums(f, s, n)}
<1> SUFFICES ASSUME T # {} PROVE FALSE
  OBVIOUS
<1>0. T \in SUBSET Nat  OBVIOUS
<1>1. PICK n \in T : \A m \in T : n <= m  BY <1>0, LeastNat
<1> HIDE DEF T
<1>2. n \in 0..Len(s) /\ ~\E f \in [0..n -> Nat] : Sums(f, s, n)  BY <1>1 DEF T
<1>3. CASE n = 0
  <2> DEFINE f == [i \in 0..0 |-> 0]
  <2>1. f \in [0..0 -> Nat] /\ Sums(f, s, 0)  BY DEF Sums
  <2> QED  BY <1>2, <1>3, <2>1
<1>4. CASE n # 0
  <2>1. n - 1 \in 0..Len(s) /\ n - 1 \notin T /\ n \in Nat /\ n >= 1 /\ n <= Len(s) BY <1>1, <1>2, <1>4
  <2>2. PICK f \in [0..(n-1) -> Nat] : Sums(f, s, n - 1)  BY <2>1 DEF T
  <2>3. s[n].lost \in Nat
    <3>1. s[n] \in Cells  BY <2>1
    <3> QED  BY <3>1 DEF Cells
  <2> DEFINE g == [i \in 0..n |-> IF i = n THEN f[n-1] + s[n].lost ELSE f[i]]
  <2>4. g \in [0..n -> Nat]  BY <2>1, <2>2, <2>3
  <2>5. ASSUME NEW i \in 0..n PROVE g[i] = IF i = 0 THEN 0 ELSE g[i-1] + s[i].lost
    <3>1. CASE i = n  BY <3>1, <2>1
    <3>2. CASE i # n
      <4>1. i \in 0..(n-1) /\ g[i] = f[i]  BY <3>2, <2>1
      <4>2. f[i] = IF i = 0 THEN 0 ELSE f[i-1] + s[i].lost  BY <2>2, <4>1 DEF Sums
      <4>3. i # 0 => g[i-1] = f[i-1]  BY <4>1, <2>1
      <4> QED  BY <4>1, <4>2, <4>3
    <3> QED  BY <3>1, <3>2
  <2>6. Sums(g, s, n)  BY <2>4, <2>5 DEF Sums
  <2> QED  BY <1>2, <2>4, <2>6
<1> QED  BY <1>3, <1>4

\* They are what Reported() computes.
LEMMA ReportedIs ==
    ASSUME NEW s \in Seq(Cells), NEW f \in [0..Len(s) -> Nat], Sums(f, s, Len(s))
    PROVE  Reported(s) = f[Len(s)]
<1> DEFINE g == CHOOSE h : h = [i \in 0..Len(s) |-> IF i = 0 THEN 0 ELSE h[i-1] + s[i].lost]
<1>1. g = [i \in 0..Len(s) |-> IF i = 0 THEN 0 ELSE g[i-1] + s[i].lost]
  BY DEF Sums
<1>2. Reported(s) = g[Len(s)]  BY DEF Reported
<1> HIDE DEF g
<1> DEFINE T == {n \in 0..Len(s) : g[n] # f[n]}
<1>3. T = {}
  <2> SUFFICES ASSUME T # {} PROVE FALSE
    OBVIOUS
  <2>0. T \in SUBSET Nat  OBVIOUS
  <2>1. PICK n \in T : \A m \in T : n <= m  BY <2>0, LeastNat
  <2>2. n \in 0..Len(s) /\ g[n] # f[n]  BY <2>1
  <2>3. f[n] = IF n = 0 THEN 0 ELSE f[n-1] + s[n].lost  BY <2>2 DEF Sums
  <2>4. g[n] = IF n = 0 THEN 0 ELSE g[n-1] + s[n].lost  BY <2>2, <1>1
  <2>5. n # 0 => n - 1 \in 0..Len(s) /\ n - 1 \notin T  BY <2>1, <2>2
  <2>6. n # 0 => g[n-1] = f[n-1]  BY <2>5
  <2> QED  BY <2>2, <2>3, <2>4, <2>6
<1>4. Len(s) \in 0..Len(s)  OBVIOUS
<1> QED  BY <1>2, <1>3, <1>4

\* Nothing is reported by no cells.
LEMMA ReportedEmpty == Reported(<<>>) = 0
<1> DEFINE f == [i \in 0..0 |-> 0]
<1>1. <<>> \in Seq(Cells) /\ Len(<<>>) = 0  OBVIOUS
<1>2. f \in [0..0 -> Nat] /\ Sums(f, <<>>, 0)  BY DEF Sums
<1>3. Reported(<<>>) = f[0]  BY <1>1, <1>2, ReportedIs
<1> QED  BY <1>3

\* Reports are numbers.
LEMMA ReportedNat ==
    ASSUME NEW s \in Seq(Cells)
    PROVE  Reported(s) \in Nat
<1>1. Len(s) \in 0..Len(s)  OBVIOUS
<1>2. PICK f \in [0..Len(s) -> Nat] : Sums(f, s, Len(s))  BY <1>1, SumsExist
<1> QED  BY <1>1, <1>2, ReportedIs

\* Only the last cell of a record has a number of drops to add.
LEMMA ReportedRecord ==
    ASSUME NEW s \in Seq(Cells), NEW t \in Seq(Cells), Len(t) >= 1,
           \A i \in 1..(Len(t) - 1) : t[i].lost = 0
    PROVE  Reported(s \o t) = Reported(s) + t[Len(t)].lost
<1> DEFINE m == Len(s)
           n == Len(s) + Len(t)
           u == s \o t
           v == t[Len(t)].lost
<1>1. /\ m \in Nat /\ n \in Nat /\ m < n /\ Len(t) \in Nat
      /\ u \in Seq(Cells) /\ Len(u) = n
  OBVIOUS
<1>2. v \in Nat
  <2>1. t[Len(t)] \in Cells  OBVIOUS
  <2> QED  BY <2>1 DEF Cells
<1>3. \A i \in 1..n : u[i] = IF i <= m THEN s[i] ELSE t[i - m]  OBVIOUS
<1>4. PICK f \in [0..m -> Nat] : Sums(f, s, m)  BY <1>1, SumsExist
<1>5. Reported(s) = f[m]  BY <1>4, ReportedIs
<1> DEFINE g == [i \in 0..n |-> IF i <= m THEN f[i] ELSE IF i < n THEN f[m] ELSE f[m] + v]
<1> HIDE DEF m, n, u, v
<1>6. g \in [0..n -> Nat]  BY <1>1, <1>2, <1>4
<1>7. ASSUME NEW i \in 0..n PROVE g[i] = IF i = 0 THEN 0 ELSE g[i-1] + u[i].lost
  <2>1. CASE i <= m
    <3>1. i \in 0..m /\ g[i] = f[i] /\ (i # 0 => g[i-1] = f[i-1])  BY <1>1, <2>1
    <3>2. f[i] = IF i = 0 THEN 0 ELSE f[i-1] + s[i].lost  BY <3>1, <1>4 DEF Sums
    <3>3. i # 0 => u[i] = s[i]  BY <1>1, <1>3, <2>1
    <3> QED  BY <3>1, <3>2, <3>3
  <2>2. CASE i > m /\ i < n
    <3>1. g[i] = f[m] /\ g[i-1] = f[m] /\ i # 0 /\ f[m] \in Nat  BY <1>1, <1>4, <2>2
    <3>2. u[i] = t[i - m] /\ i - m \in 1..(Len(t) - 1)  BY <1>1, <1>3, <2>2 DEF n, m
    <3> QED  BY <3>1, <3>2
  <2>3. CASE i = n
    <3>1. g[i] = f[m] + v /\ g[i-1] = f[m] /\ i # 0  BY <1>1, <1>4, <2>3
    <3>2. u[i] = t[Len(t)]  BY <1>1, <1>3, <2>3 DEF n, m
    <3> QED  BY <3>1, <3>2 DEF v
  <2> QED  BY <1>1, <2>1, <2>2, <2>3
<1>8. Sums(g, u, n)  BY <1>6, <1>7 DEF Sums
<1>9. Reported(u) = g[n]  BY <1>1, <1>6, <1>8, ReportedIs
<1> QED  BY <1>1, <1>5, <1>9 DEF u, v

-----------------------------------------------------------------------------
(* Counting what is dropped. *)

\* Steps that write no cell, commit and drop nothing: those of the daemon and
\* of the device.
LEMMA NoCount ==
    ASSUME CountInv, \A c \in Cpus : ring'[c].head = ring[c].head /\ ring'[c].cell = ring[c].cell,
           UNCHANGED <<wr, dropped, sent, drops, garbled>>
    PROVE  CountInv'
  BY DEF CountInv, DropsReported, Noting

\* A drop is counted once, in dropped and in drops.
LEMMA DropCount ==
    ASSUME TypeOK, CountInv, NEW c \in Cpus, NEW n \in Nat, NEW w \in Writers, w.st = "idle",
           wr' = [wr EXCEPT ![c] = w], dropped' = [dropped EXCEPT ![c] = n + 1],
           drops' = [drops EXCEPT ![c] = @ + 1],
           garbled' \in [Cpus -> BOOLEAN],
           \A d \in Cpus \ {c} : garbled'[d] = garbled[d],
           garbled'[c] \/ (garbled'[c] = garbled[c] /\ n = dropped[c]),
           UNCHANGED <<ring, sent>>
    PROVE  CountInv'
  <1>1. /\ drops \in [Cpus -> Nat] /\ garbled \in [Cpus -> BOOLEAN]
        /\ dropped \in [Cpus -> Nat] /\ wr \in [Cpus -> Writers]
    BY DEF CountInv, TypeOK
  <1>2. drops' \in [Cpus -> Nat]  BY <1>1
  <1>3. ASSUME NEW d \in Cpus
        PROVE  garbled'[d] \/ Reported(sent'[d]) + dropped'[d] = drops'[d]
    <2>1. garbled[d] \/ Reported(sent[d]) + dropped[d] = drops[d]
      BY DEF CountInv, DropsReported
    <2>2. CASE d # c
      <3>1. dropped'[d] = dropped[d] /\ drops'[d] = drops[d]  BY <1>1, <2>2
      <3> QED  BY <2>1, <2>2, <3>1
    <2>3. CASE d = c
      <3>1. dropped'[d] = n + 1 /\ drops'[d] = drops[d] + 1  BY <1>1, <2>3
      <3>2. Reported(sent[d]) \in Nat /\ drops[d] \in Nat  BY <1>1, ReportedNat DEF TypeOK
      <3> QED  BY <2>1, <2>3, <3>1, <3>2
    <2> QED  BY <2>2, <2>3
  <1>4. ASSUME NEW d \in Cpus PROVE Noting(wr[d], ring[d], dropped[d])'
    <2>1. Noting(wr[d], ring[d], dropped[d])  BY DEF CountInv
    <2>2. CASE d # c
      <3>1. dropped'[d] = dropped[d] /\ wr'[d] = wr[d]  BY <1>1, <2>2
      <3> QED  BY <2>1, <3>1 DEF Noting
    <2>3. CASE d = c
      <3>1. wr'[d].st = "idle"  BY <1>1, <2>3
      <3> QED  BY <3>1 DEF Noting
    <2> QED  BY <2>2, <2>3
  <1> QED  BY <1>2, <1>3, <1>4 DEF CountInv, DropsReported

\* A cell of a record that is written.
LEMMA WriteCount ==
    ASSUME IInv, CountInv, NEW c \in Cpus, wr[c].st = "write", wr[c].room # 0,
           NEW e \in Cells, e.lost = IF wr[c].p = wr[c].len THEN dropped[c] ELSE 0,
           Wrote(c, e), UNCHANGED <<dropped, sent, drops, garbled>>
    PROVE  CountInv'
  <1> DEFINE b == ring[c]
             w == wr[c]
  <1>z. Size \in Nat \ {0}  BY SizeAssumption
  <1>1. /\ b.head \in Nat /\ b.tail \in Nat /\ b.cell \in [0..Size-1 -> Cells]
        /\ w.room \in Nat /\ w.p \in Nat
    <2>1. b \in Rings /\ w \in Writers  BY DEF IInv, TypeOK
    <2> QED  BY <2>1 DEF Rings, Writers
  <1>2. w.p < Size
    <2>1. Writing(w, b, Total(c)) /\ b.tail <= b.head  BY DEF IInv, CpuInv, Mapped
    <2> QED  BY <1>1, <1>z, <2>1 DEF Writing
  <1>w. /\ ring'[c].head = b.head /\ ring'[c].cell = [b.cell EXCEPT ![(b.head + w.p) % Size] = e]
        /\ wr'[c].p = w.p + 1 /\ wr'[c].len = w.len
        /\ \A d \in Cpus \ {c} : wr'[d] = wr[d] /\ ring'[d] = ring[d]
    BY DEF Wrote
  <1>n. Noting(w, b, dropped[c])  BY DEF CountInv
  <1> HIDE DEF b, w
  <1>3. ASSUME NEW j \in 0 .. w.p
        PROVE  ring'[c].cell[(b.head + j) % Size].lost = IF j = w.len THEN dropped[c] ELSE 0
    <2>1. b.head + j \in Nat /\ b.head + w.p \in Nat  BY <1>1
    <2>2. (b.head + j) % Size \in 0..Size-1 /\ (b.head + w.p) % Size \in 0..Size-1
      BY <1>z, <2>1, DivMod
    <2>3. CASE j = w.p  BY <1>1, <1>w, <2>2, <2>3 DEF w
    <2>4. CASE j # w.p
      <3>1. /\ b.head + j < b.head + w.p + Size /\ b.head + w.p < b.head + j + Size
            /\ b.head + j # b.head + w.p /\ j \in 0 .. w.p - 1
        BY <1>1, <1>2, <1>z, <2>4
      <3>2. (b.head + j) % Size # (b.head + w.p) % Size
        BY <1>z, <2>1, <3>1, ModInjective
      <3>3. ring'[c].cell[(b.head + j) % Size] = b.cell[(b.head + j) % Size]
        BY <1>1, <1>w, <2>2, <3>2
      <3>4. w.st = "write"  BY DEF w
      <3> QED  BY <1>n, <3>1, <3>3, <3>4 DEF Noting
    <2> QED  BY <2>3, <2>4
  <1>4. ASSUME NEW d \in Cpus PROVE Noting(wr[d], ring[d], dropped[d])'
    <2>1. CASE d # c
      <3>1. Noting(wr[d], ring[d], dropped[d])  BY DEF CountInv
      <3> QED  BY <1>w, <2>1, <3>1 DEF Noting
    <2>2. CASE d = c
      <3>1. wr'[c].p - 1 = w.p  BY <1>1, <1>w
      <3> QED  BY <1>3, <1>w, <2>2, <3>1 DEF Noting
    <2> QED  BY <2>1, <2>2
  <1> QED  BY <1>4 DEF CountInv, DropsReported

\* A record that is committed reports what was dropped before it.
LEMMA CommitCount ==
    ASSUME IInv, CountInv, NEW c \in Cpus, wr[c].st = "write", wr[c].p = Total(c),
           NEW r, r = CellsWritten(c), Committed(c, r), UNCHANGED <<drops, garbled>>
    PROVE  CountInv'
  <1>z. Size \in Nat \ {0}  BY SizeAssumption
  <1>0. TypeOK  BY DEF IInv
  <1> DEFINE b == ring[c]
             w == wr[c]
             n == w.p
             s == sent[c]
  <1>1. /\ b.head \in Nat /\ b.cell \in [0..Size-1 -> Cells]
        /\ w.p \in Nat /\ w.len \in Nat /\ s \in Seq(Cells) /\ dropped[c] \in Nat
    <2>1. b \in Rings /\ w \in Writers /\ s \in Seq(Cells) /\ dropped[c] \in Nat
      BY <1>0 DEF TypeOK
    <2> QED  BY <2>1 DEF Rings, Writers
  <1>2. n = w.len + (IF dropped[c] > 0 THEN 1 ELSE 0) /\ w.len >= 1
    <2>1. Writing(w, b, Total(c))  BY DEF IInv, CpuInv
    <2> QED  BY <2>1 DEF Writing, Total
  <1>n. \A j \in 0 .. n - 1 :
            b.cell[(b.head + j) % Size].lost = IF j = w.len THEN dropped[c] ELSE 0
    BY DEF CountInv, Noting
  <1>w. /\ wr'[c] = NoWr /\ sent'[c] = s \o r /\ dropped'[c] = 0
        /\ \A d \in Cpus \ {c} : wr'[d] = wr[d] /\ dropped'[d] = dropped[d] /\ sent'[d] = sent[d]
        /\ \A d \in Cpus \ {c} : ring'[d] = ring[d]
    BY <1>0 DEF TypeOK, Committed
  <1>r. r = [i \in 1..n |-> b.cell[(b.head + i - 1) % Size]]  BY DEF CellsWritten
  <1> HIDE DEF b, w, n, s
  <1>t. n \in Nat /\ n >= 1  BY <1>1, <1>2 DEF n
  <1>3. r \in Seq(Cells) /\ Len(r) = n
    <2>1. ASSUME NEW i \in 1..n PROVE b.cell[(b.head + i - 1) % Size] \in Cells
      <3>1. b.head + i - 1 \in Nat  BY <1>1, <1>t
      <3>2. (b.head + i - 1) % Size \in 0..Size-1  BY <1>z, <3>1, DivMod
      <3> QED  BY <1>1, <3>2
    <2>2. r \in [1..n -> Cells]  BY <1>r, <2>1
    <2> QED  BY <1>t, <2>2, SeqOfFcn
  <1>4. ASSUME NEW i \in 1..n
        PROVE  r[i].lost = IF i - 1 = w.len THEN dropped[c] ELSE 0
    <2>1. i - 1 \in 0 .. n - 1 /\ b.head + i - 1 = b.head + (i - 1)  BY <1>1, <1>t
    <2>2. r[i] = b.cell[(b.head + (i - 1)) % Size]  BY <1>r, <2>1
    <2> QED  BY <1>n, <2>1, <2>2
  <1>5. \A i \in 1..(n - 1) : r[i].lost = 0  BY <1>1, <1>2, <1>4, <1>t
  <1>6. r[n].lost = dropped[c]  BY <1>1, <1>2, <1>4, <1>t
  <1>7. Reported(s \o r) = Reported(s) + dropped[c]
    BY <1>1, <1>3, <1>5, <1>6, <1>t, ReportedRecord
  <1>8. Reported(s) \in Nat  BY <1>1, ReportedNat
  <1>9. ASSUME NEW d \in Cpus
        PROVE  garbled'[d] \/ Reported(sent'[d]) + dropped'[d] = drops'[d]
    <2>1. garbled[d] \/ Reported(sent[d]) + dropped[d] = drops[d]
      BY DEF CountInv, DropsReported
    <2>2. CASE d # c  BY <1>w, <2>1, <2>2
    <2>3. CASE d = c
      <3>1. Reported(sent'[c]) = Reported(sent[c]) + dropped[c] /\ Reported(sent[c]) \in Nat
        BY <1>7, <1>8, <1>w DEF s
      <3>2. Reported(sent'[c]) + dropped'[c] = Reported(sent[c]) + dropped[c]
        BY <1>1, <1>w, <3>1
      <3> QED  BY <2>1, <2>3, <3>2
    <2> QED  BY <2>2, <2>3
  <1>10. ASSUME NEW d \in Cpus PROVE Noting(wr[d], ring[d], dropped[d])'
    <2>1. CASE d # c
      <3>1. Noting(wr[d], ring[d], dropped[d])  BY DEF CountInv
      <3> QED  BY <1>w, <2>1, <3>1 DEF Noting
    <2>2. CASE d = c  BY <1>w, <2>2 DEF Noting, NoWr
    <2> QED  BY <2>1, <2>2
  <1> QED  BY <1>9, <1>10 DEF CountInv, DropsReported

\* Every step of a writer counts right.
LEMMA WriterCount ==
    ASSUME IInv, CountInv, NEW c \in Cpus, Writer(c)
    PROVE  CountInv'
  <1>0. TypeOK  BY DEF IInv
  <1>t. /\ dropped[c] \in Nat /\ wr[c] \in Writers /\ ring[c] \in Rings
        /\ wr \in [Cpus -> Writers] /\ dropped \in [Cpus -> Nat]
        /\ garbled \in [Cpus -> BOOLEAN]
    BY <1>0 DEF TypeOK, CountInv
  <1>n. NoWr \in Writers /\ NoWr.st = "idle"  BY DEF NoWr, Writers
  <1>1. ASSUME NEW len \in Lens, LogStart(c, len) PROVE CountInv'
    <2>1. CASE GetRoom(ring[c]) < Header
      <3>1. /\ wr' = [wr EXCEPT ![c] = wr[c]]
            /\ dropped' = [dropped EXCEPT ![c] = dropped[c] + 1]
            /\ drops' = [drops EXCEPT ![c] = @ + 1]
            /\ wr[c].st = "idle" /\ UNCHANGED <<ring, sent, garbled>>
        BY <1>t, <1>1, <2>1 DEF LogStart
      <3> QED  BY <1>0, <1>t, <3>1, DropCount
    <2>2. CASE ~(GetRoom(ring[c]) < Header)
      <3>1. /\ wr' = [wr EXCEPT ![c] =
                  [st |-> "write", room |-> GetRoom(ring[c]), p |-> 0,
                   id |-> events + 1, len |-> len]]
            /\ UNCHANGED <<ring, dropped, sent, drops, garbled>>
        BY <1>1, <2>2 DEF LogStart
      <3>2. ASSUME NEW d \in Cpus PROVE Noting(wr[d], ring[d], dropped[d])'
        <4>1. CASE d # c
          <5>1. Noting(wr[d], ring[d], dropped[d]) /\ wr'[d] = wr[d]
            BY <1>t, <3>1, <4>1 DEF CountInv
          <5> QED  BY <3>1, <5>1 DEF Noting
        <4>2. CASE d = c
          <5>1. wr'[c].p = 0  BY <1>t, <3>1
          <5> QED  BY <4>2, <5>1 DEF Noting
        <4> QED  BY <4>1, <4>2
      <3> QED  BY <3>1, <3>2 DEF CountInv, DropsReported
    <2> QED  BY <2>1, <2>2
  <1>2. CASE LogWrite(c)
    <2>1. CASE wr[c].room = 0
      <3>1. /\ wr' = [wr EXCEPT ![c] = NoWr]
            /\ dropped' = [dropped EXCEPT ![c] = dropped[c] + 1]
            /\ drops' = [drops EXCEPT ![c] = @ + 1]
            /\ UNCHANGED <<ring, sent, garbled>>
        BY <1>2, <2>1 DEF LogWrite, Drop
      <3> QED  BY <1>0, <1>t, <1>n, <3>1, DropCount
    <2>2. CASE wr[c].room # 0
      <3> DEFINE e == [id |-> wr[c].id, at |-> wr[c].p + 1, len |-> Total(c),
                       lost |-> IF wr[c].p = wr[c].len THEN dropped[c] ELSE 0]
      <3>1. /\ wr[c].st = "write" /\ wr[c].p < Total(c)
            /\ wr' = [wr EXCEPT ![c].room = @ - 1, ![c].p = @ + 1]
            /\ ring' = [ring EXCEPT ![c].cell[(ring[c].head + wr[c].p) % Size] = e]
            /\ UNCHANGED <<dropped, sent, drops, garbled>>
        BY <1>2, <2>2 DEF LogWrite
      <3>2. wr[c].id \in Nat /\ wr[c].p \in Nat /\ wr[c].len \in Nat  BY <1>t DEF Writers
      <3>3. Total(c) \in Nat  BY <1>t, <3>2 DEF Total
      <3>4. e \in Cells /\ e.lost = IF wr[c].p = wr[c].len THEN dropped[c] ELSE 0
        BY <1>t, <3>2, <3>3 DEF Cells
      <3> HIDE DEF e
      <3>5. Wrote(c, e)  BY <1>0, <2>2, <3>1, <3>4, WriteEffect
      <3> QED  BY <2>2, <3>1, <3>4, <3>5, WriteCount
    <2> QED  BY <2>1, <2>2
  <1>3. CASE LogCommit(c)
    <2>1. CASE Fits(ring[c], wr[c].p)
      <3> DEFINE r == CellsWritten(c)
      <3>1. /\ wr[c].st = "write" /\ wr[c].p = Total(c)
            /\ ring' = [ring EXCEPT ![c].head = @ + wr[c].p]
            /\ sent' = [sent EXCEPT ![c] = @ \o r]
            /\ dropped' = [dropped EXCEPT ![c] = 0]
            /\ wr' = [wr EXCEPT ![c] = NoWr]
            /\ UNCHANGED <<drops, garbled>>
        BY <1>3, <2>1 DEF LogCommit, CellsWritten
      <3> HIDE DEF r
      <3>2. wr[c].p \in Nat  BY <1>t DEF Writers
      <3>3. /\ ring'[c].head = ring[c].head + wr[c].p /\ ring'[c].tail = ring[c].tail
            /\ ring'[c].cell = ring[c].cell
            /\ \A d \in Cpus \ {c} : ring'[d] = ring[d]
            /\ ring' \in [Cpus -> Rings]
        <4>1. ring[c].head + wr[c].p \in Nat  BY <1>t, <3>2 DEF Rings
        <4>2. ring' = [ring EXCEPT ![c].head = @ + wr[c].p]  BY <3>1
        <4> QED  BY <1>0, <4>1, <4>2, HeadMoved
      <3>4. Committed(c, r)  BY <3>1, <3>3 DEF Committed
      <3> QED  BY <3>1, <3>4, CommitCount DEF r
    <2>2. CASE ~Fits(ring[c], wr[c].p)
      <3>1. /\ \/ dropped[c] > 0 /\ Drop(c, dropped[c])
               \/ dropped[c] = 0 /\ \E g \in Garbage : Drop(c, g)
            /\ garbled' = [garbled EXCEPT ![c] = @ \/ dropped[c] = 0]
            /\ UNCHANGED <<ring, sent>>
        BY <1>3, <2>2 DEF LogCommit
      <3>2. PICK n \in Nat : Drop(c, n) /\ (dropped[c] = 0 \/ n = dropped[c])
        BY <1>t, <3>1, GarbageAssumption
      <3>3. garbled' = [garbled EXCEPT ![c] = garbled[c] \/ dropped[c] = 0]  BY <3>1
      <3>4. /\ garbled' \in [Cpus -> BOOLEAN] /\ \A d \in Cpus \ {c} : garbled'[d] = garbled[d]
            /\ garbled'[c] \/ (garbled'[c] = garbled[c] /\ n = dropped[c])
        <4>1. garbled[c] \in BOOLEAN /\ (garbled[c] \/ dropped[c] = 0) \in BOOLEAN  BY <1>t
        <4>2. garbled'[c] = (garbled[c] \/ dropped[c] = 0)  BY <1>t, <3>3
        <4>3. garbled' \in [Cpus -> BOOLEAN] /\ \A d \in Cpus \ {c} : garbled'[d] = garbled[d]
          BY <1>t, <3>3, <4>1
        <4> QED  BY <3>2, <4>1, <4>2, <4>3
      <3>5. /\ wr' = [wr EXCEPT ![c] = NoWr]
            /\ dropped' = [dropped EXCEPT ![c] = n + 1]
            /\ drops' = [drops EXCEPT ![c] = @ + 1]
        BY <3>2 DEF Drop
      <3> QED  BY <1>0, <1>n, <3>1, <3>4, <3>5, DropCount
    <2> QED  BY <2>1, <2>2
  <1> QED  BY <1>1, <1>2, <1>3 DEF Writer

\* Steps of workers and of the device change at most the tail and the flag of
\* a ring.
LEMMA OtherCount ==
    ASSUME IInv, CountInv,
           \/ \E c \in Cpus : Worker(c)
           \/ Free \/ OpenTest \/ OpenSet \/ Close \/ Crash \/ Signal \/ UNCHANGED vars
    PROVE  CountInv'
  <1> USE DEF kernel, logger, ghost
  <1>1. UNCHANGED <<wr, dropped, sent, drops, garbled>>
    BY DEF Worker, WorkerMap, WorkerFails, WorkerTop, Consume, ReadEvent, StoreTail, ReadFails,
           Send, Check, Idle, Exit, Free, FreeBegin, FreeClear, FreeDone, OpenTest, OpenSet,
           Close, Crash, Signal, vars
  <1>2. \/ ring' = ring
        \/ \E d \in Cpus : \E x : ring' = [ring EXCEPT ![d].ready = x]
        \/ \E d \in Cpus : \E x : ring' = [ring EXCEPT ![d].tail = x]
    BY DEF Worker, WorkerMap, WorkerFails, WorkerTop, Consume, ReadEvent, StoreTail, ReadFails,
           Send, Check, Idle, Exit, Free, FreeBegin, FreeClear, FreeDone, OpenTest, OpenSet,
           Close, Crash, Signal, vars
  <1>3. ring \in [Cpus -> Rings]  BY DEF IInv, TypeOK
  <1>4. ASSUME NEW d \in Cpus PROVE ring'[d].head = ring[d].head /\ ring'[d].cell = ring[d].cell
    <2>1. ring[d] \in Rings  BY <1>3
    <2>2. CASE ring' = ring  BY <2>2
    <2>3. ASSUME NEW f \in Cpus, NEW x, ring' = [ring EXCEPT ![f].ready = x]
          PROVE  ring'[d].head = ring[d].head /\ ring'[d].cell = ring[d].cell
      BY <1>3, <2>1, <2>3 DEF Rings
    <2>4. ASSUME NEW f \in Cpus, NEW x, ring' = [ring EXCEPT ![f].tail = x]
          PROVE  ring'[d].head = ring[d].head /\ ring'[d].cell = ring[d].cell
      BY <1>3, <2>1, <2>4 DEF Rings
    <2> QED  BY <1>2, <2>2, <2>3, <2>4
  <1> QED  BY <1>1, <1>4, NoCount

\* Nothing was dropped at the start.
LEMMA InitCount == Init => CountInv
  <1> SUFFICES ASSUME Init PROVE CountInv  OBVIOUS
  <1>1. ASSUME NEW c \in Cpus
        PROVE  /\ garbled[c] \/ Reported(sent[c]) + dropped[c] = drops[c]
               /\ Noting(wr[c], ring[c], dropped[c])
    <2>1. /\ sent[c] = <<>> /\ dropped[c] = 0 /\ drops[c] = 0 /\ wr[c].st = "idle"
      BY DEF Init, NoWr
    <2>2. Reported(sent[c]) = 0  BY <2>1, ReportedEmpty
    <2> QED  BY <2>1, <2>2 DEF Noting
  <1>2. drops \in [Cpus -> Nat] /\ garbled \in [Cpus -> BOOLEAN]  BY DEF Init
  <1> QED  BY <1>1, <1>2 DEF CountInv, DropsReported

\* Every record that do_access_log_req_mmap() drops is counted once, in a later
\* record or still to be reported, as long as no number was restored that was
\* never saved; for any rings, records and crashes of the daemon.
THEOREM DropsAlwaysReported == Spec => []DropsReported
  <1>1. IInv /\ CountInv /\ [Next]_vars => CountInv'
    <2> SUFFICES ASSUME IInv, CountInv, [Next]_vars PROVE CountInv'  OBVIOUS
    <2>1. ASSUME NEW c \in Cpus, Writer(c) PROVE CountInv'  BY <2>1, WriterCount
    <2>2. ASSUME NEW c \in Cpus, Worker(c) PROVE CountInv'  BY <2>2, OtherCount
    <2>3. CASE Free \/ OpenTest \/ OpenSet \/ Close \/ Crash \/ Signal \/ UNCHANGED vars
      BY <2>3, OtherCount
    <2> QED  BY <2>1, <2>2, <2>3 DEF Next
  <1>2. CountInv => DropsReported  BY DEF CountInv
  <1> QED  BY <1>1, <1>2, InitCount, IInvariance, PTL DEF Spec
=============================================================================
