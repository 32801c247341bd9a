------------------------------ MODULE HpackEnc ------------------------------
(***************************************************************************)
(* The HPACK encoder of one HTTP/2 connection (fw/hpack.c): the dynamic    *)
(* table as a ring buffer of nodes that are also linked into a search      *)
(* tree, its eviction and its size updates; the streams that encode their  *)
(* headers and trailers with it and send them later (fw/http2.c,           *)
(* fw/http_frame.c); and the decoder of the client, which is what all of   *)
(* this is for.                                                            *)
(*                                                                         *)
(* The search tree is the set of its nodes: rotations and colours decide   *)
(* nothing but the time of a search.  Every header block is one field that *)
(* the static table does not have; a block of several fields is the same   *)
(* as several blocks for both tables.  Encoding and frames are made under  *)
(* the socket lock, in one action each.                                    *)
(***************************************************************************)
EXTENDS Integers, Sequences, FiniteSets, FiniteSetsExt, SequencesExt

CONSTANTS
    MaxSize,    \* HPACK_ENC_TABLE_MAX_SIZE, also the size of the ring buffer
    Overhead,   \* HPACK_ENTRY_OVERHEAD
    NodeHdr,    \* sizeof(TfwHPackNode)
    Unit,       \* alignment of nodes
    MaxEvict,   \* HPACK_MAX_ENC_EVICTION
    Fields,     \* header fields: [n, v, len], name, value, length of both
    Settings,   \* values of SETTINGS_HEADER_TABLE_SIZE
    Streams,
    MaxAdds     \* bound: entries ever added

ASSUME HpackBounds ==
    /\ {MaxSize, Overhead, NodeHdr, Unit} \subseteq Nat \ {0}
    /\ MaxSize % Unit = 0
    /\ NodeHdr + Unit - 1 <= Overhead   \* as 24 + 7 <= 32
    /\ \A f \in Fields : f.len \in Nat

VARIABLES
    tbl,        \* TfwHPackETbl
    strm,       \* streams: state and the blocks encoded and not yet sent
    dec,        \* decoder of the client: its table, the newest field first,
                \*   its size, and the least size it was told to expect
    order,      \* blocks that are encoded and not sent, the oldest first
    late,       \* a block met other tables than the ones it was encoded for
    wrong       \* the client decoded something else than was encoded

vars == <<tbl, strm, dec, order, late, wrong>>

None == -1

-----------------------------------------------------------------------------
\* The ring buffer.  mem holds the nodes that are linked into the tree, by
\* their offsets.

NodeSize(f) == f.len + Overhead
NodeLen(f)  == ((NodeHdr + f.len + Unit - 1) \div Unit) * Unit
NodeNext(t, off) == off + NodeLen(t.mem[off].f)

\* tfw_hpack_rbuf_calc(): the iterator after k evictions.  The end of the
\* buffer that a wrapped node left unused is regained when the last node
\* before it goes.
AfterEvictions(t) ==
    LET run[k \in 0..Cardinality(DOMAIN t.mem)] ==
        IF k = 0
        THEN [first |-> t.first, last |-> t.last, rb_len |-> t.rb_len,
              rb_size |-> t.rb_size, size |-> t.size, del |-> {}]
        ELSE LET x == run[k-1]
                 f == t.mem[x.first].f
                 wrap == /\ x.last < x.first
                         /\ x.rb_len - NodeLen(f) = NodeNext(t, x.last)
             IN [first   |-> IF wrap THEN 0 ELSE NodeNext(t, x.first),
                 last    |-> x.last,
                 rb_len  |-> x.rb_len - NodeLen(f),
                 rb_size |-> IF wrap THEN MaxSize ELSE x.rb_size,
                 size    |-> x.size - NodeSize(f),
                 del     |-> x.del \cup {x.first}]
    IN run

\* Mutant: the regained end of the buffer is forgotten.
RbufCalcKeepsSize(t, n) ==
    LET run == AfterEvictions(t)
        k   == Min({i \in 1..Cardinality(DOMAIN t.mem) : run[i].size <= n})
        x   == run[k]
    IN [n |-> k,
        it |-> IF x.size > 0 THEN [x EXCEPT !.rb_size = t.rb_size]
               ELSE [x EXCEPT !.first = None, !.last = None, !.rb_len = 0]]

\* tfw_hpack_rbuf_calc(): at least one node goes, and as many as it takes to
\* get to size n.
RbufCalc(t, n) ==
    LET run == AfterEvictions(t)
        k   == Min({i \in 1..Cardinality(DOMAIN t.mem) : run[i].size <= n})
        x   == run[k]
    IN [n |-> k,
        it |-> IF x.size > 0 THEN x
               ELSE [x EXCEPT !.first = None, !.last = None, !.rb_len = 0]]

\* tfw_hpack_rbtree_erase() of the nodes of the iterator.
Erase(mem, offs) == [o \in DOMAIN mem \ offs |-> mem[o]]

\* The assertions on an iterator, of tfw_hpack_rbuf_calc() the one at its end.
Warned(it, len) ==
    \/ it.first = None /\ it.rb_size # MaxSize
    \/ it.rb_size < it.rb_len + len /\ it.rb_size = MaxSize
    \/ it.first # None /\ it.first <= it.last /\ it.rb_size # MaxSize

\* tfw_hpack_add_node(): where the node goes, None if it does not fit.
Place(t, it, len) ==
    LET end   == MaxSize - NodeNext(t, it.last)
    IN IF it.rb_size < it.rb_len + len THEN None
       ELSE IF it.first = None THEN 0
       ELSE IF it.first > it.last \/ end >= len THEN NodeNext(t, it.last)
       ELSE IF it.rb_size - end < it.rb_len + len THEN None
       ELSE 0

\* The length and the index of the new node, then tfw_hpack_rbuf_commit(), which
\* erases the evicted nodes.  They are one step: a node that the new one lies
\* over keeps its links, the only part of it that the erasure reads, since the
\* lengths and the index come before them in the aligned structure.
Commit(t, f, it, off) ==
    LET wrap == off = 0 /\ it.first # None /\ it.first <= it.last
        node == [f |-> f, rindex |-> t.idx_acc + 1]
        mem  == Erase(t.mem, it.del)
    IN [t EXCEPT
          !.mem     = [o \in DOMAIN mem \cup {off} |-> IF o = off THEN node
                                                       ELSE mem[o]],
          !.first   = IF it.first = None THEN off ELSE it.first,
          !.last    = off,
          !.rb_len  = it.rb_len + NodeLen(f),
          !.rb_size = IF wrap THEN NodeNext(t, it.last) ELSE it.rb_size,
          !.size    = it.size + NodeSize(f),
          !.idx_acc = @ + 1]

\* Mutant: evictions are done while it is still unknown if the node fits.
AddNodeEvictsFirst(t, f) ==
    LET full == t.size + NodeSize(f) > t.window
        it   == RbufCalc(t, t.window - NodeSize(f)).it
        u    == IF full
                THEN [t EXCEPT !.mem = Erase(@, it.del), !.first = it.first,
                               !.last = it.last, !.rb_len = it.rb_len,
                               !.rb_size = it.rb_size, !.size = it.size]
                ELSE t
        now  == [first |-> u.first, last |-> u.last, rb_len |-> u.rb_len,
                 rb_size |-> u.rb_size, size |-> u.size, del |-> {}]
        off  == Place(u, now, NodeLen(f))
    IN IF NodeSize(f) > t.window THEN t
       ELSE IF off = None THEN u
       ELSE Commit(u, f, now, off)

\* tfw_hpack_add_node(): the table with f, or the table as it was.
AddNode(t, f) ==
    LET full == t.size + NodeSize(f) > t.window
        calc == RbufCalc(t, t.window - NodeSize(f))
        it   == IF full THEN calc.it
                ELSE [first |-> t.first, last |-> t.last, rb_len |-> t.rb_len,
                      rb_size |-> t.rb_size, size |-> t.size, del |-> {}]
        off  == Place(t, it, NodeLen(f))
    IN IF NodeSize(f) > t.window \/ (full /\ calc.n > MaxEvict) THEN t
       ELSE IF Warned(it, NodeLen(f)) THEN [t EXCEPT !.warned = TRUE]
       ELSE IF off = None THEN t
       ELSE Commit(t, f, it, off)

\* HPACK_NODE_GET_INDEX, 0 is the first entry after the static table.
GetIndex(t, off) == t.idx_acc - t.mem[off].rindex

-----------------------------------------------------------------------------
\* Mutant: a refused addition is written as an addition.
EncodedAlwaysAdds(t, f) ==
    LET same == {o \in DOMAIN t.mem : t.mem[o].f = f}
        name == {o \in DOMAIN t.mem : t.mem[o].f.n = f.n}
        e(ty, i) == [ty |-> ty, i |-> i, add |-> ty # "index", f |-> f,
                     t |-> IF ty = "index" THEN t ELSE AddNode(t, f)]
    IN IF same # {} THEN {e("index", GetIndex(t, o)) : o \in same}
       ELSE IF name # {} THEN {e("name", GetIndex(t, o)) : o \in name}
       ELSE {e("new", None)}

\* tfw_hpack_encoder_index() and __tfw_hpack_encode(): what may be written for
\* f, and the table after it.  The tree is ordered by names first, so that one
\* of the nodes with the name is on the way of the search, whichever.  The index
\* is that of the table before the node is added.
Encoded(t, f) ==
    LET same == {o \in DOMAIN t.mem : t.mem[o].f = f}
        name == {o \in DOMAIN t.mem : t.mem[o].f.n = f.n}
        u    == AddNode(t, f)
        e(ty, i) == [ty |-> ty, i |-> i, add |-> u.idx_acc # t.idx_acc,
                     f |-> f, t |-> u]
    IN IF same # {}
       THEN {[ty |-> "index", i |-> GetIndex(t, o), add |-> FALSE, f |-> f,
              t |-> t] : o \in same}
       ELSE IF name # {} THEN {e("name", GetIndex(t, o)) : o \in name}
       ELSE {e("new", None)}

Field(e) == [ty |-> e.ty, i |-> e.i, add |-> e.add, f |-> e.f]

\* tfw_hpack_set_rbuf_size()
SetRbufSize(t, n) ==
    IF t.window # n /\ (~t.wnd_changed \/ t.window = 0 \/ n < t.window)
    THEN LET it == RbufCalc(t, n).it
             u  == IF t.size <= n THEN t
                   ELSE [t EXCEPT !.mem = Erase(@, it.del), !.first = it.first,
                                  !.last = it.last, !.rb_len = it.rb_len,
                                  !.rb_size = it.rb_size, !.size = it.size]
         IN [u EXCEPT !.window = n, !.wnd_changed = TRUE]
    ELSE t

-----------------------------------------------------------------------------
\* The decoder of the client, from RFC 7541.

DecSize(tab) == MapThenSumSet(LAMBDA k : NodeSize(tab[k]), DOMAIN tab)

DecEvict(tab, n) ==
    SubSeq(tab, 1, Max({k \in 0..Len(tab) : DecSize(SubSeq(tab, 1, k)) <= n}))

DecUpdate(d, n) == [d EXCEPT !.tab = DecEvict(@, n), !.max = n]

\* The field that b stands for: the field itself, its name with a literal
\* value, or nothing if the index does not exist.
Decoded(d, b) ==
    CASE b.ty = "new"     -> {b.f}
      [] b.i >= Len(d.tab) -> {}
      [] b.ty = "index"   -> {d.tab[b.i + 1]}
      [] OTHER            -> {[b.f EXCEPT !.n = d.tab[b.i + 1].n]}

DecAdd(d, b) ==
    IF ~b.add THEN d
    ELSE IF NodeSize(b.f) > d.max THEN [d EXCEPT !.tab = <<>>]
    ELSE [d EXCEPT !.tab = <<b.f>> \o DecEvict(@, d.max - NodeSize(b.f))]

-----------------------------------------------------------------------------
Idle == [st |-> "idle", blocks |-> <<>>]

\* tfw_hpack_init()
Init ==
    /\ tbl = [first |-> None, last |-> None, rb_len |-> 0, rb_size |-> MaxSize,
              size |-> 0, window |-> MaxSize, wnd_changed |-> FALSE,
              idx_acc |-> 0, mem |-> [o \in {} |-> None], warned |-> FALSE]
    /\ strm = [s \in Streams |-> Idle]
    /\ dec = [tab |-> <<>>, max |-> MaxSize, least |-> MaxSize]
    /\ order = <<>>
    /\ late = FALSE /\ wrong = FALSE

\* HTTP2_ENCODE_HEADERS: tfw_h2_stream_xmit_prepare_resp() encodes headers and
\* trailers of a response.  The frames are made at once or, if the send window
\* of TCP is used up, in a later push.
EncodeHeaders(s, f) ==
    /\ strm[s].st = "idle"
    /\ tbl.idx_acc < MaxAdds
    /\ \E e \in Encoded(tbl, f) :
           /\ tbl' = e.t
           /\ strm' = [strm EXCEPT ![s] = [st |-> "hdrs", blocks |-> <<Field(e)>>]]
    /\ order' = Append(order, s)
    /\ UNCHANGED <<dec, late, wrong>>

EncodeWithTrailers(s, f, g) ==
    /\ strm[s].st = "idle"
    /\ tbl.idx_acc + 1 < MaxAdds
    /\ \E e \in Encoded(tbl, f) : \E h \in Encoded(e.t, g) :
           /\ tbl' = h.t
           /\ strm' = [strm EXCEPT ![s] = [st |-> "hdrs",
                                           blocks |-> <<Field(e), Field(h)>>]]
    /\ order' = order \o <<s, s>>
    /\ UNCHANGED <<dec, late, wrong>>

\* The next block of s is sent, the decoder being d when it arrives.
Sent(s, d) ==
    LET b == Head(strm[s].blocks)
    IN /\ wrong' = (Decoded(d, b) # {b.f})
       /\ dec' = DecAdd(d, b)
       /\ late' = (late \/ Head(order) # s)
       /\ order' = RemoveFirst(order, s)
       /\ strm' = [strm EXCEPT ![s] = IF Len(@.blocks) = 1 THEN Idle
                                      ELSE [st |-> "data", blocks |-> Tail(@.blocks)]]

\* HTTP2_MAKE_HEADERS_FRAMES: a size update goes first
\* (tfw_hpack_enc_tbl_write_sz()).
MakeHeaders(s) ==
    /\ strm[s].st = "hdrs"
    /\ Sent(s, [IF tbl.wnd_changed THEN DecUpdate(dec, tbl.window) ELSE dec
                EXCEPT !.least = MaxSize])
    /\ tbl' = [tbl EXCEPT !.wnd_changed = FALSE]

\* HTTP2_MAKE_TRAILER_FRAMES, after the body.
MakeTrailers(s) ==
    /\ strm[s].st = "data"
    /\ Sent(s, dec)
    /\ UNCHANGED tbl

\* The client resets a stream with something left to send.
Reset(s) ==
    /\ strm[s].st # "idle"
    /\ strm' = [strm EXCEPT ![s] = Idle]
    /\ order' = SelectSeq(order, LAMBDA x : x # s)
    /\ late' = TRUE
    /\ UNCHANGED <<tbl, dec, wrong>>

\* SETTINGS_HEADER_TABLE_SIZE is applied, with the acknowledgement.
ApplySettings(v) ==
    LET n == Min({v, MaxSize})
        u == SetRbufSize(tbl, n)
    IN /\ tbl' = u
       /\ dec' = [dec EXCEPT !.least = Min({@, n})]
       /\ late' = (late \/ (u # tbl /\ order # <<>>))
       /\ UNCHANGED <<strm, order, wrong>>

Next ==
    /\ ~wrong
    /\ \/ \E s \in Streams, f \in Fields : EncodeHeaders(s, f)
       \/ \E s \in Streams, f, g \in Fields : EncodeWithTrailers(s, f, g)
       \/ \E s \in Streams : MakeHeaders(s) \/ MakeTrailers(s) \/ Reset(s)
       \/ \E v \in Settings : ApplySettings(v)

Spec == Init /\ [][Next]_vars

-----------------------------------------------------------------------------
\* Properties

\* The nodes in the order of their positions in the ring.
Chain(t) ==
    LET next(o) == IF NodeNext(t, o) \in DOMAIN t.mem THEN NodeNext(t, o) ELSE 0
        at[k \in 1..Cardinality(DOMAIN t.mem)] ==
            IF k = 1 THEN t.first ELSE next(at[k-1])
    IN [k \in 1..Cardinality(DOMAIN t.mem) |-> at[k]]

\* The ring buffer stays intact whatever is added, evicted and resized: its
\* nodes lie within the buffer and do not overlap, from the first to the last
\* one they follow each other by age, the lengths and the size are theirs, the
\* size is within the window, the end of the buffer is regained when the table
\* gets empty, and no assertion of the code fails.
RingIntact ==
    LET t == tbl
        nodes == DOMAIN t.mem
    IN /\ ~t.warned
       /\ t.rb_len <= t.size /\ t.size <= t.window
       /\ nodes = {} => t.rb_size = MaxSize
       /\ t.size = MapThenSumSet(LAMBDA o : NodeSize(t.mem[o].f), nodes)
       /\ t.rb_len = MapThenSumSet(LAMBDA o : NodeLen(t.mem[o].f), nodes)
       /\ \A o \in nodes : NodeNext(t, o) <= MaxSize
       /\ \A o, p \in nodes : o < p => NodeNext(t, o) <= p
       /\ nodes # {} => t.first \in nodes /\ t.last \in nodes
       /\ \A k \in DOMAIN Chain(t) :
              /\ Chain(t)[k] \in nodes
              /\ t.mem[Chain(t)[k]].rindex = t.idx_acc - Len(Chain(t)) + k

\* The ring buffer with its tree implements the dynamic table of RFC 7541: an
\* addition evicts the oldest fields and no more than needed, and an addition
\* that is given up half-way changes nothing.
Table == INSTANCE HpackTable
         WITH entries <- [k \in DOMAIN Chain(tbl) |-> tbl.mem[Chain(tbl)[k]].f],
              bound <- tbl.window, FieldSize <- NodeSize
ImplementsTable == Table!Spec

\* The client decodes every field as it was encoded, as long as blocks are
\* sent in the order in which they were encoded, none is dropped, and the
\* table is not resized in between: names found by an index, refused
\* additions, evictions on both sides and size updates included.
DecodedRight == wrong => late

\* The tables of both sides are kept "in synchronized state"
\* (tfw_hpack_add_node()): the client always decodes what was encoded.
AlwaysDecodedRight == ~wrong

\* "the smallest maximum table size that occurs in that interval MUST be
\* signaled" (tfw_hpack_set_rbuf_size()): a header block after settings starts
\* with an update to no more than the least of them.
SmallestSignaled ==
    [][\A s \in Streams : MakeHeaders(s) /\ dec.least < dec.max
          => tbl.wnd_changed /\ tbl.window <= dec.least]_vars
=============================================================================
