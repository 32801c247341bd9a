------------------------------- MODULE H2Conn -------------------------------
(***************************************************************************)
(* One HTTP/2 client connection: the stream state machine                  *)
(* (fw/http_stream.c), the storage and the queues of streams (fw/http2.c), *)
(* the frames that are received and the frames that are made of responses  *)
(* (fw/http_frame.c), HTTP/2 flow control and the flag by which the kernel *)
(* knows that the connection has something to send (fw/connection.c).      *)
(*                                                                         *)
(* All of this runs under the socket lock, except for the CPUs that finish *)
(* requests (RespInit, CloseReq), which take only ctx->lock.  What they    *)
(* and the receive path send goes through the work queue of the socket     *)
(* layer (out) and meets the connection later.  A push of the write queue  *)
(* makes one frame per step with the socket lock held.                     *)
(*                                                                         *)
(* Lengths are counted in units; the frame header has none.  All streams   *)
(* depend on the root of the priority tree (H2Sched has the whole tree):   *)
(* any active stream may be the next one and a stream is "exclusive" if it *)
(* is the only one.  Responses start when the request is complete, so      *)
(* nothing is sent on an open stream but RST_STREAM and the state          *)
(* LOC_HALF_CLOSED is not reached: error responses that end the connection *)
(* and GOAWAY are left out, a connection error ends the connection here.   *)
(***************************************************************************)
EXTENDS Integers, FiniteSets, FiniteSetsExt, SequencesExt

CONSTANTS
    MaxStream,      \* the streams are 1..MaxStream
    MaxStreams,     \* lsettings.max_streams
    MaxClosed,      \* TFW_MAX_CLOSED_STREAMS
    DefWnd,         \* DEF_WND_SIZE, the initial window
    MaxWnd,         \* MAX_WND_SIZE, 2^31-1 in the code
    WndSettings,    \* values of SETTINGS_INITIAL_WINDOW_SIZE of the client
    WndIncrs,       \* increments in WINDOW_UPDATE frames
    MaxFrame,       \* rsettings.max_frame_sz
    MinSend,        \* 512 or the MSS without the overhead of TLS, the smaller
    Responses,      \* [h, b, t]: lengths of headers, body and trailers
    Bursts,         \* TCP send windows of a push
    MaxRecv         \* bound on the frames of the client, not counting HEADERS
                    \* of a stream above the last one

Streams == 1..MaxStream

ASSUME H2Bounds == /\ MaxStream \in Nat \ {0}
                   /\ MaxStreams \in Nat \ {0}
                   /\ MaxFrame \in Nat \ {0}
                   /\ MinSend \in Nat \ {0}
                   /\ DefWnd \in 0..MaxWnd
                   /\ WndSettings \subseteq 0..MaxWnd
                   /\ Responses \subseteq [h : Nat \ {0}, b : Nat, t : Nat]
                   /\ IsFiniteSet(Bursts) /\ Bursts \subseteq Nat \ {0}
                   /\ Bursts # {}
                   /\ WndIncrs \subseteq Nat
                   /\ MaxClosed \in Nat

VARIABLES c,        \* TfwH2Ctx with its streams, and the socket
          out,      \* sends in the work queue of the socket layer
          push,     \* the push of the write queue that holds the socket
          recv,     \* frames received so far that count for MaxRecv
          wire      \* observer of what is on the wire

vars == <<c, out, push, recv, wire>>

(***************************************************************************)
(* TfwStream.  st is the state with the END_STREAM flag sent in eosS (the  *)
(* one received in eosR), req the request linked to it, the rest is        *)
(* TfwHttpXmit: resp and the lengths stand for skb_head, tail for the      *)
(* RST_STREAM behind the response, post for the postponed frames.          *)
(***************************************************************************)
NewStream(w) == [st |-> "IDLE", eosS |-> FALSE, eosR |-> FALSE, wnd |-> w,
                 req |-> "no", resp |-> FALSE, xs |-> "no",
                 h |-> 0, b |-> 0, t |-> 0, blk |-> FALSE,
                 tail |-> <<>>, post |-> <<>>]

NewConn == [s |-> [i \in Streams |-> NewStream(0)], tree |-> {},
            closed |-> <<>>, idle |-> <<>>, last |-> 0, curS |-> 0, curR |-> 0,
            wnd |-> DefWnd, init |-> DefWnd, new |-> DefWnd, need |-> FALSE,
            has |-> FALSE, wq |-> <<>>, up |-> TRUE, res |-> "OK"]

\* The connection is closed and its streams are freed.
Term(d) == [NewConn EXCEPT !.up = FALSE]

HasSkb(r) == r.resp \/ r.h + r.b + r.t > 0 \/ r.tail # <<>>
Active(r) == HasSkb(r) /\ ~r.blk

ActiveStreams(d) == {i \in d.tree : Active(d.s[i])}

ReadyToSend(d) == ActiveStreams(d) # {} /\ d.wnd # 0

NotClosed(d, i) == i \in d.tree /\ d.s[i].st # "CLOSED"

SetState(d, i, st) == [d EXCEPT !.s[i].st = st]

\* list_del_init(): a stream is in a queue at most once.
Without(q, i) ==
    IF Contains(q, i) THEN RemoveAt(q, CHOOSE k \in DOMAIN q : q[k] = i) ELSE q

\* The number of streams at the front of a queue that are below i.
Below(q, i) == Max({k \in 0..Len(q) : \A l \in 1..k : q[l] < i})

\* The place behind the last stream of a queue that is below i, which is the end
\* of the queue if there is none.
Behind(q, i) ==
    IF \E k \in DOMAIN q : q[k] < i THEN Max({k \in DOMAIN q : q[k] < i})
    ELSE Len(q)

\* A stream is in one queue at most: the second request to queue it is void.
AddClosed(d, i) ==
    IF Contains(d.closed, i) \/ Contains(d.idle, i) THEN d
    ELSE [d EXCEPT !.closed = Append(@, i)]

AddIdle(d, i) ==
    [d EXCEPT !.idle = InsertAt(@, Behind(@, i) + 1, i)]

\* tfw_h2_stream_del_from_queue_nolock(): the queue it is in.
Dequeue(d, i) == [d EXCEPT !.closed = Without(@, i), !.idle = Without(@, i)]

\* Also frees the request that is not complete yet.
Unlink(d, i) == [Dequeue(d, i) EXCEPT !.s[i].req = "no"]

\* Mutant: the connection still points to the stream whose headers it sends.
ResetOnCloseRecv(d, i) == [d EXCEPT !.curR = IF @ = i THEN 0 ELSE @]

ResetOnClose(d, i) ==
    [d EXCEPT !.curS = IF @ = i THEN 0 ELSE @,
              !.curR = IF @ = i THEN 0 ELSE @]

\* The stream is removed from the tree and freed with all that it was to
\* send, postponed frames too.
StreamClean(d, i) ==
    [ResetOnClose(d, i) EXCEPT !.tree = @ \ {i},
                               !.s[i] = NewStream(0)]

(***************************************************************************)
(* tfw_h2_stream_fsm() for a frame of type ty with flags f that is sent or *)
(* received: one operator per state of the stream.  The result is the new  *)
(* connection with res set.                                                *)
(***************************************************************************)
Res(d, r) == [d EXCEPT !.res = r]

Go(d, i, st) == Res(SetState(d, i, st), "OK")

SetCur(d, send, j) == IF send THEN [d EXCEPT !.curS = j] ELSE [d EXCEPT !.curR = j]

\* The frame does not belong to the header block that is open, or there is none.
BadBlock(d, i, ty, send) ==
    LET cur == IF send THEN d.curS ELSE d.curR
    IN \/ cur \notin {0, i}
       \/ cur # 0 /\ ty \notin {"CONT", "RST"}
       \/ cur = 0 /\ ty = "CONT"

IdleFsm(d, i, ty, f, send) ==
    CASE ty = "HEADERS" /\ {"EH", "ES"} \subseteq f -> Go(d, i, "REM_HALF_CLOSED")
      [] ty = "HEADERS" /\ "EH" \in f /\ "ES" \notin f -> Go(d, i, "OPENED")
      [] ty = "HEADERS" /\ "EH" \notin f ->
            [SetCur(Go(d, i, "OPENED"), send, i) EXCEPT
                !.s[i].eosR = @ \/ "ES" \in f]
      [] ty = "PRIORITY" -> Res(d, "OK")
      [] OTHER -> Res(d, "TERM_CONN")

OpenedFsm(d, i, ty, f, send) ==
    CASE ty = "RST" -> Go(d, i, IF send THEN "LOC_CLOSED" ELSE "CLOSED")
      [] ty = "CONT" /\ "EMPTY" \in f /\ "EH" \notin f -> Res(d, "TERM_CONN")
      [] ty = "DATA" /\ "EMPTY" \in f /\ "ES" \notin f -> Res(d, "TERM_CONN")
      [] ty = "CONT" /\ "EH" \in f ->
            SetCur(IF d.s[i].eosR THEN Go(d, i, "REM_HALF_CLOSED")
                   ELSE Res(d, "OK"), send, 0)
      [] ty = "HEADERS" /\ {"EH", "ES"} \subseteq f ->
            [SetCur(Go(d, i, "REM_HALF_CLOSED"), send, 0) EXCEPT !.s[i].eosR = TRUE]
      [] \/ ty = "HEADERS" /\ ~({"EH", "ES"} \subseteq f)
         \/ ty = "CONT" /\ f \cap {"EH", "EMPTY"} = {} ->
            [SetCur(Res(d, "OK"), send, i) EXCEPT
                !.s[i].eosR = @ \/ (ty = "HEADERS" /\ "ES" \in f)]
      [] ty = "DATA" /\ "ES" \in f -> Go(d, i, "REM_HALF_CLOSED")
      [] OTHER -> Res(d, "OK")

RemHalfClosedFsm(d, i, ty, f, send) ==
    CASE ty = "RST" -> Go(d, i, "CLOSED")
      [] ty \in {"PRIORITY", "WINDOW_UPDATE"} -> Res(d, "OK")
      [] ~send /\ ty \notin {"RST", "PRIORITY", "WINDOW_UPDATE"} ->
            Res(SetState(d, i, "CLOSED"), "TERM_STREAM")
      [] send /\ ty = "DATA" -> IF "ES" \in f THEN Go(d, i, "CLOSED")
                               ELSE Res(d, "OK")
      [] send /\ ty \in {"HEADERS", "CONT"} /\ "EH" \in f ->
            SetCur(IF "ES" \in f THEN Go(d, i, "CLOSED") ELSE Res(d, "OK"), send, 0)
      [] send /\ ty \in {"HEADERS", "CONT"} /\ "EH" \notin f ->
            [SetCur(Res(d, "OK"), send, i) EXCEPT !.s[i].eosS = @ \/ "ES" \in f]

LocClosedFsm(d, i, ty, send) ==
    CASE ~send /\ ty = "RST" -> Go(d, i, "CLOSED")
      [] ~send /\ ty = "WINDOW_UPDATE" -> Res(d, "OK")
      [] OTHER -> Res(d, "IGNORE")

ClosedFsm(d, ty, send) ==
    CASE send -> Res(d, "IGNORE")
      [] ~send /\ ty = "PRIORITY" -> Res(d, "OK")
      [] OTHER -> Res(d, "TERM_CONN")

StateFsm(d, i, ty, f, send) ==
    CASE d.s[i].st = "IDLE" -> IdleFsm(d, i, ty, f, send)
      [] d.s[i].st = "OPENED" -> OpenedFsm(d, i, ty, f, send)
      [] d.s[i].st = "REM_HALF_CLOSED" -> RemHalfClosedFsm(d, i, ty, f, send)
      [] d.s[i].st = "LOC_CLOSED" -> LocClosedFsm(d, i, ty, send)
      [] d.s[i].st = "CLOSED" -> ClosedFsm(d, ty, send)

Fsm(d, i, ty, f, send) ==
    LET e == IF BadBlock(d, i, ty, send) THEN Res(d, "TERM_CONN")
             ELSE StateFsm(d, i, ty, f, send)
    IN IF ty = "RST" \/ e.res = "TERM_STREAM" THEN ResetOnClose(e, i) ELSE e

(***************************************************************************)
(* The observer of the wire: blk is the stream whose header block is open, *)
(* cut says that such a block was given up, mixed that a frame was put     *)
(* into another block, conn and view the windows as the client counts      *)
(* them, sets the initial windows of SETTINGS frames without ACK and cinit *)
(* the one that is in force for the client, stale the streams that were    *)
(* idle when the server applied new settings, over says that any other     *)
(* stream exceeded its window, and early that it did so when the server    *)
(* was ahead of its own ACKs.                                              *)
(***************************************************************************)
WireInit == [blk |-> 0, cut |-> FALSE, mixed |-> FALSE, conn |-> DefWnd,
             view |-> [i \in Streams |-> DefWnd], sets |-> <<>>, cinit |-> DefWnd,
             over |-> FALSE, early |-> FALSE, stale |-> {}]

\* init is the initial window of the server.
OnWire(w, i, ty, eh, n, init) ==
    LET exceeds == ty = "DATA" /\ n > w.view[i] /\ i \notin w.stale
    IN [w EXCEPT !.mixed = @ \/ (w.blk # 0 /\ ~(i = w.blk /\ ty = "CONT")),
                 !.blk = IF ty \notin {"HEADERS", "CONT"} THEN @
                         ELSE IF eh THEN 0 ELSE i,
                 !.conn = IF ty = "DATA" THEN @ - n ELSE @,
                 !.view = IF ty = "DATA" THEN [w.view EXCEPT ![i] = @ - n] ELSE @,
                 !.over = @ \/ (exceeds /\ w.cinit = init),
                 !.early = @ \/ (exceeds /\ w.cinit # init)]

\* The block that is open on the wire is not the one that is being sent.
Observe(w, d) == [w EXCEPT !.cut = @ \/ (d.up /\ w.blk \notin {0, d.curS})]

\* Stream i, which connection d does not have, begins for the client.
Begin(w, d, i) ==
    IF NotClosed(d, i) THEN w
    ELSE [w EXCEPT !.view[i] = w.cinit, !.stale = @ \ {i}]

----------------------------------------------------------------------------
(* Flow control.                                                            *)

\* Mutant: a window that opens does not wake the connection.
SetHasDataNever(d, wasReady) == d

SetHasData(d, wasReady) ==
    [d EXCEPT !.has = @ \/ (~wasReady /\ ReadyToSend(d))]

TryUnblock(r) == [r EXCEPT !.blk = @ /\ r.wnd <= 0]

\* tfw_h2_apply_new_settings(), of which only the initial window is here.
ApplySettings(d) ==
    LET Apply(r) ==
            IF r.st \in {"OPENED", "REM_HALF_CLOSED"}
            THEN TryUnblock([r EXCEPT !.wnd = @ + d.new - d.init]) ELSE r
        e == [d EXCEPT !.s = [i \in Streams |-> IF i \in d.tree THEN Apply(d.s[i])
                                                ELSE d.s[i]],
                       !.init = d.new, !.need = FALSE]
    IN IF d.need THEN SetHasData(e, ReadyToSend(d)) ELSE d

\* The client gets k acknowledgements: each is for the oldest SETTINGS frame that
\* has none, and that one is in force now.  The connection d that sends them
\* applies the latest SETTINGS with the first, not to idle streams.
WireSettings(w, d, k) ==
    LET m == IF k < Len(w.sets) THEN k ELSE Len(w.sets)
        v == IF m = 0 THEN w.cinit ELSE w.sets[m]
    IN [w EXCEPT !.view = [i \in Streams |-> w.view[i] + v - w.cinit],
                 !.cinit = v,
                 !.sets = SubSeq(@, m + 1, Len(@)),
                 !.stale = @ \cup {i \in d.tree : d.need /\ d.s[i].st = "IDLE"}]

\* tfw_h2_calc_min_to_send()
MinToSend(d) == Min({MinSend, Max({1, d.init \div 2})})

----------------------------------------------------------------------------
(* Sending.  [d, w, left] is the connection, the wire and what is left of  *)
(* the TCP send window.                                                     *)

\* ss_skb_tcp_entail_list(): the frames of q that fit are entailed, SETTINGS
\* ACK applies the settings it acknowledges; the others remain in the write
\* queue.
EntailList(x, q) ==
    LET n == Min({x.left, Len(q)})
        acks == {k \in 1..n : q[k].ty = "ack"}
        d == IF acks # {} THEN ApplySettings(x.d) ELSE x.d
        w == IF n > 0 THEN OnWire(x.w, 0, "ctl", FALSE, 0, d.init) ELSE x.w
    IN [d |-> [d EXCEPT !.wq = SubSeq(q, n + 1, Len(q))],
        w |-> IF acks # {} THEN WireSettings(w, x.d, Cardinality(acks)) ELSE w,
        left |-> x.left - n]

\* Mutant: what is left in the write queue is forgotten.
SendPostponedOver(x, q) == EntailList(x, q)

\* tfw_h2_stream_send_postponed()
SendPostponed(x, q) ==
    IF x.d.wq = <<>> THEN EntailList(x, q)
    ELSE [x EXCEPT !.d.wq = @ \o q]

\* The xmit state after HTTP2_SEND_FRAMES.
NextXmit(r) ==
    CASE r.h > 0 -> "cont"
      [] r.h = 0 /\ r.b > 0 -> "data"
      [] r.h + r.b = 0 /\ r.t > 0 ->
            IF r.xs \in {"trl", "trlc"} THEN "trlc" ELSE "trl"
      [] OTHER -> "finish"

FrameType(xs) == CASE xs \in {"hdrs", "trl"} -> "HEADERS"
                   [] xs \in {"cont", "trlc"} -> "CONT"
                   [] xs = "data" -> "DATA"

\* tfw_h2_calc_frame_flags() for a stream the frame is already taken from.
FrameFlags(r, ty) ==
    LET trailers == r.xs \in {"trl", "trlc"}
        es == \/ r.b + r.t = 0 /\ ty \in {"HEADERS", "DATA"} /\ ~r.eosS
              \/ r.b = 0 /\ r.t > 0 /\ ty = "HEADERS" /\ trailers
        eh == ty # "DATA" /\ IF trailers THEN r.t = 0 ELSE r.h = 0
    IN (IF es THEN {"ES"} ELSE {}) \cup (IF eh THEN {"EH"} ELSE {})

Take(r, n) == CASE r.xs = "data" -> [r EXCEPT !.b = @ - n, !.wnd = @ - n]
                [] r.xs \in {"hdrs", "cont"} -> [r EXCEPT !.h = @ - n]
                [] OTHER -> [r EXCEPT !.t = @ - n]

\* HTTP2_MAKE_FRAMES_FINISH, and the removal of the stream by
\* tfw_h2_make_frames() if it is exclusive.
Finish(x, i) ==
    LET y == SendPostponed([x EXCEPT !.d.s[i].tail = <<>>], x.d.s[i].tail)
        excl == y.d.tree = {i}
    IN [y EXCEPT !.d = IF excl THEN StreamClean(@, i)
                       ELSE AddClosed([@ EXCEPT !.s[i].xs = "no"], i)]

\* Mutant: postponed frames are sent when the headers end, even if a block of
\* trailers is open.
SendFramesEarly(x, i) ==
    LET r == x.d.s[i]
        y == IF r.h > 0 \/ r.post = <<>> THEN x
             ELSE SendPostponed([x EXCEPT !.d.s[i].post = <<>>], r.post)
        nx == NextXmit(r)
    IN IF nx = "finish" THEN Finish(y, i) ELSE [y EXCEPT !.d.s[i].xs = nx]

\* HTTP2_SEND_FRAMES: the frame is entailed, what was postponed behind the
\* header block follows it.
SendFrames(x, i) ==
    LET r == x.d.s[i]
        y == IF r.h > 0 \/ r.post = <<>> \/ x.d.curS # 0 THEN x
             ELSE SendPostponed([x EXCEPT !.d.s[i].post = <<>>], r.post)
        nx == NextXmit(r)
    IN IF nx = "finish" THEN Finish(y, i) ELSE [y EXCEPT !.d.s[i].xs = nx]

\* tfw_h2_insert_frame_header() for a frame of n units.
InsertFrame(x, i, n) ==
    LET r == Take(x.d.s[i], n)
        ty == FrameType(r.xs)
        f == FrameFlags(r, ty)
        d == [x.d EXCEPT !.s[i] = r,
                         !.wnd = IF ty = "DATA" THEN @ - n ELSE @]
        e == Fsm(d, i, ty, f, TRUE)
    IN CASE e.res = "OK" ->
              SendFrames([d |-> e, left |-> x.left - n,
                          w |-> OnWire(x.w, i, ty, "EH" \in f, n, d.init)], i)
         [] e.res \in {"IGNORE", "TERM_STREAM"} ->
              SendFrames([x EXCEPT !.left = @ - n,
                                   !.d = [e EXCEPT !.s[i].h = 0, !.s[i].b = 0,
                                                   !.s[i].t = 0]], i)
         [] OTHER -> [x EXCEPT !.d = Term(e)]

\* Mutant: the window of the stream is not a limit.
FrameLenConnOnly(x, i) ==
    LET r == x.d.s[i]
        len == IF r.xs = "data" THEN r.b
               ELSE IF r.xs \in {"hdrs", "cont"} THEN r.h ELSE r.t
        n == Min({MaxFrame, len, x.left}
                 \cup (IF r.xs = "data" THEN {x.d.wnd} ELSE {}))
    IN IF n < Min({MinToSend(x.d), len}) THEN 0 ELSE n

\* The frame that tfw_h2_stream_xmit_process() makes next, 0 if it stops.
FrameLen(x, i) ==
    LET r == x.d.s[i]
        len == IF r.xs = "data" THEN r.b
               ELSE IF r.xs \in {"hdrs", "cont"} THEN r.h ELSE r.t
        n == Min({MaxFrame, len, x.left}
                 \cup (IF r.xs = "data" THEN {x.d.wnd, r.wnd} ELSE {}))
    IN IF n < Min({MinToSend(x.d), len}) THEN 0 ELSE n

\* ADJUST_BLOCKED_STREAMS_AND_EXIT: whether the stream that stops is marked
\* as blocked by its own window.
Blocks(x, i) ==
    LET r == x.d.s[i]
    IN /\ r.xs = "data"
       /\ IF x.d.wnd <= 0 \/ r.wnd <= 0 THEN r.wnd <= 0
          ELSE x.left > 0 /\ r.wnd <= Min({MinToSend(x.d), r.b})

----------------------------------------------------------------------------
(* Receiving.                                                               *)

\* What is sent enters the work queue of the socket layer.
Msg(ty, i) == [ty |-> ty, i |-> i]

\* tfw_h2_remove_idle_streams(): idle streams below i are closed, up to the
\* first one of the queue that is not.
RemoveIdle(d, i) ==
    LET n == Below(d.idle, i)
        q == SubSeq(d.idle, 1, n)
    IN [d EXCEPT !.s = [j \in Streams |-> IF Contains(q, j)
                                          THEN [d.s[j] EXCEPT !.st = "CLOSED"]
                                          ELSE d.s[j]],
                 !.idle = SubSeq(@, n + 1, Len(@)),
                 !.closed = @ \o q]

\* tfw_h2_closed_streams_shrink(): the oldest closed streams are freed while
\* there are too many of them, or too many streams.
Shrink(d) ==
    LET n == Min({Len(d.closed),
                  Max({0, Len(d.closed) - MaxClosed,
                       Cardinality(d.tree) - MaxStreams + 1})})
        freed == {d.closed[k] : k \in 1..n}
    IN [d EXCEPT !.s = [j \in Streams |-> IF j \in freed THEN NewStream(0)
                                          ELSE d.s[j]],
                 !.tree = @ \ freed,
                 !.closed = SubSeq(@, n + 1, Len(@)),
                 !.curS = IF @ \in freed THEN 0 ELSE @,
                 !.curR = IF @ \in freed THEN 0 ELSE @]

\* tfw_h2_current_stream_send_rst() without the frame itself.
ToClosed(d, i) == AddClosed(Unlink(d, i), i)

\* The message layer takes a frame of request data.
Request(d, i) ==
    [d EXCEPT !.s[i].req = IF d.s[i].st = "REM_HALF_CLOSED" THEN "full"
                           ELSE "part"]

\* STREAM_RECV_PROCESS and tfw_h2_check_current_stream_is_closed() for a
\* frame with data: the connection and the messages to send.
RecvProcess(d, i, ty, f) ==
    LET e == Fsm(d, i, ty, f, FALSE)
    IN CASE e.res = "TERM_CONN" -> [d |-> Term(e), m |-> <<>>]
         [] e.res = "TERM_STREAM" ->
                [d |-> ToClosed(e, i), m |-> <<Msg("rst", i)>>]
         [] e.res = "IGNORE" -> [d |-> e, m |-> <<>>]
         [] e.res = "OK" ->
                [d |-> IF e.s[i].st = "CLOSED"
                       THEN StreamClean(Unlink(e, i), i)
                       ELSE Request(e, i),
                 m |-> <<>>]

\* An error of the stream that is found after the frame was accepted.
RstStream(d, i) ==
    LET e == Fsm(d, i, "RST", {}, TRUE)
    IN IF e.res # "OK" THEN [d |-> Term(e), m |-> <<>>]
       ELSE [d |-> ToClosed(e, i), m |-> <<Msg("rst", i)>>]

Create(d, i) == [d EXCEPT !.tree = @ \cup {i},
                          !.s[i] = NewStream(d.init)]

\* HEADERS: tfw_h2_frame_type_process() and tfw_h2_headers_process().  self:
\* the stream depends on itself.
Headers(d, i, f, self) ==
    LET known == NotClosed(d, i)
        d1 == RemoveIdle(d, i)
        d2 == IF known THEN d1 ELSE Shrink(d1)
        d3 == [d2 EXCEPT !.last = i]
        d4 == IF ~known THEN Create(d3, i)
              ELSE IF d3.s[i].st = "IDLE" THEN Dequeue(d3, i) ELSE d3
    IN CASE ~known /\ d.last >= i -> [d |-> Term(d), m |-> <<>>]
         [] ~known /\ d.last < i /\ Cardinality(d2.tree) = MaxStreams ->
                [d |-> d2, m |-> <<Msg("rst", i)>>]
         [] OTHER ->
                IF self
                THEN [d |-> IF known THEN ToClosed(d3, i) ELSE d3,
                      m |-> <<Msg("rst", i)>>]
                \* tfw_h2_add_stream() finds a closed stream with this id.
                ELSE IF ~known /\ i \in d3.tree
                THEN [d |-> Term(d3), m |-> <<>>]
                ELSE RecvProcess(d4, i, "HEADERS", f)

\* CONTINUATION and DATA.
Payload(d, i, ty, f) ==
    IF i > d.last \/ ~NotClosed(d, i) THEN [d |-> Term(d), m |-> <<>>]
    ELSE RecvProcess(d, i, ty, f)

Rst(d, i) ==
    IF i > d.last THEN [d |-> Term(d), m |-> <<>>]
    ELSE IF ~NotClosed(d, i) THEN [d |-> d, m |-> <<>>]
    ELSE LET e == Fsm(d, i, "RST", {}, FALSE)
         IN [d |-> IF e.res = "OK" THEN StreamClean(Unlink(e, i), i) ELSE Term(e),
             m |-> <<>>]

\* PRIORITY of a stream under the root, or of one that depends on itself.
Priority(d, i, self) ==
    LET d1 == IF i \in d.tree THEN d ELSE Shrink(d)
        d2 == IF i \in d.tree THEN d1 ELSE AddIdle(Create(d1, i), i)
        e == Fsm(d2, i, "PRIORITY", {}, FALSE)
    IN CASE i \notin d.tree /\ i <= d.last -> [d |-> d, m |-> <<>>]
         [] i \notin d.tree /\ i > d.last
              /\ Cardinality(d1.tree) = MaxStreams ->
                [d |-> Term(d1), m |-> <<>>]
         [] OTHER ->
                CASE e.res = "TERM_CONN" -> [d |-> Term(e), m |-> <<>>]
                  [] e.res # "TERM_CONN" /\ (e.res = "IGNORE" \/ ~self) ->
                        [d |-> e, m |-> <<>>]
                  [] e.res = "OK" /\ self ->
                        IF e.s[i].st = "IDLE" THEN [d |-> Term(e), m |-> <<>>]
                        ELSE RstStream(e, i)

\* WINDOW_UPDATE of the connection (i = 0) or of a stream.
WndUpdate(d, i, n) ==
    IF i > d.last THEN [d |-> Term(d), m |-> <<>>]
    ELSE IF i = 0
    THEN [d |-> IF n = 0 \/ d.wnd + n > MaxWnd THEN Term(d)
                ELSE SetHasData([d EXCEPT !.wnd = @ + n], ReadyToSend(d)),
          m |-> <<>>]
    ELSE IF ~NotClosed(d, i) THEN [d |-> d, m |-> <<>>]
    ELSE LET e == Fsm(d, i, "WINDOW_UPDATE", {}, FALSE)
         IN CASE e.res # "OK" -> [d |-> Term(e), m |-> <<>>]
              [] e.res = "OK" /\ (n = 0 \/ e.s[i].wnd + n > MaxWnd) ->
                    RstStream(e, i)
              [] OTHER ->
                    [d |-> SetHasData([e EXCEPT !.s[i] = TryUnblock([@ EXCEPT !.wnd = e.s[i].wnd + n])],
                                      ReadyToSend(e)),
                     m |-> <<>>]

----------------------------------------------------------------------------
Idle == [on |-> FALSE, cur |-> 0, left |-> 0]

Init ==
    /\ c = NewConn
    /\ out = <<>>
    /\ push = Idle
    /\ recv = 0
    /\ wire = WireInit

\* The socket is not locked by a push.
Unlocked == c.up /\ ~push.on

CanRecv == Unlocked /\ recv < MaxRecv

\* A handler of the receive path has changed the connection.  The header and
\* the payload of a frame, which may come in two segments, are one step.
Receive(x) ==
    /\ recv' = IF x.d.last > c.last THEN recv ELSE recv + 1
    /\ recv' <= MaxRecv
    /\ c' = [x.d EXCEPT !.res = "OK"]
    /\ out' = IF x.d.up THEN out \o x.m ELSE <<>>
    /\ push' = push

\* Nothing is left of an earlier stream i that was freed: no response to it is
\* on its way and it is not linked in the queue of closed streams.  Since
\* HEADERS on an older stream take lstream_id back, an identifier can be used
\* twice; streams that are mixed up by it are not modelled.
NoTrace(i) ==
    /\ \A k \in DOMAIN out : out[k].ty = "resp" => out[k].i # i
    /\ i \in c.tree \/ ~Contains(c.closed, i)

RecvHeaders == \E i \in Streams, f \in SUBSET {"EH", "ES"}, self \in BOOLEAN :
    /\ Unlocked
    /\ recv < MaxRecv \/ i > c.last
    /\ NotClosed(c, i) \/ i <= c.last \/ NoTrace(i)
    /\ Receive(Headers(c, i, f, self))
    /\ wire' = Observe(Begin(wire, c, i), c')

RecvPayload == \E i \in Streams, ty \in {"CONT", "DATA"},
                 f \in SUBSET {"EH", "ES", "EMPTY"} :
    /\ CanRecv
    /\ f \subseteq (IF ty = "CONT" THEN {"EH", "EMPTY"} ELSE {"ES", "EMPTY"})
    /\ Receive(Payload(c, i, ty, f))
    /\ wire' = Observe(wire, c')

RecvRst == \E i \in Streams :
    /\ CanRecv
    /\ Receive(Rst(c, i))
    /\ wire' = Observe(wire, c')

RecvPriority == \E i \in Streams, self \in BOOLEAN :
    /\ CanRecv
    /\ i \in c.tree \/ i <= c.last \/ NoTrace(i)
    /\ Receive(Priority(c, i, self))
    /\ wire' = Observe(Begin(wire, c, i), c')

RecvWndUpdate == \E i \in Streams \cup {0}, n \in WndIncrs :
    /\ CanRecv
    /\ Receive(WndUpdate(c, i, n))
    /\ wire' = Observe(IF i = 0 THEN [wire EXCEPT !.conn = @ + n]
                       ELSE [wire EXCEPT !.view[i] = @ + n], c')

\* SETTINGS with SETTINGS_INITIAL_WINDOW_SIZE: kept until the acknowledgement
\* is put into the socket.
RecvSettings == \E v \in WndSettings :
    /\ CanRecv
    /\ Receive([d |-> [c EXCEPT !.new = v, !.need = TRUE],
                m |-> <<Msg("ack", 0)>>])
    /\ wire' = [wire EXCEPT !.sets = Append(@, v)]

RecvPing ==
    /\ CanRecv
    /\ Receive([d |-> c, m |-> <<Msg("ctl", 0)>>])
    /\ wire' = wire

\* Another CPU has the response: tfw_h2_stream_init_for_xmit() and
\* tfw_h2_req_unlink_stream() under ctx->lock, then the response is sent.
RespInit == \E i \in c.tree, l \in Responses :
    /\ c.up
    /\ c.s[i].req = "full"
    /\ c' = [c EXCEPT !.s[i] = [@ EXCEPT !.req = "no", !.xs = "hdrs",
                !.h = 0, !.b = 0, !.t = 0, !.resp = FALSE, !.blk = FALSE]]
    /\ out' = Append(out, [ty |-> "resp", i |-> i, len |-> l])
    /\ UNCHANGED <<push, recv, wire>>

\* Another CPU gives the request up: tfw_h2_req_unlink_and_close_stream().
CloseReq == \E i \in c.tree :
    /\ c.up
    /\ c.s[i].req = "full"
    /\ c' = AddClosed(SetState([c EXCEPT !.s[i].req = "no"], i, "CLOSED"), i)
    /\ UNCHANGED <<out, push, recv, wire>>

\* The hook of a message decides where it goes.
Deliver(d, m) ==
    LET behind == m.ty = "rst" /\ NotClosed(d, m.i) /\ HasSkb(d.s[m.i])
    IN CASE m.ty = "resp" /\ ~NotClosed(d, m.i) -> d
         [] m.ty = "resp" /\ NotClosed(d, m.i) ->
              [d EXCEPT !.s[m.i] = [@ EXCEPT !.resp = TRUE, !.h = m.len.h,
                                             !.b = m.len.b, !.t = m.len.t],
                        !.has = TRUE]
         [] behind -> [d EXCEPT !.s[m.i].tail = Append(@, m)]
         [] ~behind /\ m.ty # "resp" /\ d.curS # 0 ->
              [d EXCEPT !.s[d.curS].post = Append(@, m)]
         [] OTHER -> [d EXCEPT !.wq = Append(@, m), !.has = TRUE]

\* ss_do_send()
DoSend ==
    /\ Unlocked
    /\ out # <<>>
    /\ out' = Tail(out)
    /\ c' = Deliver(c, Head(out))
    /\ UNCHANGED <<push, recv, wire>>

(***************************************************************************)
(* tfw_connection_fill_sk_write_queue(): frames of the write queue first,  *)
(* then frames of streams as long as the TCP window lasts.                 *)
(***************************************************************************)
EndPush(d) ==
    [d EXCEPT !.has = IF d.wq = <<>> /\ ~ReadyToSend(d) THEN FALSE ELSE @]

Push(n) ==
    /\ Unlocked
    /\ c.has
    /\ LET x == EntailList([d |-> c, w |-> wire, left |-> n], c.wq)
           go == x.left > 0 /\ ActiveStreams(x.d) # {}
       IN /\ c' = IF go THEN x.d ELSE EndPush(x.d)
          /\ wire' = Observe(x.w, c')
          /\ push' = IF go THEN [on |-> TRUE, cur |-> 0, left |-> x.left]
                     ELSE Idle
    /\ UNCHANGED <<out, recv>>

\* The stream that tfw_h2_make_frames() takes.
Chosen == CASE push.cur # 0 -> {push.cur}
            [] push.cur = 0 /\ c.curS # 0 -> {c.curS}
            [] OTHER -> ActiveStreams(c)

\* One frame of a stream, or the end of the push.  The response is released
\* and its headers are encoded before the first frame.
MakeFrame == \E i \in Chosen :
    /\ c.up /\ push.on
    /\ LET x == [d |-> [c EXCEPT !.s[i].resp = FALSE], w |-> wire,
                 left |-> push.left]
           n == FrameLen(x, i)
           y == InsertFrame(x, i, n)
           done == c.s[i].xs # "no" /\ y.d.s[i].xs = "no"
           on == y.d.up /\ (done => ActiveStreams(y.d) # {})
       IN IF n > 0
          THEN /\ c' = [IF on THEN y.d ELSE EndPush(y.d) EXCEPT !.res = "OK"]
               /\ wire' = Observe(y.w, c')
               /\ push' = IF on THEN [on |-> TRUE, cur |-> IF done THEN 0 ELSE i,
                                       left |-> y.left]
                          ELSE Idle
          ELSE /\ c' = EndPush([x.d EXCEPT !.s[i].blk = Blocks(x, i)])
               /\ wire' = wire
               /\ push' = Idle
    /\ UNCHANGED <<out, recv>>

\* Headers cannot be encoded, or there is no memory: the connection is reset.
MakeFrameFails ==
    /\ c.up /\ push.on
    /\ \E i \in Chosen : c.s[i].resp
    /\ c' = Term(c)
    /\ push' = Idle
    /\ UNCHANGED <<out, recv, wire>>

Next ==
    \/ RecvHeaders \/ RecvPayload \/ RecvRst \/ RecvPriority
    \/ RecvWndUpdate \/ RecvSettings \/ RecvPing
    \/ RespInit \/ CloseReq \/ DoSend
    \/ (\E n \in Bursts : Push(n)) \/ MakeFrame \/ MakeFrameFails

Spec == Init /\ [][Next]_vars

----------------------------------------------------------------------------
(***************************************************************************)
(* Properties.                                                             *)
(***************************************************************************)

\* Whenever nobody pushes and there is a frame in the write queue, or a
\* stream that may be sent by its own window and by the one of the
\* connection, the kernel knows that the connection has data: no path that
\* opens a window or queues a frame forgets SOCK_TEMPESTA_HAS_DATA, and no push
\* clears it too early.
NoLostWakeup == Unlocked /\ (ReadyToSend(c) \/ c.wq # <<>>) => c.has

\* Header blocks are contiguous on the wire (RFC 9113 4.3): no frame of
\* another stream and no control frame falls between HEADERS and the last
\* CONTINUATION.  The exception is a connection on which a block was given up
\* because its stream was freed in the middle of it: that block never ends, so
\* for the client every later frame falls into it and nothing is claimed.
BlocksContiguous == wire.mixed => wire.cut

\* DATA never exceeds the window of the connection or of the stream as the
\* client counts them, with SETTINGS in flight that become smaller meanwhile.
\* There are two exceptions for a stream: one that was idle when settings were
\* applied, since its window is not adjusted, and the time when the client has
\* the ACK for SETTINGS other than the latest ones, which were applied with it.
WindowsKept == ~wire.over /\ wire.conn >= 0

\* BUG_ON() in tfw_h2_make_frames(): the stream in the middle of a header
\* block has something to send and is not blocked.
CurSendActive == c.curS # 0 => Active(c.s[c.curS])

\* Settings of the client that are not applied yet have their acknowledgement
\* on its way: in the work queue, in the write queue, or behind the header
\* block that is being sent.  The exception is a connection on which a block
\* was given up because its stream was freed: the acknowledgement may be lost
\* with it, and nothing is claimed about later ones.
AckOnItsWay ==
    c.need /\ ~wire.cut =>
        Msg("ack", 0) \in ToSet(out) \cup ToSet(c.wq) \cup
                          (IF c.curS = 0 THEN {} ELSE ToSet(c.s[c.curS].post))

\* lstream_id is the last stream that the client initiated, so it never
\* decreases: the checks for frames on streams that are not opened yet rely
\* on it.
LastStreamGrows == [][c'.up => c'.last >= c.last]_vars

\* An identifier is not free for a new stream as long as something is left of
\* an earlier stream that had it.
IdentifiersFresh ==
    \A i \in Streams : c.up /\ ~NotClosed(c, i) /\ i > c.last => NoTrace(i)

\* The server does not run ahead of its own acknowledgements: no DATA exceeds
\* the window of the client before the ACK for the settings that are applied.
NotEarly == ~wire.early

\* A comment on tfw_h2_remove_idle_streams(): the first use of a stream closes
\* all idle streams with lower identifiers.
OlderIdleClosed == \A i \in c.tree : c.s[i].st = "IDLE" => i >= c.last

----------------------------------------------------------------------------
(***************************************************************************)
(* The inductive invariant behind the safety properties.                   *)
(***************************************************************************)
States == {"IDLE", "OPENED", "REM_HALF_CLOSED", "LOC_CLOSED", "CLOSED"}
Live   == {"IDLE", "OPENED", "REM_HALF_CLOSED"}

CtlType  == [ty : {"ack", "ctl", "rst"}, i : Streams \cup {0}]
RespType == [ty : {"resp"}, i : Streams, len : Responses]

StreamType ==
    [st : States, eosS : BOOLEAN, eosR : BOOLEAN, wnd : Int,
     req : {"no", "part", "full"}, resp : BOOLEAN,
     xs : {"no", "hdrs", "cont", "data", "trl", "trlc"},
     h : Nat, b : Nat, t : Nat, blk : BOOLEAN,
     tail : Seq(CtlType), post : Seq(CtlType)]

ConnType ==
    [s : [Streams -> StreamType], tree : SUBSET Streams,
     closed : Seq(Streams), idle : Seq(Streams),
     last : Streams \cup {0}, curS : Streams \cup {0}, curR : Streams \cup {0},
     wnd : Nat, init : Nat, new : Nat, need : BOOLEAN,
     has : BOOLEAN, wq : Seq(CtlType), up : BOOLEAN,
     res : {"OK", "IGNORE", "TERM_STREAM", "TERM_CONN"}]

WireType ==
    [blk : Streams \cup {0}, cut : BOOLEAN, mixed : BOOLEAN, conn : Int,
     view : [Streams -> Int], sets : Seq(Nat), cinit : Nat,
     over : BOOLEAN, early : BOOLEAN, stale : SUBSET Streams]

TypeOK ==
    /\ c \in ConnType /\ c.res = "OK"
    /\ out \in Seq(CtlType \cup RespType)
    /\ push \in [on : BOOLEAN, cur : Streams \cup {0}, left : Nat]
    /\ recv \in Nat
    /\ wire \in WireType

\* What a stream has to send in each state of its transmission, and that only
\* a request that is complete is answered.
Transmits(r) ==
    /\ r.xs = "no" => ~HasSkb(r)
    /\ r.xs = "hdrs" /\ r.h = 0 => ~HasSkb(r)
    /\ r.xs = "cont" => r.h > 0
    /\ r.xs = "data" => r.h = 0 /\ r.b > 0
    /\ r.xs \in {"trl", "trlc"} => r.h = 0 /\ r.b = 0 /\ r.t > 0
    /\ r.blk => r.xs = "data"
    /\ r.req # "no" => r.xs = "no"
    /\ r.st \in {"IDLE", "OPENED"} => r.xs = "no" /\ r.req # "full"

\* The stream in the middle of a header block.  Frames that are made meanwhile
\* are postponed, so the write queue is empty.
CurInv(d) ==
    d.curS # 0 => /\ d.curS \in d.tree
                  /\ d.s[d.curS].st = "REM_HALF_CLOSED"
                  /\ d.s[d.curS].xs \in {"cont", "trlc"}
                  /\ d.wq = <<>>

\* The queues of streams: no stream is queued twice.
IdleInv(d) ==
    /\ \A k \in DOMAIN d.idle : d.idle[k] \in d.tree /\ d.s[d.idle[k]].st = "IDLE"
    /\ \A k, l \in DOMAIN d.idle : d.idle[k] = d.idle[l] => k = l
    /\ \A k, l \in DOMAIN d.closed : d.closed[k] = d.closed[l] => k = l
    /\ \A k \in DOMAIN d.closed, l \in DOMAIN d.idle : d.closed[k] # d.idle[l]

\* A response is sent once, and its stream waits for it or is gone.
Waits(r) == r.xs = "hdrs" /\ r.h = 0

OutInv(d, o) ==
    \A k \in DOMAIN o : o[k].ty = "resp" =>
        /\ o[k].i \in d.tree => Waits(d.s[o[k].i])
        /\ \A l \in DOMAIN o : o[l].ty = "resp" /\ o[l].i = o[k].i => l = k

\* Windows are what the client takes them for, but for the settings that were
\* applied and whose ACK it has not got; the one of the connection may be
\* smaller, since a frame that is dropped with its stream is charged to it.
WinInv(d, w) ==
    /\ w.conn >= d.wnd
    /\ \A i \in d.tree \ w.stale :
          d.s[i].st \in Live => w.view[i] = d.s[i].wnd + w.cinit - d.init

\* The block that is open on the wire is the one that is being sent, or it was
\* given up in this step.
BlockInv(d, w) == ~w.cut => d.curS \in {0, w.blk}

AckInv(d, w, o) ==
    d.need /\ ~w.cut /\ d.curS = w.blk =>
        Msg("ack", 0) \in ToSet(o) \cup ToSet(d.wq) \cup
                          (IF d.curS = 0 THEN {} ELSE ToSet(d.s[d.curS].post))

Core(d, w, o) ==
    /\ \A i \in Streams : Transmits(d.s[i])
    /\ CurInv(d) /\ IdleInv(d) /\ OutInv(d, o)
    /\ WinInv(d, w) /\ BlockInv(d, w) /\ AckInv(d, w, o)

\* The push in progress, and who is to know that there is something to send.
PushInv(d, p) ==
    /\ p.on => /\ d.has
               /\ p.left > 0 => d.wq = <<>>
               /\ p.cur # 0 => p.cur \in d.tree /\ ~d.s[p.cur].blk
    /\ ~p.on /\ (ReadyToSend(d) \/ d.wq # <<>>) => d.has

IInv ==
    /\ TypeOK /\ WindowsKept /\ BlocksContiguous
    /\ c.up => /\ Core(c, wire, out) /\ PushInv(c, push)
               /\ ~wire.cut => wire.blk = c.curS
    /\ ~c.up => c.curS = 0 /\ ~c.need
=============================================================================
