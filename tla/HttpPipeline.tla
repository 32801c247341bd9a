---------------------------- MODULE HttpPipeline ----------------------------
(***************************************************************************)
(* The pipeline of a client connection (fw/http.c): requests enter         *)
(* seq_queue in the order they are received, are answered by any CPU in    *)
(* any order, and the responses must reach the client in the order of the  *)
(* requests.  Modelled are tfw_http_resp_fwd() with its two locks, the     *)
(* errors of request and response processing, Expect: 100-continue, the    *)
(* drop of the connection, and the work queue of fw/sock.c between         *)
(* ss_send() or ss_close() and the socket.                                 *)
(*                                                                         *)
(* A section under seq_qlock is one step.  ret_qlock is taken inside of    *)
(* such a section and kept: sender is its owner.  The receiving code and   *)
(* the works of the socket run under the socket lock: rx is the point of a *)
(* receiving handler between its sections.  The work queue is the FIFO of  *)
(* WorkQueue with the turnstile of SsTx, taken step by work.               *)
(***************************************************************************)
EXTENDS Integers, Sequences, FiniteSets

CONSTANTS
    NReqs,      \* how many requests the client sends
    Expect,     \* the ones with a body and Expect: 100-continue
    QSize,      \* size of the ring of works
    MinBudget,  \* lower bound of works per softirq run (10 in the code)
    LongMax     \* LONG_MAX

Reqs == 1..NReqs

ASSUME ReqsAssumption == NReqs \in Nat /\ Expect \subseteq Reqs
ASSUME SizeAssumption == QSize \in Nat \ {0} /\ MinBudget \in Nat \ {0}
ASSUME MaxAssumption  == LongMax \in Nat

VARIABLES
    st,         \* where a request is
    next, rx,   \* the request to be received, the point of its handler
    seq_queue,  \* requests in the order of the client
    ready,      \* TFW_HTTP_B_REQ_RESP_READY
    contq,      \* TFW_HTTP_B_CONTINUE_QUEUED
    pair,       \* the response paired with a request
    drop,       \* TFW_HTTP_B_REQ_DROP
    connclose,  \* TFW_HTTP_B_CONN_CLOSE
    stop, fin,  \* Conn_Stop, and FIN of the client: nothing more is received
    sender, ret_queue,            \* owner of ret_qlock (or 0), its list
    sock,                         \* the socket and the connection
    ring, tail, backlog, turn,    \* works and SsCloseBacklog
    budget, ticket,               \* locals of ss_tx_action(); budget -1: idle
    wire,                         \* what the client got
    bug                           \* the assertion of the code that failed

reqvars == <<st, seq_queue, ready, contq, pair, drop, connclose>>
rxvars  == <<next, rx, stop, fin>>
retvars == <<sender, ret_queue>>
wqvars  == <<ring, tail, backlog, turn>>
txvars  == <<budget, ticket, wire>>
vars == <<reqvars, rxvars, retvars, sock, wqvars, txvars, bug>>

ReqStates == {"new", "headers", "body", "work", "fwd", "clean", "done"}
Partial == {"headers", "body"}      \* being received
RxPoints == {"idle", "continue", "delete", "process", "bad"}
Socks == {"open", "shut", "closing", "dropped"}
Asserts == {"none", "already_queued", "freed_listed", "interim_gone", "seq_list",
            "no_resp"}
CloseWork == [r |-> 0, kind |-> "close", last |-> FALSE]
SendWorks == [r : Reqs, kind : {"final", "continue"}, last : BOOLEAN]

Elems(s) == {s[i] : i \in DOMAIN s}

\* list_del() of a request that is in at most one place of the list.
Without(s, r) ==
    IF r \notin Elems(s) THEN s
    ELSE LET i == CHOOSE k \in DOMAIN s : s[k] = r
         IN  SubSeq(s, 1, i - 1) \o SubSeq(s, i + 1, Len(s))

Init ==
    /\ st = [r \in Reqs |-> "new"]
    /\ next = 1 /\ rx = "idle" /\ stop = FALSE /\ fin = FALSE
    /\ seq_queue = <<>> /\ ready = {} /\ contq = {} /\ drop = {}
    /\ connclose = {} /\ pair = [r \in Reqs |-> "none"]
    /\ sender = 0 /\ ret_queue = <<>>
    /\ sock = "open"
    /\ ring = <<>> /\ tail = 0 /\ backlog = <<>> /\ turn = LongMax
    /\ budget = -1 /\ ticket = 0 /\ wire = <<>>
    /\ bug = "none"

-----------------------------------------------------------------------------
(***************************************************************************)
(* ss_send() and ss_close(), and what a request loses when it is freed.    *)
(***************************************************************************)
\* ss_send() succeeds: the socket is active and the ring has room.
MaySend == sock = "open" /\ Len(ring) < QSize

Send(r) ==
    /\ ring' = Append(ring, [r |-> r, kind |-> pair[r],
                             last |-> pair[r] = "final" /\ r \in connclose])
    /\ UNCHANGED <<tail, backlog, turn>>

\* ss_close() with SS_F_SYNC, with ss_turnstile_push() if the ring is full;
\* a dropped connection has no socket any more.
Close ==
    LET head == tail + Len(ring) IN
    /\ ring' = IF sock # "dropped" /\ Len(ring) < QSize
               THEN Append(ring, CloseWork) ELSE ring
    /\ backlog' = IF sock # "dropped" /\ Len(ring) = QSize
                  THEN Append(backlog, head) ELSE backlog
    /\ turn' = IF sock # "dropped" /\ Len(ring) = QSize /\ turn > head
               THEN head ELSE turn
    /\ UNCHANGED tail

\* Requests of R are freed with their fields.
Freed(R) ==
    /\ st' = [r \in Reqs |-> IF r \in R THEN "done" ELSE st[r]]
    /\ pair' = [r \in Reqs |-> IF r \in R THEN "none" ELSE pair[r]]
    /\ ready' = ready \ R /\ contq' = contq \ R /\ drop' = drop \ R
    /\ connclose' = connclose \ R

-----------------------------------------------------------------------------
(***************************************************************************)
(* Receiving requests.                                                     *)
(***************************************************************************)
Receiving == rx = "idle" /\ ~stop /\ ~fin /\ sock = "open" /\ next \in Reqs

\* tfw_http_req_add_seq_queue() of tfw_h1_req_process(), or the same done by
\* tfw_h1_error_resp() for a request that is answered with an error.  After
\* a request with close set nothing is received.
Enqueue(r, close) ==
    /\ seq_queue' = Append(seq_queue, r)
    /\ st' = [st EXCEPT ![r] = "work"]
    /\ connclose' = IF close THEN connclose \cup {r} ELSE connclose
    /\ stop' = (stop \/ close)
    /\ next' = next + 1

\* A whole request, good or bad.
Recv(close) ==
    /\ Receiving /\ st[next] = "new" /\ next \notin Expect
    /\ Enqueue(next, close)
    /\ UNCHANGED <<ready, contq, pair, drop, rx, fin, retvars, sock, wqvars,
                   txvars, bug>>

\* tfw_http_cli_error_resp_and_log() of a request whose body turns out to be
\* bad: the paired response is freed, before any lock is taken, ...
RecvBad ==
    /\ Receiving /\ st[next] = "headers"
    /\ pair' = [pair EXCEPT ![next] = "none"]
    /\ rx' = "bad"
    /\ UNCHANGED <<st, seq_queue, ready, contq, drop, connclose, next, stop, fin,
                   retvars, sock, wqvars, txvars, bug>>

\* ... then tfw_h1_error_resp() queues the request for an error response.  The
\* WARN_ONCE changes nothing: a request that is in a list is linked again, and
\* neither list is one any more.
RecvBadQueue ==
    /\ rx = "bad" /\ rx' = "idle"
    /\ Enqueue(next, TRUE)
    /\ bug' = IF next \in Elems(seq_queue) \cup Elems(ret_queue)
              THEN "already_queued" ELSE bug
    /\ UNCHANGED <<ready, contq, pair, drop, fin, retvars, sock, wqvars, txvars>>

\* A request that is blocked without a reply, tfw_http_conn_req_clean(): it
\* leaves whatever list it is in, and the connection is closed.  The sender has
\* taken the addresses of the first two entries of its list.
RecvBlock ==
    /\ rx \in {"process", "bad"} \/ (Receiving /\ st[next] = "new")
    /\ seq_queue' = Without(seq_queue, next)
    /\ ret_queue' = Without(ret_queue, next)
    /\ bug' = IF next \in {ret_queue[i] : i \in DOMAIN ret_queue \cap {1, 2}}
              THEN "freed_listed" ELSE bug
    /\ Freed({next}) /\ stop' = TRUE /\ next' = next + 1
    /\ Close /\ rx' = "idle"
    /\ UNCHANGED <<fin, sender, sock, txvars>>

\* tfw_http_send_continuation(): the response waits for the ones before it,
\* or is sent at once, outside of the lock, if seq_queue is empty.
RecvHeaders ==
    LET r == next IN
    /\ Receiving /\ st[r] = "new" /\ r \in Expect
    /\ st' = [st EXCEPT ![r] = "headers"]
    /\ pair' = [pair EXCEPT ![r] = "continue"]
    /\ IF seq_queue = <<>>
       THEN rx' = "continue" /\ UNCHANGED <<seq_queue, ready, contq>>
       ELSE /\ seq_queue' = Append(seq_queue, r)
            /\ ready' = ready \cup {r} /\ contq' = contq \cup {r}
            /\ UNCHANGED rx
    /\ UNCHANGED <<drop, connclose, next, stop, fin, retvars, sock, wqvars, txvars,
                   bug>>

SendContinue ==
    /\ rx = "continue" /\ rx' = "idle"
    /\ pair' = [pair EXCEPT ![next] = "none"]
    /\ IF MaySend THEN Send(next) /\ UNCHANGED stop
                  ELSE Close /\ stop' = TRUE
    /\ UNCHANGED <<st, seq_queue, ready, contq, drop, connclose, next, fin, retvars,
                   sock, txvars, bug>>

\* Mutant: TFW_HTTP_B_REQ_RESP_READY outlives the interim response.
RecvBodyKeepsReady ==
    LET r == next IN
    /\ Receiving /\ st[r] = "headers"
    /\ st' = [st EXCEPT ![r] = "body"]
    /\ contq' = contq \ {r}
    /\ seq_queue' = Without(seq_queue, r)
    /\ pair' = IF r \in Elems(seq_queue) THEN [pair EXCEPT ![r] = "none"] ELSE pair
    /\ rx' = IF r \in contq \ Elems(seq_queue) THEN "delete" ELSE "process"
    /\ UNCHANGED <<ready, drop, connclose, next, stop, fin, retvars, sock, wqvars,
                   txvars, bug>>

\* The body is complete, tfw_http_del_continuation_seq_queue(): a queued
\* interim response is not needed any more.  If it is not in seq_queue, it
\* is being sent, and the handler waits for ret_qlock.
RecvBody ==
    LET r == next IN
    /\ Receiving /\ st[r] = "headers"
    /\ st' = [st EXCEPT ![r] = "body"]
    /\ contq' = contq \ {r}
    /\ ready' = ready \ {r}
    /\ seq_queue' = Without(seq_queue, r)
    /\ pair' = IF r \in Elems(seq_queue) THEN [pair EXCEPT ![r] = "none"] ELSE pair
    /\ rx' = IF r \in contq \ Elems(seq_queue) THEN "delete" ELSE "process"
    /\ UNCHANGED <<drop, connclose, next, stop, fin, retvars, sock, wqvars, txvars,
                   bug>>

Deleted ==
    /\ rx = "delete" /\ sender = 0
    /\ rx' = "process"
    /\ UNCHANGED <<reqvars, next, stop, fin, retvars, sock, wqvars, txvars, bug>>

\* The rest of tfw_http_req_process() for such a request.
RecvEnd(close) ==
    /\ rx = "process" /\ rx' = "idle"
    /\ Enqueue(next, close)
    /\ UNCHANGED <<ready, contq, pair, drop, fin, retvars, sock, wqvars, txvars,
                   bug>>

-----------------------------------------------------------------------------
(***************************************************************************)
(* Responses.                                                              *)
(***************************************************************************)
\* Mutant: the neighbours of the first response are not looked at.
ReadyPartFirst(s, R) == IF s # <<>> /\ s[1] \in R THEN <<s[1]>> ELSE <<>>

\* The longest prefix of s with responses.
ReadyPart(s, R) ==
    LET n == CHOOSE k \in 0..Len(s) :
               /\ \A i \in 1..k : s[i] \in R
               /\ k < Len(s) => s[k + 1] \notin R
    IN SubSeq(s, 1, n)

\* tfw_h1_resp_adjust_fwd() of a request with REQ_DROP: the client is gone.
RespDropped(r) ==
    /\ st[r] = "work" /\ r \in drop
    /\ Freed({r})
    /\ UNCHANGED <<seq_queue, rxvars, retvars, sock, wqvars, txvars, bug>>

\* tfw_http_resp_fwd() that finds an empty queue.
RespNoClient(r) ==
    /\ st[r] = "work" /\ seq_queue = <<>>
    /\ Freed({r}) /\ Close
    /\ bug' = IF r \in Elems(ret_queue) THEN "seq_list" ELSE bug
    /\ UNCHANGED <<seq_queue, rxvars, retvars, sock, txvars>>

\* tfw_http_resp_fwd(): the response is ready; it and its neighbours are cut
\* off the queue under seq_qlock, and ret_qlock is taken before that lock is
\* released.  An error response may ask for closing, tfw_h1_error_resp().
RespFwd(r, close) ==
    LET cut == ReadyPart(seq_queue, ready \cup {r}) IN
    /\ st[r] = "work" /\ seq_queue # <<>>
    /\ cut # <<>> => sender = 0
    /\ st' = [st EXCEPT ![r] = "fwd"]
    /\ pair' = [pair EXCEPT ![r] = "final"]
    /\ ready' = ready \cup {r}
    /\ connclose' = IF close THEN connclose \cup {r} ELSE connclose
    /\ stop' = (stop \/ close)
    /\ IF r \in Elems(seq_queue)
       THEN /\ seq_queue' = SubSeq(seq_queue, Len(cut) + 1, Len(seq_queue))
            /\ ret_queue' = IF cut = <<>> THEN ret_queue ELSE cut
            /\ sender' = IF cut = <<>> THEN sender ELSE r
            /\ UNCHANGED bug
       ELSE bug' = "seq_list" /\ UNCHANGED <<seq_queue, retvars>>
    /\ UNCHANGED <<contq, drop, next, rx, fin, sock, wqvars, txvars>>

\* BUG_ON(!req->resp) for the requests R: one that is refused while it is
\* received is told apart, see RecvBad.
Unpaired(R) ==
    LET bare == {r \in R : pair[r] = "none"} IN
    IF bare = {} THEN bug
    ELSE IF \A r \in bare : st[r] = "headers" THEN "interim_gone" ELSE "no_resp"

\* __tfw_http_resp_fwd() sends the next response of the list; a request that
\* got its interim response only goes on.
SendNext ==
    LET r == ret_queue[1] IN
    /\ sender # 0 /\ ret_queue # <<>> /\ pair[r] # "none" /\ MaySend
    /\ Send(r)
    /\ ret_queue' = Tail(ret_queue)
    /\ IF pair[r] = "continue"
       THEN pair' = [pair EXCEPT ![r] = "none"]
            /\ UNCHANGED <<st, ready, contq, drop, connclose>>
       ELSE Freed({r})
    /\ UNCHANGED <<seq_queue, rxvars, sender, sock, txvars, bug>>

\* It fails: the connection is closed, and the rest of the list is zapped.
SendFailed ==
    LET all  == Elems(ret_queue)
        gone == {r \in all : pair[r] # "continue"}
    IN /\ sender # 0 /\ ret_queue # <<>> /\ pair[ret_queue[1]] # "none" /\ ~MaySend
       /\ Close
       /\ ret_queue' = <<>>
       /\ st' = [r \in Reqs |-> IF r \in gone THEN "done" ELSE st[r]]
       /\ pair' = [r \in Reqs |-> IF r \in all THEN "none" ELSE pair[r]]
       /\ ready' = ready \ gone /\ contq' = contq \ gone
       /\ connclose' = connclose \ gone
       /\ bug' = Unpaired(all)
       /\ UNCHANGED <<seq_queue, drop, rxvars, sender, sock, txvars>>

\* The assertion fails for the next request of the list.
SendBug ==
    /\ sender # 0 /\ ret_queue # <<>> /\ pair[ret_queue[1]] = "none"
    /\ bug' = Unpaired({ret_queue[1]})
    /\ UNCHANGED <<reqvars, rxvars, retvars, sock, wqvars, txvars>>

SendEnd ==
    /\ sender # 0 /\ ret_queue = <<>>
    /\ sender' = 0
    /\ UNCHANGED <<reqvars, rxvars, ret_queue, sock, wqvars, txvars, bug>>

\* Mutant: the hole is removed and the connection stays.
RespBuildErrorSilent(r) ==
    /\ st[r] = "work"
    /\ st' = [st EXCEPT ![r] = "clean"]
    /\ UNCHANGED <<seq_queue, ready, contq, pair, drop, connclose, rxvars, retvars,
                   sock, wqvars, txvars, bug>>

\* tfw_http_resp_build_error(): no response can be built.  The connection is
\* closed first, then the request leaves seq_queue.
RespBuildError(r) ==
    /\ st[r] = "work"
    /\ st' = [st EXCEPT ![r] = "clean"]
    /\ Close
    /\ UNCHANGED <<seq_queue, ready, contq, pair, drop, connclose, rxvars, retvars,
                   sock, txvars, bug>>
ReqClean(r) ==
    /\ st[r] = "clean"
    /\ seq_queue' = Without(seq_queue, r)
    /\ Freed({r})
    /\ UNCHANGED <<rxvars, retvars, sock, wqvars, txvars, bug>>

-----------------------------------------------------------------------------
(***************************************************************************)
(* The socket: ss_tx_action(), and the client closing the connection.      *)
(***************************************************************************)
\* tfw_http_conn_drop(): requests with a complete response are freed, the
\* others are left to whoever answers them, and so is the request that was
\* being received.
ConnDrop ==
    LET half == {r \in Reqs : st[r] \in Partial} IN
    /\ sock' = "dropped"
    /\ seq_queue' = <<>>
    /\ bug' = IF half \cap Elems(ret_queue) # {} THEN "freed_listed" ELSE bug
    /\ LET gone == half \cup (Elems(seq_queue) \cap ready) IN
       /\ st' = [r \in Reqs |-> IF r \in gone THEN "done" ELSE st[r]]
       /\ pair' = [r \in Reqs |-> IF r \in gone THEN "none" ELSE pair[r]]
       /\ ready' = ready \ gone /\ contq' = contq \ gone
       /\ connclose' = connclose \ gone
       /\ drop' = drop \cup (Elems(seq_queue) \ gone)

\* The client resets the connection, or finishes the closing of it.
PeerClosed ==
    /\ rx = "idle" /\ sock # "dropped"
    /\ ConnDrop
    /\ UNCHANGED <<rxvars, retvars, wqvars, txvars>>

\* FIN of the client, ss_tcp_state_change(): ss_close() goes through the queue.
PeerFin ==
    /\ rx = "idle" /\ sock \in {"open", "shut"} /\ ~fin
    /\ fin' = TRUE
    /\ Close
    /\ UNCHANGED <<reqvars, next, rx, stop, retvars, sock, txvars, bug>>

\* A work is executed under the socket lock.  Works for a socket that is
\* closed or shut down are dropped; after the last response the socket is
\* shut down.
Exec(w) ==
    IF sock # "open" THEN UNCHANGED <<reqvars, sock, wire, bug>>
    ELSE IF w.kind = "close"
    THEN /\ \/ sock' = "closing" /\ UNCHANGED <<reqvars, bug>>
            \/ ConnDrop
         /\ UNCHANGED wire
    ELSE /\ wire' = Append(wire, w)
         /\ sock' = IF w.last THEN "shut" ELSE sock
         /\ UNCHANGED <<reqvars, bug>>

TxStart ==
    /\ budget = -1 /\ Len(ring) + Len(backlog) > 0
    /\ budget' = IF Len(ring) + Len(backlog) > MinBudget
                 THEN Len(ring) + Len(backlog) ELSE MinBudget
    /\ ticket' = 0
    /\ UNCHANGED <<reqvars, rxvars, retvars, sock, wqvars, wire, bug>>

\* ss_wq_pop(): the ring first while the ticket is 0, then whose turn it is.
FromBacklog ==
    /\ backlog # <<>>
    /\ ticket # 0 \/ ring = <<>>
    /\ (IF ticket = 0 THEN tail ELSE ticket) + 1 >= turn

TxRing ==
    /\ budget > 0 /\ ~FromBacklog /\ ring # <<>> /\ rx = "idle"
    /\ Exec(Head(ring))
    /\ ring' = Tail(ring) /\ tail' = tail + 1 /\ ticket' = tail
    /\ budget' = budget - 1
    /\ UNCHANGED <<rxvars, retvars, backlog, turn>>

TxBacklog ==
    /\ budget > 0 /\ FromBacklog /\ rx = "idle"
    /\ Exec(CloseWork)
    /\ backlog' = Tail(backlog)
    /\ turn' = IF Len(backlog) = 1 THEN LongMax ELSE backlog[2]
    /\ ticket' = IF ticket = 0 THEN tail ELSE ticket
    /\ budget' = budget - 1
    /\ UNCHANGED <<rxvars, retvars, ring, tail>>

TxEnd ==
    /\ budget = 0 \/ (budget > 0 /\ ring = <<>> /\ ~FromBacklog)
    /\ budget' = -1 /\ ticket' = 0
    /\ UNCHANGED <<reqvars, rxvars, retvars, sock, wqvars, wire, bug>>

-----------------------------------------------------------------------------
\* A failed assertion ends the behaviour: the lists are not lists any more.
Halt == bug # "none" /\ UNCHANGED vars

Rx == \/ \E close \in BOOLEAN : Recv(close)
      \/ RecvBlock \/ RecvHeaders \/ RecvBody \/ RecvBad
      \/ PeerFin \/ PeerClosed
RxGoesOn == \/ SendContinue \/ Deleted \/ RecvBadQueue
            \/ \E close \in BOOLEAN : RecvEnd(close)
Resp(r) == RespDropped(r) \/ RespNoClient(r) \/ RespBuildError(r)
           \/ ReqClean(r) \/ \E close \in BOOLEAN : RespFwd(r, close)
Sender == SendNext \/ SendFailed \/ SendBug \/ SendEnd
Tx == TxStart \/ TxRing \/ TxBacklog \/ TxEnd

Next ==
    \/ bug = "none" /\ (Rx \/ RxGoesOn \/ (\E r \in Reqs : Resp(r)) \/ Sender \/ Tx)
    \/ Halt

Spec == Init /\ [][Next]_vars

\* Softirqs run, a CPU that holds ret_qlock goes on, a handler that was begun
\* goes on, a request that is being worked on gets some answer, and TCP takes
\* the closing of a socket to its end, by its timers if not by the peer.
\* Halt is not one of these steps: liveness is about behaviours in which no
\* assertion fails.
FairSpec ==
    /\ Spec
    /\ WF_vars(Sender) /\ WF_vars(Tx) /\ WF_vars(RxGoesOn)
    /\ \A r \in Reqs : SF_vars(Resp(r))
    /\ []<>(sock \notin {"shut", "closing"})

-----------------------------------------------------------------------------
\* Every variable has its type, and the ring never holds more than QSize works.
TypeOK ==
    /\ st \in [Reqs -> ReqStates] /\ next \in 1..(NReqs + 1) /\ rx \in RxPoints
    /\ seq_queue \in Seq(Reqs) /\ ret_queue \in Seq(Reqs)
    /\ ready \subseteq Reqs /\ contq \subseteq Expect /\ drop \subseteq Reqs
    /\ connclose \subseteq Reqs /\ stop \in BOOLEAN /\ fin \in BOOLEAN
    /\ pair \in [Reqs -> {"none", "continue", "final"}]
    /\ sender \in 0..NReqs /\ sock \in Socks
    /\ ring \in Seq(SendWorks \cup {CloseWork}) /\ Len(ring) <= QSize
    /\ tail \in Nat /\ backlog \in Seq(Nat)
    /\ turn \in Nat
    /\ budget \in Int /\ ticket \in Nat /\ wire \in Seq(SendWorks)
    /\ bug \in Asserts

\* The client gets the responses in the order of its requests and without a
\* gap: before a response come the responses to the requests before it, once
\* each and no others, whatever CPUs answer and whatever fails.
ResponsesInOrder ==
    \A p \in DOMAIN wire : wire[p].kind = "final" =>
        \A r \in Reqs :
            r < wire[p].r <=> \E q \in 1..(p - 1) : wire[q].kind = "final" /\ wire[q].r = r

\* The comment of tfw_http_send_continuation(): an interim response waits
\* for the responses to the requests before it.  The code does not satisfy it,
\* see README.md.
InterimInOrder ==
    \A i \in DOMAIN wire :
        wire[i].kind = "continue" =>
            \A r \in 1..(wire[i].r - 1) :
                \E j \in 1..(i - 1) : wire[j].kind = "final" /\ wire[j].r = r

\* The WARN_ONCE of tfw_h1_error_resp(): a request that is queued for an
\* error response is in no queue yet.  The code does not satisfy it, see
\* README.md.
NotQueuedTwice == bug # "already_queued"

\* The WARN_ON_ONCE of tfw_http_req_destruct(): a request that is freed is
\* in no list, and no sender is about to look at it.  The code does not satisfy
\* it, see README.md.
FreedUnlinked == bug # "freed_listed"

\* BUG_ON(!req->resp) of tfw_http_resp_fwd() and __tfw_http_resp_fwd() for a
\* request whose body is malformed while its interim response is queued.  The
\* code does not satisfy it, see README.md.
InterimKept == bug # "interim_gone"

\* The BUG_ONs of tfw_http_resp_fwd() and __tfw_http_resp_fwd(): a request that
\* is answered is in seq_queue unless that is empty, and a request that was cut
\* off it has its response, final or interim, whoever else answers, blocks or
\* drops requests.  Excepted is the request that RecvBad has just taken the
\* interim response from, InterimKept.
OtherAssertionsHold == bug \notin {"seq_list", "no_resp"}

\* Every request that got into the pipeline leaves it, whatever responses
\* come before it, whatever fails, and even if the client goes away.
RequestEnds == \A r \in Reqs : st[r] \in {"work", "fwd", "clean"} ~> st[r] = "done"

-----------------------------------------------------------------------------
(***************************************************************************)
(* The inductive invariant behind OtherAssertionsHold and the order of     *)
(* responses.  What is missing on the wire is a second one, GapInv: it is  *)
(* kept as long as no close overflows into the backlog.                    *)
(***************************************************************************)
\* Requests are received one after the other.
Received(r) ==
    /\ r < next => st[r] \in {"work", "fwd", "clean", "done"}
    /\ r = next => st[r] \in {"new", "headers", "body", "done"}
    /\ r > next => st[r] = "new"

\* In seq_queue are requests that wait for their responses, and the one in
\* receipt if its interim response waits there.
InSeq(r) ==
    r \in Elems(seq_queue) =>
        \/ r < next /\ st[r] \in {"work", "fwd", "clean"}
        \/ r = next /\ st[r] = "headers" /\ r \in contq
                    /\ \/ rx = "idle" /\ pair[r] = "continue"
                       \/ rx = "bad" /\ pair[r] = "none"

\* In ret_queue are requests with responses, and the one in receipt if its
\* interim response is being sent: it goes no further until this is done.
InRet(r) ==
    r \in Elems(ret_queue) =>
        \/ st[r] = "fwd" /\ pair[r] = "final"
        \/ /\ r = next
           /\ \/ st[r] = "headers" /\ rx = "idle" /\ r \in contq /\ pair[r] = "continue"
              \/ st[r] = "headers" /\ rx = "bad" /\ r \in contq /\ pair[r] = "none"
              \/ st[r] = "body" /\ rx = "delete" /\ pair[r] = "continue"

\* RESP_READY means a response, final or interim.  The flag of an interim
\* response that was sent outlives it; a malformed body then leaves the flag on
\* a request without a response, but this one is alone in seq_queue.
IsReady(r) ==
    r \in ready =>
        \/ st[r] = "fwd" /\ pair[r] = "final"
        \/ r = next /\ st[r] = "headers"
                    /\ (r \in Elems(seq_queue) \/ Elems(seq_queue) = {})
        \/ st[r] \in {"work", "clean"} /\ stop /\ rx = "idle"
                    /\ Elems(seq_queue) \subseteq {r}

\* Whoever answers a request finds it in seq_queue or knows it was dropped.
Answerable(r) == st[r] = "work" => r \in Elems(seq_queue) \cup drop

ReqInv(r) == Received(r) /\ InSeq(r) /\ InRet(r) /\ IsReady(r) /\ Answerable(r)

\* A receiving handler that waits for a lock.
RxInv ==
    rx # "idle" =>
        /\ sock = "open" /\ next \in Reqs
        /\ st[next] = IF rx \in {"continue", "bad"} THEN "headers" ELSE "body"
        /\ rx = "continue" => pair[next] = "continue"

ConnInv ==
    /\ drop # {} => sock = "dropped"
    /\ sock = "dropped" => Elems(seq_queue) = {}
    /\ sender = 0 => Elems(ret_queue) = {}

Increasing(s) == \A i, j \in 1..Len(s) : i < j => s[i] < s[j]
Before(A, B) == \A a \in A, b \in B : a < b

\* The requests of the final responses among some works.
Answered(s) == {s[i].r : i \in {k \in 1..Len(s) : s[k].kind = "final"}}

FinalsIncrease(s) ==
    \A i, j \in 1..Len(s) :
        i < j /\ s[i].kind = "final" /\ s[j].kind = "final" => s[i].r < s[j].r

\* Responses leave in the order of the requests, from list to list.
OrderInv ==
    /\ Increasing(seq_queue) /\ Increasing(ret_queue)
    /\ Before(Elems(ret_queue), Elems(seq_queue))
    /\ FinalsIncrease(ring)
    /\ Before(Answered(wire) \cup Answered(ring),
              Elems(ret_queue) \cup Elems(seq_queue) \cup {next})
    /\ Before(Answered(wire), Answered(ring))

PipeInv == (\A r \in Reqs : ReqInv(r)) /\ RxInv /\ ConnInv /\ OrderInv

IInv ==
    /\ TypeOK /\ OtherAssertionsHold
    /\ FinalsIncrease(wire)
    /\ bug = "none" => PipeInv

\* The connection is closed, or will be when the works before are executed.
CloseAt(i) == ring[i].kind = "close"
Broken == sock # "open" \/ \E i \in 1..Len(ring) : CloseAt(i)

\* Nothing is missing: a hole in the order of responses is behind a close.
NoHole ==
    /\ \A r \in Reqs : st[r] = "clean" => Broken
    /\ sock = "open" =>
        \A i \in 1..Len(ring) :
            ring[i].kind = "final" /\ (\A j \in 1..(i - 1) : ~CloseAt(j)) =>
                \A r \in Reqs : r < ring[i].r => r \in Answered(wire) \cup Answered(ring)
    /\ ~Broken =>
        \A r \in Reqs : r < next =>
            r \in Answered(wire) \cup Answered(ring)
                  \cup Elems(ret_queue) \cup Elems(seq_queue)

GapInv ==
    /\ \A r, q \in Reqs : r < q /\ q \in Answered(wire) => r \in Answered(wire)
    /\ bug = "none" => NoHole
=============================================================================
