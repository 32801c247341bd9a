------------------------------ MODULE FwdQueue ------------------------------
(***************************************************************************)
(* The forwarding queue of a backend connection (fw/http.c): scheduling a  *)
(* request, forwarding it, pairing the response with it, and the repair    *)
(* of a connection that broke with requests in its queue: re-sending,      *)
(* eviction and re-scheduling.                                             *)
(*                                                                         *)
(* Every part of the code that runs under TfwSrvConn->fwd_qlock is one     *)
(* atomic step; what it does to the connection is an operator on the       *)
(* connection's record.  What happens outside of the lock (the scheduler   *)
(* taking a reference, a response being received over several packets,     *)
(* the hooks of connection establishment one after another, the            *)
(* re-scheduling of a list that was cut off a queue) is a step of its own, *)
(* so another CPU may run in between.                                      *)
(***************************************************************************)
EXTENDS Integers, Sequences, FiniteSets

CONSTANTS
    Reqs,        \* client requests (TfwHttpReq)
    Conns,       \* connections with the backend servers (TfwSrvConn)
    NoReq,       \* the NULL request
    NoConn,      \* the NULL connection
    NonIdemp,    \* the requests marked TFW_HTTP_B_NON_IDEMP on arrival
    Upgrade,     \* the ones among them that ask for a websocket upgrade
    HMonitor,    \* health monitor requests: no client behind them
    Droppable,   \* the requests whose client may disconnect
    Expirable,   \* the requests that may get older than sg->max_jqage
    StaleCe,     \* the ones with a stale response in the cache (stale_ce)
    RetryNip,    \* TFW_SRV_RETRY_NIP
    MaxRefwd,    \* sg->max_refwd
    MaxQsize,    \* sg->max_qsize
    TmoNr,       \* TFW_SRV_TMO_NR: quick reconnection attempts
    MaxRecns     \* sg->max_recns: further attempts before re-scheduling

ASSUME ReqsAssumption == NoReq \notin Reqs /\ IsFiniteSet(Reqs)
ASSUME ConnsAssumption == NoConn \notin Conns
ASSUME KindsAssumption ==
    /\ NonIdemp \subseteq Reqs
    /\ Upgrade \subseteq NonIdemp
    /\ HMonitor \subseteq Reqs
    /\ Droppable \subseteq Reqs \ HMonitor
    /\ Expirable \subseteq Reqs
    /\ StaleCe \subseteq Reqs
ASSUME LimitsAssumption ==
    /\ RetryNip \in BOOLEAN
    /\ MaxRefwd \in Nat
    /\ MaxQsize \in Nat \ {0}
    /\ TmoNr \in Nat
    /\ MaxRecns \in Nat

VARIABLES
    conn,        \* the connections, see ConnType
    status,      \* where a request is
    pick,        \* the connection a scheduled request holds a reference of
    nips,        \* requests that are non-idempotent now
    dropped,     \* requests whose client is gone (TFW_HTTP_B_REQ_DROP)
    late,        \* requests older than sg->max_jqage
    retries,     \* TfwHttpReq->retries
    sends,       \* how many times a request was handed to the socket layer
    bug          \* the assertion of the code that failed, if one did

vars == <<conn, status, pick, nips, dropped, late, retries, sends, bug>>

Phases == {"dead", "init", "finish", "up", "closing", "stopped", "closed",
           "dropped", "stolen", "gone"}

\* The socket of an established connection sends.  With Conn_Stop it drops
\* what it receives: in "closing" ss_close() was called, in "stopped" not.
Active == {"up", "closing", "stopped"}

Finished == {"answered", "error", "freed"}
Statuses == {"new", "picked", "queued", "resched", "retry", "repicked"}
            \cup Finished
Asserts == {"none", "curr_msg_sent", "drained", "null_sk", "resend_curr",
            "treatnip_nip", "treatnip_curr", "reenable", "shrink_curr",
            "not_restricted", "reset_sent"}

ReqOrNone == Reqs \cup {NoReq}

(***************************************************************************)
(* A connection: the fields of TfwSrvConn, then its socket.  tx holds the  *)
(* requests taken by the socket layer and not in TCP yet, wire the ones    *)
(* the backend has and did not answer; msg and sib are the requests paired *)
(* with the response that is being received and with the next one in the   *)
(* same packet.                                                            *)
(***************************************************************************)
ConnType ==
    [fwd_queue : Seq(Reqs), nip_queue : SUBSET Reqs, qsize : Int,
     last : ReqOrNone, curr : ReqOrNone,
     hasnip : BOOLEAN, resend : BOOLEAN, qforwd : BOOLEAN,
     unsched : BOOLEAN, recns : Nat, phase : Phases,
     tx : Seq(Reqs), wire : Seq(Reqs), msg : ReqOrNone, sib : ReqOrNone]

Live(k) == k.phase \in Active \cup {"init", "finish", "closed", "stolen"}

Elems(s) == {s[i] : i \in DOMAIN s}
Pos(s, r) == CHOOSE i \in DOMAIN s : s[i] = r

\* The elements of s that are in R, in their order.
Keep(s, R) ==
    LET I    == {i \in DOMAIN s : s[i] \in R}
        N(i) == Cardinality({j \in I : j <= i})
    IN [n \in 1..Cardinality(I) |-> s[CHOOSE i \in I : N(i) = n]]

\* The last element of s that is in R, or NoReq.
LastOf(s, R) ==
    LET I == {i \in DOMAIN s : s[i] \in R} IN
    IF I = {} THEN NoReq ELSE s[CHOOSE i \in I : \A j \in I : j <= i]

-----------------------------------------------------------------------------
(***************************************************************************)
(* Helpers of the queue.                                                   *)
(***************************************************************************)
\* tfw_http_req_delist() of every request of R, tfw_http_req_nip_delist()
\* of every request of N.
Delist(k, R, N) ==
    LET nip == k.nip_queue \ (R \cup N) IN
    [k EXCEPT
        !.fwd_queue = Keep(@, Reqs \ R),
        !.qsize     = @ - Cardinality(R),
        !.nip_queue = nip,
        !.hasnip    = @ /\ (nip # {} \/ k.nip_queue = {})]

Enlist(k, r) ==
    [k EXCEPT
        !.fwd_queue = Append(@, r),
        !.qsize     = @ + 1,
        !.nip_queue = IF r \in nips THEN @ \cup {r} ELSE @,
        !.hasnip    = @ \/ r \in nips]

\* tfw_http_conn_nip_adjust()
NipAdjust(k) ==
    [k EXCEPT !.nip_queue = @ \cap nips,
              !.hasnip    = @ /\ k.nip_queue \cap nips # {}]

\* tfw_http_fwdq_reset() and tfw_http_conn_snip_fwd_queue()
FwdqReset(k) ==
    [k EXCEPT !.fwd_queue = <<>>, !.qsize = 0, !.curr = NoReq,
              !.last = NoReq, !.nip_queue = {}, !.hasnip = FALSE]

\* __tfw_http_conn_msg_sent_prev()
MsgSentPrev(k, r) ==
    LET i == Pos(k.fwd_queue, r) IN
    IF i = 1 THEN NoReq ELSE k.fwd_queue[i - 1]

\* Mutant: forgets that a non-idempotent request holds the connection.
OnHoldUpgradeOnly(k) == k.unsched

OnHold(k) == k.last \in nips \/ k.unsched

Drained(k) ==
    \/ k.fwd_queue = <<>>
    \/ k.last # NoReq /\ k.fwd_queue[Len(k.fwd_queue)] = k.last

\* Mutant: does not look whether there is anything to forward.
NeedFwdNotHeld(k) == ~OnHold(k)

NeedFwd(k) == ~OnHold(k) /\ ~Drained(k)

\* The requests of the queue up to last_msg_sent, and the ones after it.
SentPart(k) ==
    IF k.last = NoReq THEN <<>>
    ELSE SubSeq(k.fwd_queue, 1, Pos(k.fwd_queue, k.last))
UnsentPart(k) ==
    SubSeq(k.fwd_queue, Len(SentPart(k)) + 1, Len(k.fwd_queue))

ClearRestricted(k) == [k EXCEPT !.qforwd = FALSE, !.resend = FALSE]

\* tfw_srv_conn_suitable_common(); the 30 ms delay of a busy connection is
\* not told from a scheduler that prefers another connection.
Suitable(k) == ~k.resend /\ ~k.unsched /\ k.qsize < MaxQsize

-----------------------------------------------------------------------------
(***************************************************************************)
(* Sections that run under fwd_qlock.  Each returns the connection after   *)
(* it, the requests it took off the queue for good (gone) or to be         *)
(* re-scheduled (cut), the ones whose retry counter it increased (tried),  *)
(* the ones it handed to the socket layer (sent), its return code and the  *)
(* assertion it failed.                                                    *)
(***************************************************************************)
Section(k, gone, tried, sent, ret, assert) ==
    [k |-> k, gone |-> gone, cut |-> {}, tried |-> tried, sent |-> sent,
     ret |-> ret, bug |-> assert]

Nothing(k) == Section(k, {}, {}, {}, "ok", "none")

\* Section b ran after section a.
Then(a, b) ==
    [k |-> b.k, gone |-> a.gone \cup b.gone, cut |-> a.cut \cup b.cut,
     tried |-> a.tried \cup b.tried, sent |-> a.sent \cup b.sent,
     ret |-> b.ret, bug |-> IF a.bug # "none" THEN a.bug ELSE b.bug]

\* After section s the whole queue is cut off with tfw_http_fwdq_reset().
CutOff(s) == [s EXCEPT !.cut = Elems(s.k.fwd_queue), !.k = FwdqReset(s.k)]

\* tfw_http_req_evict_stale_req()
Stale == dropped \cup late

\* tfw_http_req_fwd_send() of the i-th request of s: an upgrade fails if
\* the connection has one already, even one that failed just before.
FwdSend(k, s, skip, res, i) ==
    IF /\ s[i] \in Upgrade
       /\ \/ k.unsched
          \/ \E j \in 1..(i - 1) : s[j] \in Upgrade \ skip
    THEN "ebadf" ELSE res[s[i]]

(***************************************************************************)
(* The loop of tfw_http_conn_fwd_unsent() and of tfw_http_conn_resend()    *)
(* over the requests s.  Requests in skip are evicted; the others are sent *)
(* with the outcomes out, until the work queue is busy, the connection is  *)
(* broken, or a request of stop was sent: n is the number of turns.        *)
(***************************************************************************)
LoopStops(s, skip, stop, out) ==
    {i \in DOMAIN s :
        /\ s[i] \notin skip
        /\ \/ out[i] \in {"ebusy", "ebadf"}
           \/ out[i] = "ok" /\ s[i] \in stop}

LoopEnds(k, s, gone, sent, done, code) ==
    [out  |-> code,
     sent |-> sent,
     gone |-> gone,
     done |-> done,
     k    |-> [Delist(k, gone, {}) EXCEPT
                 !.tx      = @ \o Keep(s, sent),
                 !.unsched = @ \/ done \cap Upgrade # {}]]

LoopUpTo(k, s, skip, out, n, code) ==
    LET Done == {i \in 1..n : s[i] \notin skip} IN
    LoopEnds(k, s,
             {s[i] : i \in {j \in 1..n : s[j] \in skip \/ out[j] = "err"}},
             {s[i] : i \in {j \in Done : out[j] = "ok"}},
             {s[i] : i \in Done}, code)

LoopRun(k, s, skip, out, stops) ==
    IF stops = {} THEN LoopUpTo(k, s, skip, out, Len(s), "ok")
    ELSE LET n == CHOOSE i \in stops : \A j \in stops : i <= j IN
         LoopUpTo(k, s, skip, out, n, out[n])

LoopOver(k, s, skip, stop, out) ==
    LoopRun(k, s, skip, out, LoopStops(s, skip, stop, out))

SendLoop(k, s, skip, stop, res) ==
    LoopOver(k, s, skip, stop,
             [i \in DOMAIN s |-> FwdSend(k, s, skip, res, i)])

\* The socket of a connection whose backend socket became a websocket is
\* NULL, and sending to it is a BUG_ON in ss_send().
SendBug(k, l) == IF k.phase = "stolen" /\ l.done # {} THEN "null_sk" ELSE "none"

\* Mutant: reports a busy work queue although requests are outstanding.
FwdUnsentAlwaysBusy(k, res) ==
    LET l    == SendLoop(k, UnsentPart(k), Stale, nips, res)
        last == IF l.sent = {} THEN k.last ELSE LastOf(UnsentPart(k), l.sent)
    IN Section([Delist(l.k, {}, l.sent \ nips) EXCEPT
                  !.last = last, !.curr = last],
               l.gone, {}, l.sent, l.out, SendBug(k, l))

\* tfw_http_conn_fwd_unsent(): what its loop l did to the pointers.
Forwarded(k, l) ==
    LET last == IF l.sent = {} THEN k.last ELSE LastOf(UnsentPart(k), l.sent) IN
    Section([Delist(l.k, {}, l.sent \ nips) EXCEPT
               !.last = last, !.curr = last],
            l.gone, {}, l.sent,
            IF l.out = "ebusy" /\ last = NoReq THEN "ebusy" ELSE "ok",
            SendBug(k, l))

FwdUnsent(k, res) ==
    CASE k.curr # k.last -> Section(k, {}, {}, {}, "ok", "curr_msg_sent")
      [] Drained(k)      -> Section(k, {}, {}, {}, "ok", "drained")
      [] OTHER -> Forwarded(k, SendLoop(k, UnsentPart(k), Stale, nips, res))

\* tfw_http_conn_resend(): what its loop l over the requests s did.
Resent(k, first, s, l) ==
    LET resent == LastOf(s, l.sent)
        curr   == IF resent = NoReq THEN k.curr ELSE resent
        after  ==
          CASE l.out = "ebadf" -> [l.k EXCEPT !.curr = curr]
            [] l.out = "ebusy" -> [l.k EXCEPT !.curr = curr, !.last = resent]
            [] l.out = "ok" /\ first /\ resent # NoReq ->
                 [l.k EXCEPT !.curr = resent]
            [] OTHER -> [l.k EXCEPT !.curr = resent, !.last = resent]
        assert ==
          IF k.curr # NoReq /\ (first \/ k.curr # k.fwd_queue[1])
          THEN "resend_curr" ELSE SendBug(k, l)
    IN Section(after, l.gone, (l.done \cup l.gone) \ Stale,
               l.sent, l.out, assert)

Resend(k, first, res) ==
    IF k.last = NoReq THEN Nothing(k)
    ELSE LET s    == SentPart(k)
             skip == Stale \cup {r \in Elems(s) : retries[r] >= MaxRefwd}
         IN Resent(k, first, s,
                   SendLoop(k, s, skip, IF first THEN Reqs ELSE {}, res))

\* Mutant: the connection is never taken out of repair.
ReenableIfDoneNever(k) == Nothing(k)

\* tfw_srv_conn_reenable_if_done()
ReenableIfDone(k) ==
    IF k.fwd_queue # <<>> THEN Nothing(k)
    ELSE Section(ClearRestricted(k), {}, {}, {}, "ok",
                 IF k.qsize # 0 \/ k.last # NoReq \/ k.curr # NoReq
                 THEN "reenable" ELSE "none")

\* tfw_srv_conn_reenable_if_done() after section u, which has the result.
ThenReenable(u) == [Then(u, ReenableIfDone(u.k)) EXCEPT !.ret = u.ret]

\* The last steps of tfw_http_conn_fwd_repair(), after the connection got
\* TFW_CONN_B_QFORWD.
FwdRepairUnsent(k, res) ==
    ThenReenable(IF NeedFwd(k) THEN FwdUnsent(k, res) ELSE Nothing(k))

\* The steps after re-sending, section s.
FwdRepairResent(s, res) ==
    IF s.ret = "ebadf" THEN [s EXCEPT !.ret = "ok"]
    ELSE Then(s, FwdRepairUnsent([s.k EXCEPT !.qforwd = TRUE], res))

\* tfw_http_conn_fwd_repair(); a request the work queue had no room for
\* while it was re-sent is tried again with the unsent ones, so the second
\* attempt has an outcome of its own.
FwdRepair(k, res, res2) ==
    CASE ~k.resend          -> Section(k, {}, {}, {}, "ok", "not_restricted")
      [] k.resend /\ k.fwd_queue = <<>> -> ReenableIfDone(k)
      [] k.resend /\ k.fwd_queue # <<>> /\ k.qforwd -> FwdRepairUnsent(k, res)
      [] OTHER -> FwdRepairResent(Resend(k, FALSE, res), res2)

\* tfw_http_conn_treatnip()
TreatNip(k) ==
    IF k.last # NoReq /\ OnHold(k) /\ ~RetryNip
    THEN Section([Delist(k, {k.last}, {}) EXCEPT
                    !.last = MsgSentPrev(k, k.last)],
                 {k.last}, {}, {}, "ok",
                 CASE k.last \notin k.nip_queue -> "treatnip_nip"
                   [] k.curr # NoReq -> "treatnip_curr"
                   [] OTHER -> "none")
    ELSE Nothing(k)

\* Mutant: the error is dropped and the queue is left where it is.
ReschedIfBusyIgnored(s) == s

\* A forwarding procedure failed with nothing outstanding: the whole queue
\* is cut off to be re-scheduled (the tails of tfw_http_conn_repair() and
\* of tfw_http_popreq()).
ReschedIfBusy(s) ==
    IF s.ret # "ebusy" THEN s
    ELSE CutOff([s EXCEPT !.k = ClearRestricted(@),
                          !.bug = IF @ # "none" THEN @
                                  ELSE IF s.k.curr # NoReq \/ s.k.last # NoReq
                                  THEN "reset_sent" ELSE "none"])

\* The live case of tfw_http_conn_repair(), after the first request was sent
\* again (section s), after tfw_http_conn_treatnip() (section t), and as a
\* whole.
RepairResent(s, res) ==
    CASE s.ret = "ebadf" -> s
      [] s.ret = "ok" /\ s.k.last = NoReq ->
           ReschedIfBusy(ThenReenable(
             IF s.k.fwd_queue = <<>> THEN s
             ELSE Then(s, FwdUnsent([s.k EXCEPT !.qforwd = TRUE], res))))
      [] OTHER -> ReschedIfBusy(s)

RepairTreated(t, res) ==
    IF t.bug # "none" THEN t
    ELSE RepairResent(Then(t, Resend(t.k, TRUE, res)), res)

RepairLive(k0, res) ==
    LET k == [k0 EXCEPT !.curr = NoReq] IN
    IF k.fwd_queue = <<>> THEN Nothing(k) ELSE RepairTreated(TreatNip(k), res)

\* tfw_http_conn_shrink_fwdq(): evict the stale requests.
ShrinkFwdq(k) ==
    LET old  == Elems(k.fwd_queue) \cap Stale
        prev == LastOf(SentPart(k), Reqs \ old) IN
    IF k.fwd_queue = <<>> THEN Nothing(k)
    ELSE Section([Delist(k, old, {}) EXCEPT !.last = prev],
                 old, {}, {}, "ok",
                 IF k.curr # NoReq THEN "shrink_curr" ELSE "none")

\* tfw_http_popreq(): the request leaves the queue,
Unlink(k, r) ==
    NipAdjust(Delist([k EXCEPT !.last = IF @ = r THEN NoReq ELSE @,
                               !.curr = IF @ = r THEN NoReq ELSE @],
                     {r}, {}))

\* and the ones that wait behind it are forwarded.
PopReq(k, r, fwd_unsent, res, res2) ==
    LET p == Unlink(k, r)
    IN CASE ~fwd_unsent -> Nothing(p)
         [] fwd_unsent /\ p.resend ->
              ReschedIfBusy(FwdRepair(p, res, res2))
         [] fwd_unsent /\ ~p.resend /\ NeedFwd(p) ->
              ReschedIfBusy(FwdUnsent(p, res))
         [] OTHER -> Nothing(p)

\* Mutant: a request that has a response is paired with another one.
RespPairAgain(k) ==
    IF k.curr = NoReq THEN NoReq ELSE k.fwd_queue[1]

\* tfw_http_resp_pair(): the first request without a response, not after
\* curr_msg_sent.
RespPair(k) ==
    LET S == {i \in DOMAIN k.fwd_queue :
                /\ k.fwd_queue[i] \notin {k.msg, k.sib}
                /\ \A j \in 1..(i - 1) : k.fwd_queue[j] # k.curr}
    IN IF k.curr = NoReq \/ S = {} THEN NoReq
       ELSE k.fwd_queue[CHOOSE i \in S : \A j \in S : i <= j]

-----------------------------------------------------------------------------
(***************************************************************************)
(* Steps.                                                                  *)
(***************************************************************************)
EmptyConn ==
    [fwd_queue |-> <<>>, nip_queue |-> {}, qsize |-> 0, last |-> NoReq,
     curr |-> NoReq, hasnip |-> FALSE, resend |-> FALSE, qforwd |-> FALSE,
     unsched |-> FALSE, recns |-> 0, phase |-> "dead",
     tx |-> <<>>, wire |-> <<>>, msg |-> NoReq, sib |-> NoReq]

Init ==
    /\ conn = [c \in Conns |-> EmptyConn]
    /\ status = [r \in Reqs |-> "new"]
    /\ pick = [r \in Reqs |-> NoConn]
    /\ nips = NonIdemp
    /\ dropped = {}
    /\ late = {}
    /\ retries = [r \in Reqs |-> 0]
    /\ sends = [r \in Reqs |-> 0]
    /\ bug = "none"

\* What ss_send() may answer for each request of the queue.
Outcomes(k) ==
    IF k.phase \in {"closed", "dropped"} THEN {[r \in Reqs |-> "ebadf"]}
    ELSE {f \in [Reqs -> {"ok", "ebusy", "err"}] :
            \A r \in Reqs \ Elems(k.fwd_queue) : f[r] = "ok"}

\* The second attempts of tfw_http_conn_fwd_repair().
Outcomes2(k) ==
    IF k.resend /\ ~k.qforwd THEN Outcomes(k) ELSE {[r \in Reqs |-> "ok"]}

\* What becomes of a request on the error queue (tfw_http_req_zap_error())
\* or evicted: an error response, or nothing if there is no client.
Fate(r) == IF r \in dropped \cup HMonitor THEN "freed" ELSE "error"
Answer(r) == IF r \in dropped \cup HMonitor THEN "freed" ELSE "answered"

(***************************************************************************)
(* The requests move to the status next; the ones in tried were counted as *)
(* retried, the ones in sent were handed to the socket layer, and pk are   *)
(* the connections the scheduler returned.  A finished request is freed    *)
(* with all its fields.                                                    *)
(***************************************************************************)
Move(next, tried, sent, pk) ==
    LET over == {r \in Reqs : next[r] \in Finished}
        Count(f, S) == [r \in Reqs |->
            IF r \in over THEN 0 ELSE IF r \in S THEN f[r] + 1 ELSE f[r]]
    IN /\ status' = next
       /\ pick' = [r \in Reqs |-> IF next[r] \in {"picked", "repicked"}
                                  THEN pk[r] ELSE NoConn]
       /\ retries' = Count(retries, tried)
       /\ sends' = Count(sends, sent)
       /\ nips' = nips \ over
       /\ dropped' = dropped \ over
       /\ late' = late \ over

\* Section s ran on connection c; st are the requests the step itself moved.
Leave(c, s, st) ==
    /\ conn' = [conn EXCEPT ![c] = s.k]
    /\ bug' = s.bug
    /\ Move([r \in Reqs |-> CASE r \in s.gone -> Fate(r)
                              [] r \in s.cut -> "resched"
                              [] OTHER -> st[r]],
            s.tried, s.sent, pick)

\* Only request r moves.
MoveReq(r, st, tried, pk) ==
    /\ Move([status EXCEPT ![r] = st], tried, {}, pk)
    /\ UNCHANGED <<conn, bug>>

-----------------------------------------------------------------------------
(***************************************************************************)
(* The scheduler and the forwarding of a request.                          *)
(***************************************************************************)
\* The scheduler takes a reference of a live connection and finds it
\* suitable (__sched_srv(), tfw_http_get_srv_conn()).
Pick(r, c) ==
    /\ status[r] = "new"
    /\ Live(conn[c]) /\ Suitable(conn[c])
    /\ MoveReq(r, "picked", {}, [pick EXCEPT ![r] = c])

\* No connection, or the request cannot be adjusted: 502 or 500.
NoServer(r) ==
    /\ status[r] = "new"
    /\ MoveReq(r, Fate(r), {}, pick)

\* tfw_http_req_fwd_resched()
FwdResched(r) ==
    LET c == pick[r]
        k == Enlist(conn[c], r)
    IN /\ status[r] = "picked"
       /\ \E res \in Outcomes(k) :
            LET u == IF OnHold(k) THEN Nothing(k) ELSE FwdUnsent(k, res) IN
            Leave(c, IF u.ret = "ebusy" THEN CutOff(u) ELSE u,
                  [status EXCEPT ![r] = "queued"])

\* Mutant: a non-idempotent request is re-scheduled whatever the policy.
ReschedNip(r) ==
    /\ status[r] = "resched"
    /\ MoveReq(r, IF r \in Stale THEN Fate(r) ELSE "retry", {}, pick)

\* tfw_http_fwdq_resched() takes a request off its list.  The requests of
\* a list are taken in any order.
Resched(r) ==
    /\ status[r] = "resched"
    /\ MoveReq(r, IF \/ r \in Stale
                     \/ r \in nips /\ ~RetryNip
                  THEN Fate(r) ELSE "retry", {}, pick)

\* Mutant of ReschedPick: one retry too many.
ReschedPickOffByOne(r, c) ==
    /\ status[r] = "retry" /\ retries[r] <= MaxRefwd
    /\ Live(conn[c]) /\ Suitable(conn[c])
    /\ MoveReq(r, "repicked", {r}, [pick EXCEPT ![r] = c])

\* One turn of its loop: tfw_http_req_evict_retries(), then the scheduler
\* in tfw_http_req_resched().
ReschedEvict(r) ==
    /\ status[r] = "retry" /\ retries[r] >= MaxRefwd
    /\ MoveReq(r, Fate(r), {r}, pick)
ReschedPick(r, c) ==
    /\ status[r] = "retry" /\ retries[r] < MaxRefwd
    /\ Live(conn[c]) /\ Suitable(conn[c])
    /\ MoveReq(r, "repicked", {r}, [pick EXCEPT ![r] = c])
ReschedNoServer(r) ==
    /\ status[r] = "retry" /\ retries[r] < MaxRefwd
    /\ MoveReq(r, Fate(r), {r}, pick)

\* Mutant: a request that is taken back stays in the queue.
FwdAgainKept(r) ==
    LET c == pick[r]
        k == Enlist(conn[c], r)
    IN /\ status[r] = "repicked"
       /\ \E res \in Outcomes(k) :
            LET u == IF OnHold(k) THEN Nothing(k) ELSE FwdUnsent(k, res) IN
            Leave(c, u, [status EXCEPT ![r] =
                IF OnHold(k) \/ u.ret = "ebusy" THEN "retry" ELSE "queued"])

\* tfw_http_req_fwd() with resched set: the request is taken back if the
\* connection is on hold or its work queue is busy.
FwdAgain(r) ==
    LET c == pick[r]
        k == Enlist(conn[c], r)
    IN /\ status[r] = "repicked"
       /\ \E res \in Outcomes(k) :
            LET u == IF OnHold(k) THEN Nothing(k) ELSE FwdUnsent(k, res) IN
            IF OnHold(k) \/ u.ret = "ebusy"
            THEN Leave(c, [u EXCEPT !.k = Delist(@, {r}, {})],
                       [status EXCEPT ![r] = "retry"])
            ELSE Leave(c, u, [status EXCEPT ![r] = "queued"])

-----------------------------------------------------------------------------
(***************************************************************************)
(* The socket and the responses of the backend.                            *)
(***************************************************************************)
\* The backend gets request r.  What it answers is dropped if Conn_Stop is
\* set, so the request is not on the wire then.
Transmit(k, r) ==
    [k EXCEPT !.wire = IF k.phase = "up" THEN Append(@, r) ELSE @]

\* Mutant: the pointers into the queue are left at the dropped request.
EntailKeepsLast(c) ==
    LET k == conn[c]
        r == k.tx[1]
        t == [k EXCEPT !.tx = Tail(@)]
    IN /\ k.tx # <<>> /\ k.phase \in Active
       /\ Leave(c,
            IF r \notin dropped THEN Nothing(Transmit(t, r))
            ELSE Section(Delist(t, {r}, {}), {r}, {}, {}, "ok", "none"),
            status)

\* tfw_http_on_tcp_entail_req(): the request is put into TCP, unless its
\* client is gone.
Entail(c) ==
    LET k == conn[c]
        r == k.tx[1]
        t == [k EXCEPT !.tx = Tail(@)]
    IN /\ k.tx # <<>> /\ k.phase \in Active
       /\ Leave(c,
            IF r \notin dropped THEN Nothing(Transmit(t, r))
            ELSE Section([Delist(t, {r}, {}) EXCEPT
                            !.last = IF @ = r THEN MsgSentPrev(k, r) ELSE @,
                            !.curr = IF @ = r THEN MsgSentPrev(k, r) ELSE @],
                         {r}, {}, {}, "ok", "none"),
            status)

\* ss_tcp_data_ready() after an error: Conn_Stop is set and ss_close() is
\* called; it is not if the flag was set before.
Stop(k, phase) ==
    [k EXCEPT !.phase = IF @ = "up" THEN phase ELSE @, !.wire = <<>>]

\* The first data of a response: tfw_http_conn_msg_alloc() pairs it with a
\* request, or the connection is closed.
RespStart(c) ==
    LET k == conn[c]
        r == RespPair(k)
    IN /\ k.phase \in {"up", "closed"} /\ k.wire # <<>> /\ k.msg = NoReq
       /\ Leave(c, Nothing(IF r = NoReq THEN Stop(k, "closing")
                           ELSE [k EXCEPT !.wire = Tail(@), !.msg = r]),
                status)

\* The packet that ends a response has the start of the next one, which is
\* paired first (tfw_http_msg_create_sibling()).
RespSibling(c) ==
    LET k == conn[c] IN
    /\ k.phase \in {"up", "closed"} /\ k.wire # <<>>
    /\ k.msg # NoReq /\ k.sib = NoReq
    /\ RespPair(k) # NoReq
    /\ Leave(c, Nothing([k EXCEPT !.wire = Tail(@), !.sib = RespPair(k)]),
             status)

\* The response is complete: tfw_http_resp_cache() or
\* tfw_http_resp_fwd_stale(), both with tfw_http_popreq().  The client gets
\* it, or an error if it is blocked after that; then, or if the next response
\* could not be allocated, the connection is closed.
RespDone(c) ==
    LET r == conn[c].msg IN
    /\ conn[c].phase \in {"up", "closed"} /\ r # NoReq
    /\ \E failed \in BOOLEAN :
       \E res \in Outcomes(conn[c]), res2 \in Outcomes2(conn[c]) :
         LET k == [conn[c] EXCEPT !.msg = conn[c].sib, !.sib = NoReq]
             p == PopReq(k, r, TRUE, res, res2)
             d == [Stop(p.k, "closing") EXCEPT
                     !.msg = NoReq, !.unsched = @ /\ r \notin Upgrade]
         IN Leave(c, IF failed THEN [p EXCEPT !.k = d] ELSE p,
                  [status EXCEPT ![r] = Answer(r)])

\* The response to an upgrade request is a 101: the socket goes to a new
\* websocket connection (tfw_ws_srv_new_steal_sk()) before the request is
\* taken off the queue.  The flag is cleared if the response fails later.
RespUpgrade(c) ==
    LET r == conn[c].msg IN
    /\ conn[c].phase = "up" /\ r \in Upgrade /\ conn[c].sib = NoReq
    /\ \E failed \in BOOLEAN,
          res \in Outcomes(conn[c]), res2 \in Outcomes2(conn[c]) :
         LET k == [conn[c] EXCEPT !.msg = NoReq, !.phase = "stolen",
                                  !.tx = <<>>, !.wire = <<>>]
             p == PopReq(k, r, TRUE, res, res2)
         IN Leave(c, [p EXCEPT !.k.unsched = @ /\ ~failed],
                  [status EXCEPT ![r] = Answer(r)])

\* The new connection cannot be allocated.
RespUpgradeNoMem(c) ==
    /\ conn[c].phase = "up" /\ conn[c].msg \in Upgrade /\ conn[c].sib = NoReq
    /\ Leave(c, Nothing([Stop(conn[c], "closing") EXCEPT !.unsched = FALSE]),
             status)

\* The response cannot be parsed or is blocked: tfw_http_popreq() without
\* forwarding, then the connection is closed, unless the request was the
\* health monitor's.  If the client gets a stale response instead, Conn_Stop
\* is set first, and ss_close() is not called.
RespBad(c) ==
    LET r == conn[c].msg
        p == PopReq([conn[c] EXCEPT !.msg = NoReq], r, FALSE, <<>>, <<>>).k
    IN /\ conn[c].phase \in {"up", "closed"} /\ r # NoReq
       /\ conn[c].sib = NoReq
       /\ \E stale \in BOOLEAN :
            /\ stale => r \in StaleCe \ HMonitor
            /\ Leave(c, Nothing(
                 IF r \in HMonitor THEN p
                 ELSE [Stop(p, IF stale THEN "stopped" ELSE "closing") EXCEPT
                         !.unsched = @ /\ r \notin Upgrade]),
                 [status EXCEPT ![r] = IF stale THEN Answer(r) ELSE Fate(r)])

-----------------------------------------------------------------------------
(***************************************************************************)
(* Loss, failover and repair of a connection.                              *)
(***************************************************************************)
\* The backend closes the connection or the socket fails; other CPUs see
\* the closed socket before the connection is dropped.  It is the same when a
\* response in receipt turns out to be for a client that left (T_BAD).
SockClose(c) ==
    LET k == conn[c] IN
    /\ k.phase \in Active
    /\ Leave(c, Nothing([k EXCEPT !.phase = "closed", !.tx = <<>>]), status)

\* tfw_sock_srv_connect_drop() and tfw_http_conn_drop(): a response that
\* ends with the connection is complete and may still be blocked, any other
\* is freed.
ConnDrop(c) ==
    LET r == conn[c].msg
        k == [conn[c] EXCEPT !.phase = "dropped", !.msg = NoReq,
                             !.wire = <<>>]
    IN /\ conn[c].phase = "closed" /\ conn[c].sib = NoReq
       /\ \/ Leave(c, Nothing(k), status)
          \/ /\ r # NoReq
             /\ \E res \in Outcomes(k), fwd_unsent \in BOOLEAN :
                  Leave(c, PopReq(k, r, fwd_unsent, res, res),
                        [status EXCEPT ![r] = Answer(r)])

\* The dead case of tfw_http_conn_repair().
RepairDead(k0) ==
    LET k == [k0 EXCEPT !.curr = NoReq] IN
    IF k.recns - TmoNr >= MaxRecns THEN CutOff(Nothing(k)) ELSE ShrinkFwdq(k)

\* tfw_srv_conn_release() of a server that stays in the configuration, with
\* tfw_sock_srv_connect_try_later(); the attempts are counted up to the
\* number from which on they are all alike.
Release(k) ==
    LET d == [ClearRestricted(k) EXCEPT !.phase = "dead", !.tx = <<>>]
        s == IF k.recns < TmoNr THEN Nothing(d) ELSE RepairDead(d)
    IN [s EXCEPT !.k.recns = IF @ < TmoNr + MaxRecns THEN @ + 1 ELSE @]

\* The last reference of the connection was put.
Unreferenced(c) == \A r \in Reqs : pick[r] # c

ConnRelease(c) ==
    /\ conn[c].phase \in {"dropped", "stolen"} /\ Unreferenced(c)
    /\ Leave(c, Release(conn[c]), status)

\* An attempt to connect fails, and the connection is released again.
ConnectFail(c) ==
    /\ conn[c].phase = "dead"
    /\ Leave(c, Release(conn[c]), status)

\* tfw_sock_srv_connect_complete(), step by step: tfw_http_conn_init() and
\* the connection is live,
ConnectInit(c) ==
    LET k == conn[c] IN
    /\ k.phase = "dead"
    /\ Leave(c, Nothing(
         IF k.fwd_queue = <<>> THEN [k EXCEPT !.phase = "finish"]
         ELSE [k EXCEPT !.phase = "init", !.curr = NoReq, !.resend = TRUE]),
         status)

\* tfw_http_conn_repair() of a restricted connection,
ConnRepair(c) ==
    LET k == [conn[c] EXCEPT !.phase = "finish"] IN
    /\ conn[c].phase = "init"
    /\ \E res \in Outcomes(k) : Leave(c, RepairLive(k, res), status)

\* and the end of the websocket state.
ConnectFinish(c) ==
    /\ conn[c].phase = "finish"
    /\ conn' = [conn EXCEPT ![c].phase = "up", ![c].recns = 0,
                            ![c].unsched = FALSE]
    /\ UNCHANGED <<status, pick, nips, dropped, late, retries, sends, bug>>

\* tfw_http_conn_release() when the server was removed from the
\* configuration, and when the whole system stops.
ReleaseRemoved(c) ==
    /\ conn[c].phase \in {"dropped", "stolen"} /\ Unreferenced(c)
    /\ Leave(c, CutOff(Nothing([ClearRestricted(conn[c]) EXCEPT
                                  !.phase = "gone", !.tx = <<>>])), status)
ReleaseStopped(c) ==
    LET k == conn[c] IN
    /\ k.phase \in {"dropped", "stolen"} /\ Unreferenced(c)
    /\ Leave(c, Nothing([FwdqReset(k) EXCEPT !.phase = "gone", !.tx = <<>>]),
             [r \in Reqs |-> IF r \in Elems(k.fwd_queue) THEN "freed"
                            ELSE status[r]])

-----------------------------------------------------------------------------
(***************************************************************************)
(* What happens to requests meanwhile.                                     *)
(***************************************************************************)
Pending(r) == status[r] \notin Finished

\* tfw_http_conn_cli_drop(): the client disconnects.
ClientDrop(r) ==
    /\ r \in Droppable \ dropped /\ Pending(r)
    /\ dropped' = dropped \cup {r}
    /\ UNCHANGED <<conn, status, pick, nips, late, retries, sends, bug>>

\* tfw_http_req_add_seq_queue() of the client's next request: this one is
\* idempotent now.  An upgrade request is not followed by another.
Follow(r) ==
    /\ r \in nips \ (Upgrade \cup HMonitor) /\ Pending(r)
    /\ nips' = nips \ {r}
    /\ UNCHANGED <<conn, status, pick, dropped, late, retries, sends, bug>>

\* The request becomes older than max_jqage.
Expire(r) ==
    /\ r \in Expirable \ late /\ Pending(r)
    /\ late' = late \cup {r}
    /\ UNCHANGED <<conn, status, pick, nips, dropped, retries, sends, bug>>

\* A failed assertion stops the machine.
Halt == bug # "none" /\ UNCHANGED vars

ReqStep(r) ==
    \/ NoServer(r) \/ FwdResched(r) \/ Resched(r) \/ ReschedEvict(r)
    \/ ReschedNoServer(r) \/ FwdAgain(r)
    \/ ClientDrop(r) \/ Follow(r) \/ Expire(r)
    \/ \E c \in Conns : Pick(r, c) \/ ReschedPick(r, c)

ConnStep(c) ==
    \/ Entail(c) \/ RespStart(c) \/ RespSibling(c) \/ RespDone(c)
    \/ RespUpgrade(c) \/ RespUpgradeNoMem(c) \/ RespBad(c)
    \/ SockClose(c) \/ ConnDrop(c) \/ ConnRelease(c) \/ ConnectFail(c)
    \/ ConnectInit(c) \/ ConnRepair(c) \/ ConnectFinish(c)
    \/ ReleaseRemoved(c) \/ ReleaseStopped(c)

Next ==
    \/ bug = "none" /\ (\/ \E r \in Reqs : ReqStep(r)
                       \/ \E c \in Conns : ConnStep(c))
    \/ Halt

Spec == Init /\ [][Next]_vars

(***************************************************************************)
(* Softirqs and timers run: what the code has started goes on, the backend *)
(* answers what it received, a response that has begun ends, and an        *)
(* attempt to reconnect succeeds or fails.  Nothing makes the backend      *)
(* close a connection or ever come back, and nothing makes requests        *)
(* expire.  But for the last one, each conjunct says that an action is not *)
(* enabled for ever without being taken by naming the states in which it   *)
(* is enabled and which only it (or an alternative of it) leaves: that is  *)
(* weak fairness without ENABLED.                                          *)
(***************************************************************************)
Entailing(c, r) ==
    conn[c].phase \in Active /\ conn[c].tx # <<>> /\ conn[c].tx[1] = r
Receiving(c, r) == conn[c].phase \in {"up", "closed"} /\ conn[c].msg = r
Unanswered(c) ==
    conn[c].phase \in {"up", "closed"} /\ conn[c].wire # <<>>
    /\ conn[c].msg = NoReq
Closing(c) ==
    \/ conn[c].phase = "closing"
    \/ conn[c].phase = "closed" /\ conn[c].sib = NoReq
    \/ conn[c].phase \in {"dropped", "stolen"} /\ Unreferenced(c)
Reconnecting(c, n) ==
    /\ conn[c].phase = "dead" /\ conn[c].recns = n
    /\ n < TmoNr + MaxRecns \/ conn[c].fwd_queue # <<>>

Fairness ==
    /\ \A r \in Reqs :
         /\ []<>(status[r] # "picked") /\ []<>(status[r] # "resched")
         /\ []<>(status[r] # "retry") /\ []<>(status[r] # "repicked")
    /\ \A c \in Conns : \A r \in Reqs :
         []<>(~Entailing(c, r)) /\ []<>(~Receiving(c, r))
    /\ \A c \in Conns :
         /\ []<>(~Unanswered(c)) /\ []<>(~Closing(c))
         /\ []<>(conn[c].phase # "init")
    /\ \A c \in Conns : \A n \in 0..(TmoNr + MaxRecns) :
         []<>(~Reconnecting(c, n))
    /\ \A c \in Conns : WF_vars(ConnectFinish(c))

FairSpec == Spec /\ Fairness

-----------------------------------------------------------------------------
(***************************************************************************)
(* Properties.                                                             *)
(***************************************************************************)
\* Every variable has its type; the retry counter of a pending request never
\* passes max_refwd (tfw_http_req_evict_retries()).
TypeOK ==
    /\ conn \in [Conns -> ConnType]
    /\ status \in [Reqs -> Statuses]
    /\ pick \in [Reqs -> Conns \cup {NoConn}]
    /\ nips \subseteq NonIdemp
    /\ dropped \subseteq Droppable
    /\ late \subseteq Expirable
    /\ retries \in [Reqs -> 0..MaxRefwd]
    /\ sends \in [Reqs -> Nat]
    /\ bug \in Asserts

\* The BUG_ON of tfw_http_conn_treatnip(): if the connection is on hold
\* when it is repaired, the request sent last is on the list of
\* non-idempotent ones.
TreatNipAssertion == bug # "treatnip_nip"

\* The BUG_ON of ss_send(): nothing is sent over a connection that gave its
\* socket to a websocket.
SocketAssertion == bug # "null_sk"

\* No BUG_ON of fwd_unsent, resend, treatnip, reenable_if_done, fwd_repair
\* and shrink_fwdq fails, nor the WARN_ON before a queue is cut off; except
\* for the two above, and these only after a websocket upgrade was tried.
AssertionsHold ==
    \/ bug = "none"
    \/ ~TreatNipAssertion /\ \E c \in Conns : conn[c].unsched
    \/ ~SocketAssertion /\ \E c \in Conns : conn[c].phase = "stolen"

NoDup(s) == \A i, j \in DOMAIN s : s[i] = s[j] => i = j

\* The queue, its counter, the list and the flag of non-idempotent requests
\* and the two pointers into the queue agree whenever fwd_qlock is free; in
\* a connection that may receive, curr_msg_sent is not past last_msg_sent,
\* and they differ only during repair.
QueueConsistent ==
    \A c \in Conns :
        LET k == conn[c]
            q == k.fwd_queue
        IN /\ NoDup(q)
           /\ k.qsize = Len(q)
           /\ k.nip_queue \subseteq Elems(q)
           /\ k.hasnip <=> k.nip_queue # {}
           /\ k.last # NoReq => k.last \in Elems(q)
           /\ k.phase \in Active \cup {"init", "finish", "stolen"} =>
                /\ k.curr # NoReq => k.curr \in Elems(SentPart(k))
                /\ ~k.resend \/ k.qforwd => k.curr = k.last

\* A request is in the forwarding queue of one connection at most, and is
\* in one exactly while no other code owns it: it is never forwarded twice
\* at a time nor freed while it is queued.
InOneQueue ==
    \A r \in Reqs :
        Cardinality({c \in Conns : r \in Elems(conn[c].fwd_queue)}) =
            IF status[r] = "queued" THEN 1 ELSE 0

\* A response is paired with the request that the backend answers with it
\* (tfw_http_resp_pair()), whatever was evicted, re-sent, dropped before it
\* reached TCP, or is paired with a response in front of it.
PairRight ==
    \A c \in Conns :
        LET k == conn[c] IN
        k.phase \in {"up", "closed"} /\ k.wire # <<>> /\ k.sib = NoReq =>
            RespPair(k) = k.wire[1]

\* The comment of tfw_http_on_tcp_entail_req(): the request of data that the
\* socket layer holds, and of a response, is still in the queue.
HeldByQueue ==
    \A c \in Conns :
        LET k == conn[c] IN
        {k.msg, k.sib} \cup Elems(k.tx) \cup Elems(k.wire)
            \subseteq Elems(k.fwd_queue) \cup {NoReq}

\* The comment of tfw_http_conn_treatnip(): among the forwarded requests only
\* last_msg_sent can be non-idempotent.
NipIsLast ==
    \A c \in Conns :
        \A r \in Elems(SentPart(conn[c])) \cap nips : r = conn[c].last

\* Without server_retry_nonidempotent a non-idempotent request is never
\* handed to a backend a second time, over this or another connection.
NipSentOnce == ~RetryNip => \A r \in nips : sends[r] <= 1

\* server_forward_retries: a request is forwarded once and then again up to
\* max_refwd times.  The code does not satisfy it, see README.md.
RetryLimit == \A r \in Reqs : sends[r] <= MaxRefwd + 1

\* The comment of tfw_http_req_fwd_send(): TFW_CONN_B_UNSCHED is cleared if
\* the upgrade fails, so an established connection has the flag only while
\* an upgrade request is in its queue.  The code does not satisfy it, see
\* README.md.
UnschedMeansUpgrade ==
    \A c \in Conns :
        conn[c].phase = "up" /\ conn[c].unsched =>
            Elems(conn[c].fwd_queue) \cap Upgrade # {}

\* The comment of tfw_http_resp_process(): after a response that cannot be
\* parsed the connection with the backend is closed and established again.
BadRespCloses ==
    \A c \in Conns : conn[c].phase = "stopped" ~> conn[c].phase # "stopped"

\* Every request that was put into a forwarding queue is answered, gets an
\* error response, or is freed with its client.
RequestFinishes ==
    \A r \in Reqs : status[r] = "queued" ~> status[r] \in Finished

\* The comment of tfw_http_conn_repair(): the response to the request that
\* was re-sent first triggers the rest, so the repair of an established
\* connection ends, and the connection is scheduled again or lost.
RepairCompletes ==
    \A c \in Conns :
        conn[c].phase = "up" /\ conn[c].resend ~>
            ~(conn[c].phase = "up" /\ conn[c].resend)

-----------------------------------------------------------------------------
(***************************************************************************)
(* The inductive invariant behind the safety properties.  The order of the *)
(* requests in a queue is stated as a relation: requests leave a queue at  *)
(* any place.                                                              *)
(***************************************************************************)
Before(s, a, b) == \E i, j \in DOMAIN s : i < j /\ s[i] = a /\ s[j] = b
UpTo(s, r) == {a \in Elems(s) : a = r \/ Before(s, a, r)}

\* The queue, its counter and the list of non-idempotent requests.
ListInv(k, N) ==
    /\ NoDup(k.fwd_queue)
    /\ k.qsize = Len(k.fwd_queue)
    /\ k.nip_queue \subseteq Elems(k.fwd_queue)
    /\ Elems(k.fwd_queue) \cap N \subseteq k.nip_queue
    /\ k.hasnip <=> k.nip_queue # {}

\* Only the first request is sent again before its response has come.
Probing(k) == k.resend /\ ~k.qforwd

PtrInv(k) ==
    /\ k.last # NoReq => k.last \in Elems(k.fwd_queue)
    /\ k.curr # NoReq => k.curr \in UpTo(k.fwd_queue, k.last)
    /\ k.phase # "dead" /\ ~Probing(k) => k.curr = k.last
    /\ k.phase # "dead" /\ Probing(k) => UpTo(k.fwd_queue, k.curr) \subseteq {k.curr}
    /\ k.phase = "init" => Probing(k) /\ k.curr = NoReq
    /\ k.phase = "dead" => ~k.resend /\ ~k.qforwd
    /\ k.phase \in Active \cup {"stolen"} /\ Probing(k) => ~k.unsched

\* What the backend has not answered, and what the socket holds behind it.
Some(r) == IF r = NoReq THEN <<>> ELSE <<r>>
Front(k) == Some(k.msg) \o Some(k.sib) \o k.wire
Flight(k) == Front(k) \o k.tx

\* Answers come for the first requests of the queue.  As long as nothing is
\* dropped, what is in flight are the requests up to curr_msg_sent.
FlightInv(k) ==
    /\ \A a, b \in Reqs : Before(Flight(k), a, b) => Before(k.fwd_queue, a, b)
    /\ \A a, b \in Reqs : Before(k.fwd_queue, a, b) /\ b \in Elems(Front(k))
                             => a \in Elems(Front(k))
    /\ Elems(Flight(k)) \subseteq UpTo(k.fwd_queue, k.curr)
    /\ k.phase \in {"finish", "up"} =>
          UpTo(k.fwd_queue, k.curr) \subseteq Elems(Flight(k))

\* What the socket holds in each phase.
SockInv(k) ==
    /\ k.msg = NoReq => k.sib = NoReq
    /\ k.phase \in {"finish", "stolen"} => Front(k) = <<>>
    /\ k.phase = "closed" => k.tx = <<>>
    /\ k.phase \in {"dead", "init", "dropped", "gone"} => Flight(k) = <<>>
    /\ k.phase \in {"closing", "stopped"} => k.wire = <<>>

\* At most the last of the sent requests is non-idempotent.
NipInv(k, N) ==
    /\ Elems(k.fwd_queue) \cap Upgrade \subseteq N
    /\ UpTo(k.fwd_queue, k.last) \cap N \subseteq {k.last}

\* It is not there to be sent again, unless the configuration says so.
RetryInv(k, N) ==
    ~RetryNip /\ Probing(k) /\ k.phase # "init" =>
        UpTo(k.fwd_queue, k.last) \cap N = {}

\* With N the requests that are non-idempotent.
BaseInv(k, N) ==
    ListInv(k, N) /\ PtrInv(k) /\ FlightInv(k) /\ SockInv(k) /\ NipInv(k, N)
ConnInv(k, N) == BaseInv(k, N) /\ RetryInv(k, N)

\* A reference keeps a connection from being released.
PickInv(r) ==
    /\ status[r] \in {"picked", "repicked"} <=> pick[r] # NoConn
    /\ pick[r] # NoConn =>
          /\ ~conn[pick[r]].resend
          /\ conn[pick[r]].phase \notin {"dead", "init", "gone"}

OwnInv ==
    \A r \in Reqs :
        /\ status[r] = "queued" <=> \E c \in Conns : r \in Elems(conn[c].fwd_queue)
        /\ \A c, d \in Conns :
              r \in Elems(conn[c].fwd_queue) \cap Elems(conn[d].fwd_queue) => c = d

\* A non-idempotent request that was sent is behind last_msg_sent or on a list
\* to be re-scheduled, which will not take it.
SentInv ==
    /\ \A r \in Upgrade : Pending(r) => r \in nips
    /\ ~RetryNip =>
          \A r \in nips :
            /\ sends[r] <= 1
            /\ sends[r] = 1 =>
                 \/ status[r] = "resched"
                 \/ \E c \in Conns : r \in UpTo(conn[c].fwd_queue, conn[c].last)

IInv ==
    /\ TypeOK /\ AssertionsHold /\ OwnInv /\ SentInv
    /\ \A r \in Reqs : PickInv(r)
    /\ \A c \in Conns : ConnInv(conn[c], nips)

==============================================================================
