------------------------------- MODULE Frang -------------------------------
(***************************************************************************)
(* Rate limits of one client (fw/http_limits.c) and of the control frames  *)
(* of one of its HTTP/2 connections (fw/http_frame.c).                     *)
(*                                                                         *)
(* Every limit counts events in a ring of FRANG_FREQ slots.  A slot is     *)
(* stamped with the time quantum it counts and starts over when an event   *)
(* of a later quantum falls into it.  Four kinds of events share the ring  *)
(* of the client; new connections and requests find out the quantum before *)
(* they take the lock of the ring, so an event may be counted after events *)
(* of later quanta.                                                        *)
(***************************************************************************)
EXTENDS Integers, FiniteSets, FiniteSetsExt

CONSTANTS
    Freq,       \* FRANG_FREQ
    HZ,         \* jiffies in a second
    ConnTf,     \* conn_rate_tf: jiffies in a quantum of new connections
    ReqTf,      \* req_rate_tf
    RespTf,     \* http_resp_code_block.tf
    ConnMax,    \* conn_max, 0 is no limit
    Rate,       \* kinds of events -> events allowed in a frame
    Burst,      \* kinds of events -> events allowed in a quantum, or 0
    Cpus,       \* CPUs that receive data of the client
    MaxDelay,   \* bound: jiffies that a CPU waits for the lock
    MaxTime,    \* bound: jiffies
    MaxEvents   \* bound: events

HistKinds == {"conn_new", "req", "tls_sess_new", "tls_sess_incomplete"}
RespKinds == {"resp"}
JsKinds   == {"miss"}
CtrlKinds == {"ping", "rst"}
Kinds     == HistKinds \cup RespKinds \cup JsKinds \cup CtrlKinds

\* Frames that differ make the kinds of one ring clear each other's counters:
\* a known divergence.  A frame of one second is the default of all of them.
ASSUME SameFrames ==
    /\ Freq \in Nat \ {0} /\ ConnTf \in Nat \ {0}
    /\ HZ = Freq * ConnTf /\ ReqTf = ConnTf

\* A wait shorter than a frame: a CPU spins for a lock that is held for one
\* look at the ring.
ASSUME DelayAssumption == MaxDelay < HZ

VARIABLES
    jiffies,
    ring,       \* kind of ring -> slots: history, resp_code_stat,
                \*   js_histoty and stat of the HTTP/2 context
    conn_curr,
    conns,      \* number of sockets that hold class_prvt
    cpu,        \* what a CPU that waits for the lock has found out
    watched,    \* the ring whose events this behaviour has: rings share no
                \*   state, events of another one would change nothing in it
    log,        \* history: events of each kind in each quantum
    verdict     \* the last event, its quantum and whether it was blocked

vars == <<jiffies, ring, conn_curr, conns, cpu, watched, log, verdict>>

-----------------------------------------------------------------------------

Idle == [kind |-> "none", ts |-> 0, at |-> 0]

\* frang_time_quantum(), and the quantum of limits that are always per second.
TimeQuantum(tf) == jiffies \div tf
Second          == (jiffies * Freq) \div HZ

Quantum(k) == CASE k = "conn_new" -> TimeQuantum(ConnTf)
                [] k = "req"      -> TimeQuantum(ReqTf)
                [] k \in RespKinds -> TimeQuantum(RespTf)
                [] OTHER          -> Second

Ring(k) == CASE k \in HistKinds -> "hist" [] k \in RespKinds -> "resp"
             [] k \in JsKinds -> "js"     [] OTHER -> "ctrl"

\* Mutant: only events that are not later than the current one are in frame.
TimeInFramePast(tcur, tprev) == tprev <= tcur /\ tcur < tprev + Freq

\* frang_time_in_frame()
TimeInFrame(tcur, tprev) == tcur < tprev + Freq

\* Mutant: the counters are kept when a slot starts over.
AccountKeeps(r, k, ts) ==
    [r EXCEPT ![ts % Freq].ts = ts, ![ts % Freq].cnt[k] = @ + 1]

\* An event is counted in the slot of its quantum, as in
\* frang_acc_history_init().  The slots of control frames clear the counter
\* of the frame at hand and keep the other ones.
Account(r, k, ts) ==
    LET i == ts % Freq
        cleared == IF r[i].ts = ts THEN r[i].cnt
                   ELSE IF k \in CtrlKinds THEN [r[i].cnt EXCEPT ![k] = 0]
                   ELSE [x \in DOMAIN r[i].cnt |-> 0]
    IN [r EXCEPT ![i] = [ts |-> ts, cnt |-> [cleared EXCEPT ![k] = @ + 1]]]

\* The loops over the slots.
FrameSum(r, k, ts) ==
    MapThenSumSet(LAMBDA i : r[i].cnt[k],
                  {i \in 0..(Freq - 1) : TimeInFrame(ts, r[i].ts)})

\* A rate of 0 is no limit, but for responses and control frames, whose sums
\* are compared without a test.
Limited(k) == Rate[k] # 0 \/ k \in RespKinds \cup CtrlKinds

\* The comparisons with the burst and with the rate of a kind.
Exceeds(r, k, ts) ==
    \/ Burst[k] # 0 /\ r[ts % Freq].cnt[k] > Burst[k]
    \/ Limited(k) /\ FrameSum(r, k, ts) > Rate[k]

Events == MapThenSumSet(LAMBDA k : MapThenSumSet(LAMBDA t : log[k][t],
                                                 DOMAIN log[k]), Kinds)

NoVerdict == [kind |-> "none", ts |-> 0, block |-> FALSE]

\* An event of kind k and quantum ts is counted, with verdict v.
Count(k, ts, r, v) ==
    /\ Ring(k) = watched
    /\ Events < MaxEvents
    /\ ring' = [ring EXCEPT ![Ring(k)] = r]
    /\ log' = [log EXCEPT ![k][ts] = @ + 1]
    /\ verdict' = v
    /\ UNCHANGED watched

Verdict(k, ts, block) == [kind |-> k, ts |-> ts, block |-> block]

Init ==
    LET Slots(ks) == [i \in 0..(Freq - 1) |->
                        [ts |-> 0, cnt |-> [k \in ks |-> 0]]]
    IN /\ jiffies = HZ
       /\ ring = [hist |-> Slots(HistKinds), resp |-> Slots(RespKinds),
                  js |-> Slots(JsKinds), ctrl |-> Slots(CtrlKinds)]
       /\ conn_curr = 0 /\ conns = 0
       /\ cpu = [c \in Cpus |-> Idle]
       /\ watched \in {"hist", "resp", "js", "ctrl"}
       /\ log = [k \in Kinds |-> [t \in 0..MaxTime |-> 0]]
       /\ verdict = NoVerdict

-----------------------------------------------------------------------------
\* Time passes.  No CPU waits for a lock longer than MaxDelay.
Tick ==
    /\ jiffies < MaxTime
    /\ \A c \in Cpus : cpu[c] # Idle => jiffies - cpu[c].at < MaxDelay
    /\ jiffies' = jiffies + 1
    /\ verdict' = NoVerdict
    /\ UNCHANGED <<ring, conn_curr, conns, cpu, watched, log>>

\* The first lines of frang_conn_limit() and frang_req_limit(): the quantum,
\* before the lock.
FindQuantum(c, k) ==
    /\ cpu[c] = Idle
    /\ watched = Ring(k)
    /\ cpu' = [cpu EXCEPT ![c] = [kind |-> k, ts |-> Quantum(k), at |-> jiffies]]
    /\ verdict' = NoVerdict
    /\ UNCHANGED <<jiffies, ring, conn_curr, conns, watched, log>>

ConnStarts(c) == FindQuantum(c, "conn_new")

\* Without limits frang_req_limit() counts nothing.
ReqStarts(c) ==
    /\ Burst["req"] # 0 \/ Rate["req"] # 0
    /\ FindQuantum(c, "req")

\* frang_conn_limit() under the lock.  A blocked connection is counted, it is
\* closed as any other one.
ConnNew(c) ==
    LET ts == cpu[c].ts
        r  == Account(ring.hist, "conn_new", ts)
        block == \/ ConnMax # 0 /\ conn_curr + 1 > ConnMax
                 \/ Exceeds(r, "conn_new", ts)
    IN /\ cpu[c].kind = "conn_new"
       /\ Count("conn_new", ts, r, Verdict("conn_new", ts, block))
       /\ conn_curr' = conn_curr + 1
       /\ conns' = conns + 1
       /\ cpu' = [cpu EXCEPT ![c] = Idle]
       /\ UNCHANGED jiffies

\* frang_conn_new() of a whitelisted connection: counted, never blocked.
ConnWhitelisted ==
    /\ Count("conn_new", Second, Account(ring.hist, "conn_new", Second),
             NoVerdict)
    /\ conn_curr' = conn_curr + 1
    /\ conns' = conns + 1
    /\ UNCHANGED <<jiffies, cpu>>

\* tfw_classify_conn_close()
ConnClose ==
    /\ conns > 0
    /\ conn_curr' = conn_curr - 1
    /\ conns' = conns - 1
    /\ verdict' = NoVerdict
    /\ UNCHANGED <<jiffies, ring, cpu, watched, log>>

\* frang_req_limit() under the lock.
Req(c) ==
    LET ts == cpu[c].ts
        r  == Account(ring.hist, "req", ts)
    IN /\ cpu[c].kind = "req"
       /\ Count("req", ts, r, Verdict("req", ts, Exceeds(r, "req", ts)))
       /\ cpu' = [cpu EXCEPT ![c] = Idle]
       /\ UNCHANGED <<jiffies, conn_curr, conns>>

\* Limits whose quantum is found out under the lock of the client or of the
\* socket: all of frang_tls_conn_limit(), frang_resp_code_limit(),
\* frang_sticky_cookie_limit() and the limits of control frames.
Locked(k) ==
    LET ts == Quantum(k)
        r  == Account(ring[Ring(k)], k, ts)
    IN /\ Count(k, ts, r, Verdict(k, ts, Exceeds(r, k, ts)))
       /\ UNCHANGED <<jiffies, conn_curr, conns, cpu>>

TlsNew        == Locked("tls_sess_new")
TlsIncomplete == Locked("tls_sess_incomplete")
RespCode      == Locked("resp")
StickyCookie  == Rate["miss"] # 0 /\ Locked("miss")
CtrlFrame(k)  == Locked(k)

\* A resumed TLS session takes its slot over and counts nothing.
TlsResumed ==
    LET i == Second % Freq
    IN /\ watched = "hist"
       /\ ring.hist[i].ts # Second
       /\ ring' = [ring EXCEPT !.hist[i] = [ts |-> Second,
                                            cnt |-> [k \in HistKinds |-> 0]]]
       /\ verdict' = NoVerdict
       /\ UNCHANGED <<jiffies, conn_curr, conns, cpu, watched, log>>

Next ==
    \/ Tick
    \/ \E c \in Cpus : ConnStarts(c)
    \/ \E c \in Cpus : ReqStarts(c)
    \/ \E c \in Cpus : ConnNew(c)
    \/ \E c \in Cpus : Req(c)
    \/ ConnWhitelisted
    \/ ConnClose
    \/ TlsNew
    \/ TlsIncomplete
    \/ TlsResumed
    \/ RespCode
    \/ StickyCookie
    \/ \E k \in CtrlKinds : CtrlFrame(k)

Spec == Init /\ [][Next]_vars

-----------------------------------------------------------------------------

\* The latest quantum of a ring.
Latest(r) == Max({r[i].ts : i \in 0..(Freq - 1)})

\* Events of kind k after quantum a.
Since(k, a) == MapThenSumSet(LAMBDA t : log[k][t], {t \in 0..MaxTime : t > a})

\* The limits are enforced, whatever the order in which CPUs count events of
\* neighbouring quanta: an event that passes leaves no more of its kind than
\* the burst in its quantum and than the rate in the last FRANG_FREQ quanta
\* (frang_conn_limit(), frang_req_limit(), frang_tls_conn_limit(),
\* frang_resp_code_limit(), frang_sticky_cookie_limit(), control frames), and
\* a connection that passes leaves no more sockets than conn_max, the blocked
\* ones that are not closed yet among them.
LimitsEnforced ==
    LET k == verdict.kind
    IN (k # "none" /\ ~verdict.block) =>
         /\ Burst[k] # 0 => log[k][verdict.ts] <= Burst[k]
         /\ Limited(k) => Since(k, Latest(ring[Ring(k)]) - Freq) <= Rate[k]
         /\ (k = "conn_new" /\ ConnMax # 0) => conns <= ConnMax

\* Nobody is blocked for what happened before the frame: there are more events
\* of the kind than the limit since the frame of the blocked one began, or
\* more sockets than conn_max.  Control frames are excepted: their slots keep
\* counters of other frames from a second ago (fw/http_frame.c).
BlocksJustified ==
    LET k == verdict.kind
    IN (k \notin CtrlKinds \cup {"none"} /\ verdict.block) =>
         \/ Burst[k] # 0 /\ log[k][verdict.ts] > Burst[k]
         \/ Limited(k) /\ Since(k, verdict.ts - Freq) > Rate[k]
         \/ k = "conn_new" /\ ConnMax # 0 /\ conns > ConnMax
=============================================================================
