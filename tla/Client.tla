------------------------------ MODULE Client ------------------------------
(***************************************************************************)
(* Clients (fw/client.c), their records in TDB (db/core), the accounting   *)
(* of their connections (fw/http_limits.c) and of the memory they use.     *)
(*                                                                         *)
(* A client is a record of the table that is shared by the connections     *)
(* from one address.  The record is freed with its last reference; the     *)
(* list of recent clients holds one.  Its memory counter outlives it: the  *)
(* buffers still in use hold references to the counter, not to the client. *)
(* Addresses fall into different buckets of the table.                     *)
(***************************************************************************)
EXTENDS Integers, Sequences, FiniteSets

CONSTANTS
    Addrs,      \* addresses of peers
    Socks,      \* sockets
    Bufs,       \* pools and socket buffers that are charged to a client
    LruSize,    \* client_lru_size: clients in the list, counters in the pool
    MaxSlab,    \* bound: counters from the slab cache
    MaxRecs     \* bound: records created

ASSUME LruAssumption == LruSize \in Nat \ {0}
ASSUME BoundAssumption == MaxSlab \in Nat /\ MaxRecs \in Nat
ASSUME FiniteAssumption == IsFiniteSet(Socks) /\ IsFiniteSet(Bufs)

Pool == 1..LruSize
Mems == 1..(LruSize + MaxSlab)
Recs == 1..MaxRecs

VARIABLES
    recs,       \* records: state, address, refcnt, in its bucket or not,
                \*   conn_curr and memory counter
    lru,        \* client_lru, the most recent client first
    mem,        \* memory counters: state and references
    free_list,  \* cli_mem_pool.free_list
    works,      \* counters whose kill_work is scheduled
    pending,    \* shutdown_pending
    sk,         \* sockets: state and class_prvt
    buf,        \* the counter a buffer is charged to, or 0
    stage,      \* progress of the shutdown
    raced       \* a record was taken that is being freed: what its users do
                \*   from now on is undefined, and the model stops

vars == <<recs, lru, mem, free_list, works, pending, sk, buf, stage, raced>>

NoRec == [st |-> "none", addr |-> 0, refcnt |-> 0, linked |-> FALSE,
          curr |-> 0, mem |-> 0]
NoSk  == [st |-> "none", rec |-> 0]

\* Everything but sockets and buffers, for helpers that change much of it.
State == [recs |-> recs, lru |-> lru, mem |-> mem, free |-> free_list,
          works |-> works, pending |-> pending]

Becomes(s) ==
    /\ recs' = s.recs /\ lru' = s.lru /\ mem' = s.mem
    /\ free_list' = s.free /\ works' = s.works /\ pending' = s.pending

-----------------------------------------------------------------------------
\* The memory counters.

\* Mutant: only a counter of the pool is taken off the pending ones.
MemReleasePool(s, m) ==
    IF m \in Pool
    THEN [s EXCEPT !.mem[m] = [st |-> "free", refs |-> 1],
                   !.free = <<m>> \o @, !.pending = @ - 1]
    ELSE [s EXCEPT !.mem[m] = [st |-> "none", refs |-> 0]]

\* cli_mem_release(): back to the pool with a new reference, or to the slab.
MemRelease(s, m) ==
    [s EXCEPT !.mem[m] = IF m \in Pool THEN [st |-> "free", refs |-> 1]
                         ELSE [st |-> "none", refs |-> 0],
              !.free = IF m \in Pool THEN <<m>> \o @ ELSE @,
              !.pending = @ - 1]

\* percpu_ref_put(), n times.
MemPutN(s, m, n) ==
    IF s.mem[m].refs = n THEN MemRelease([s EXCEPT !.mem[m].refs = 0], m)
    ELSE [s EXCEPT !.mem[m].refs = @ - n]

\* tfw_cli_mem_alloc(): the counters that may be given out, 0 if the slab
\* cache has none; the second reference is the client's.
MemAlloc(s) ==
    IF s.free # <<>> THEN {Head(s.free)}
    ELSE {0} \cup {m \in Mems \ Pool : s.mem[m].st = "none"}

-----------------------------------------------------------------------------
\* Records.

\* The record leaves its bucket and is freed with tfw_client_free(), which
\* leaves the memory counter to a work.
RecFree(s, r) ==
    [s EXCEPT !.recs[r] = [@ EXCEPT !.st = "freed", !.linked = FALSE],
              !.works = @ \cup {s.recs[r].mem},
              !.pending = @ + 1]

\* tdb_htrie_put_rec() where nobody can look the record up meanwhile.
RecPut(s, r) ==
    IF s.recs[r].refcnt = 1 THEN RecFree([s EXCEPT !.recs[r].refcnt = 0], r)
    ELSE [s EXCEPT !.recs[r].refcnt = @ - 1]

\* Mutant: the reference of the list is not dropped.
UpdateLruKeeps(s, r) ==
    IF Len(s.lru) >= LruSize
    THEN [s EXCEPT !.lru = <<r>> \o SubSeq(@, 1, Len(@) - 1)]
    ELSE [s EXCEPT !.lru = <<r>> \o @]

\* tfw_client_update_lru(): the oldest client makes room for the new one.
UpdateLru(s, r) ==
    LET last == s.lru[Len(s.lru)] IN
    IF Len(s.lru) >= LruSize
    THEN RecPut([s EXCEPT !.lru = <<r>> \o SubSeq(@, 1, Len(@) - 1)], last)
    ELSE [s EXCEPT !.lru = <<r>> \o @]

\* tdb_rec_get_alloc() and tfw_client_ent_init() create a record with counter
\* m and two references, of the caller and of the list.
RecNew(s, r, a, m) ==
    UpdateLru(
        [recs |-> [s.recs EXCEPT ![r] =
                      [st |-> "live", addr |-> a, refcnt |-> 2, linked |-> TRUE,
                       curr |-> 0, mem |-> m]],
         lru |-> s.lru,
         mem |-> [s.mem EXCEPT ![m] =
                      [st |-> "used", refs |-> IF m \in Pool THEN @.refs + 1 ELSE 2]],
         free |-> IF m \in Pool THEN Tail(s.free) ELSE s.free,
         works |-> s.works, pending |-> s.pending], r)

\* The record that a lookup finds: it is in its bucket, whatever its refcnt.
Found(a) == {r \in Recs : recs[r].st = "live" /\ recs[r].linked /\ recs[r].addr = a}

-----------------------------------------------------------------------------
\* Connections.

\* frang_conn_new() with a known client.
ConnKnown(s, a) ==
    /\ ~raced
    /\ stage = "run"
    /\ sk[s] = NoSk
    /\ \E r \in Found(a) :
           /\ recs' = [recs EXCEPT ![r].refcnt = @ + 1, ![r].curr = @ + 1]
           /\ sk' = [sk EXCEPT ![s] = [st |-> "open", rec |-> r]]
           /\ raced' = (recs[r].refcnt = 0)
    /\ UNCHANGED <<lru, mem, free_list, works, pending, buf, stage>>

\* frang_conn_new() with a new client.  Without memory for it the record that
\* was allocated is removed at once, and the connection is blocked.
ConnNew(s, a) ==
    /\ ~raced
    /\ stage = "run"
    /\ sk[s] = NoSk
    /\ Found(a) = {}
    /\ \E r \in Recs, m \in MemAlloc(State) :
           /\ recs[r] = NoRec
           /\ \A q \in Recs : q < r => recs[q] # NoRec
           /\ m # 0
           /\ LET n == RecNew(State, r, a, m)
              IN  Becomes([n EXCEPT !.recs[r].curr = 1])
           /\ sk' = [sk EXCEPT ![s] = [st |-> "open", rec |-> r]]
    /\ UNCHANGED <<buf, stage, raced>>

\* tfw_classify_conn_close(), whichever of the ways to close led there: the
\* counter, and tfw_client_put() with the atomic decrement.
ConnClose(s) ==
    LET r == sk[s].rec IN
    /\ ~raced
    /\ sk[s].st = "open"
    /\ recs' = [recs EXCEPT ![r].curr = @ - 1, ![r].refcnt = @ - 1]
    /\ sk' = [sk EXCEPT ![s] = IF recs[r].refcnt = 1 THEN [st |-> "put", rec |-> r]
                               ELSE NoSk]
    /\ UNCHANGED <<lru, mem, free_list, works, pending, buf, stage, raced>>

\* The last reference is gone: the lock of the bucket is taken, the record
\* removed and freed.
ConnFree(s) ==
    /\ ~raced
    /\ sk[s].st = "put"
    /\ Becomes(RecFree(State, sk[s].rec))
    /\ sk' = [sk EXCEPT ![s] = NoSk]
    /\ UNCHANGED <<buf, stage, raced>>

\* A pool or a buffer of a request is charged to the client of a connection.
BufGet(b, s) ==
    LET m == recs[sk[s].rec].mem IN
    /\ ~raced
    /\ sk[s].st = "open"
    /\ buf[b] = 0
    /\ buf' = [buf EXCEPT ![b] = m]
    /\ mem' = [mem EXCEPT ![m].refs = @ + 1]
    /\ UNCHANGED <<recs, lru, free_list, works, pending, sk, stage, raced>>

\* It is freed, perhaps long after the connection.
BufPut(b) ==
    /\ ~raced
    /\ buf[b] # 0
    /\ Becomes(MemPutN(State, buf[b], 1))
    /\ buf' = [buf EXCEPT ![b] = 0]
    /\ UNCHANGED <<sk, stage, raced>>

\* tfw_cli_mem_kill_work_fn(): the first reference and the client's.
KillWork(m) ==
    /\ ~raced
    /\ m \in works
    /\ Becomes(MemPutN([State EXCEPT !.works = @ \ {m}], m, 2))
    /\ UNCHANGED <<sk, buf, stage, raced>>

-----------------------------------------------------------------------------
\* tfw_client_stop(), after all client sockets are closed.

Stop ==
    /\ ~raced
    /\ stage = "run"
    /\ stage' = "stop"
    /\ UNCHANGED <<recs, lru, mem, free_list, works, pending, sk, buf, raced>>

\* tfw_client_free_lru(): each client of the list is taken off and put, all of
\* it under ga_lock; no two clients share a memory counter.
FreeLru ==
    LET listed == {lru[i] : i \in DOMAIN lru}
        gone   == {r \in listed : recs[r].refcnt = 1}
    IN
    /\ ~raced
    /\ stage = "stop"
    /\ \A s \in Socks : sk[s] = NoSk
    /\ recs' = [r \in Recs |->
           IF r \in gone THEN [recs[r] EXCEPT !.refcnt = 0, !.st = "freed", !.linked = FALSE]
           ELSE IF r \in listed THEN [recs[r] EXCEPT !.refcnt = @ - 1]
           ELSE recs[r]]
    /\ works' = works \cup {recs[r].mem : r \in gone}
    /\ pending' = pending + Cardinality(gone)
    /\ lru' = <<>>
    /\ stage' = "wait"
    /\ UNCHANGED <<mem, free_list, sk, buf, raced>>

\* Mutant: only the works are waited for, not the buffers.
PoolExitEarly ==
    /\ stage = "wait"
    /\ works = {}
    /\ stage' = "down"
    /\ UNCHANGED <<recs, lru, mem, free_list, works, pending, sk, buf, raced>>

\* Nothing is pending: the pool is given back.
PoolExit ==
    /\ ~raced
    /\ stage = "wait"
    /\ pending = 0
    /\ stage' = "down"
    /\ UNCHANGED <<recs, lru, mem, free_list, works, pending, sk, buf, raced>>

-----------------------------------------------------------------------------
Init ==
    /\ recs = [r \in Recs |-> NoRec]
    /\ lru = <<>>
    /\ mem = [m \in Mems |-> IF m \in Pool THEN [st |-> "free", refs |-> 1]
                             ELSE [st |-> "none", refs |-> 0]]
    /\ free_list = [i \in Pool |-> i]
    /\ works = {}
    /\ pending = 0
    /\ sk = [s \in Socks |-> NoSk]
    /\ buf = [b \in Bufs |-> 0]
    /\ stage = "run"
    /\ raced = FALSE

Next ==
    \/ \E s \in Socks, a \in Addrs : ConnKnown(s, a) \/ ConnNew(s, a)
    \/ \E s \in Socks : ConnClose(s) \/ ConnFree(s)
    \/ \E b \in Bufs, s \in Socks : BufGet(b, s)
    \/ \E b \in Bufs : BufPut(b)
    \/ \E m \in Mems : KillWork(m)
    \/ Stop \/ FreeLru \/ PoolExit

\* Once the system stops, sockets are closed, buffers in flight are freed and
\* works are executed.
Fairness ==
    /\ \A s \in Socks : WF_vars(stage = "stop" /\ ConnClose(s)) /\ WF_vars(ConnFree(s))
    /\ \A b \in Bufs : WF_vars(stage # "run" /\ BufPut(b))
    /\ \A m \in Mems : WF_vars(KillWork(m))
    /\ WF_vars(FreeLru) /\ WF_vars(PoolExit)

Spec == Init /\ [][Next]_vars /\ Fairness

-----------------------------------------------------------------------------
\* Properties

Open(k, r)    == {s \in Socks : k[s].st = "open" /\ k[s].rec = r}
Charged(u, m) == {b \in Bufs : u[b] = m}
InLru(l, r)   == \E i \in DOMAIN l : l[i] = r
Owned(R, m)   == \E r \in Recs : R[r].st = "live" /\ R[r].mem = m

\* The references of a client are those of its open sockets and of the list of
\* recent clients, and conn_curr is the number of the former: the BUG_ON() of
\* tfw_classify_conn_close() and the WARN_ON() of tfw_client_free() never fire.
\* The references of a memory counter are those of its buffers, plus two until
\* the work of its client has run.
RefsExact ==
    /\ \A r \in Recs : recs[r].st = "live" =>
           /\ recs[r].curr = Cardinality(Open(sk, r))
           /\ recs[r].refcnt = Cardinality(Open(sk, r)) + IF InLru(lru, r) THEN 1 ELSE 0
    /\ \A m \in Mems : mem[m].st = "used" =>
           mem[m].refs = Cardinality(Charged(buf, m))
               + IF m \in works \/ Owned(recs, m) THEN 2 ELSE 0

\* When the pool is given back all of it is in the free list and nothing refers
\* to a counter: tfw_client_stop() waited for every work and every buffer.
PoolWhole ==
    stage = "down" =>
        /\ Len(free_list) = LruSize
        /\ {free_list[i] : i \in DOMAIN free_list} = Pool
        /\ works = {}
        /\ \A b \in Bufs : buf[b] = 0

\* The wait for shutdown_pending ends.
StopCompletes == stage = "stop" ~> stage = "down"

\* A client with an open connection is not freed, nor is its memory counter
\* dead: "We hold the client reference counter here due to active connections,
\* so this situation is impossible" (tfw_http_conn_msg_alloc()).
ClientAlive ==
    \A s \in Socks : sk[s].st = "open" =>
        \A t \in Socks : ~(sk[t].st = "put" /\ sk[t].rec = sk[s].rec)

-----------------------------------------------------------------------------
(* The inductive invariant behind RefsExact and PoolWhole.  Its parts are    *)
(* about values, so that a step can be followed through its helpers: records *)
(* R, list l, sockets k, counters M, free list f, works W, number n of       *)
(* pending counters and charges u of buffers.                                *)

Clients  == [st : {"none", "live", "freed"}, addr : Addrs \cup {0}, refcnt : Int,
             linked : BOOLEAN, curr : Int, mem : Mems \cup {0}]
Counters == [st : {"none", "free", "used"}, refs : Int]
Sockets  == {NoSk} \cup [st : {"open", "put"}, rec : Recs]

TypeOK ==
    /\ recs \in [Recs -> Clients]
    /\ lru \in Seq(Recs)
    /\ mem \in [Mems -> Counters]
    /\ free_list \in Seq(Pool)
    /\ works \in SUBSET Mems
    /\ pending \in Int
    /\ sk \in [Socks -> Sockets]
    /\ buf \in [Bufs -> Mems \cup {0}]
    /\ stage \in {"run", "stop", "wait", "down"}
    /\ raced \in BOOLEAN

\* The list and the sockets hold references to live clients, and these are all.
Referenced(R, l, k) ==
    /\ \A i \in 1..Len(l) : R[l[i]].st = "live"
    /\ \A i, j \in 1..Len(l) : l[i] = l[j] => i = j
    /\ \A s \in Socks : k[s].st # "none" => R[k[s].rec].st = "live"
    /\ \A r \in Recs : R[r].st = "live" =>
           /\ R[r].curr = Cardinality(Open(k, r))
           /\ R[r].refcnt = Cardinality(Open(k, r)) + IF InLru(l, r) THEN 1 ELSE 0

\* A client without references is about to be freed, by one socket.
Dropped(R, k) ==
    /\ \A s \in Socks : k[s].st = "put" => R[k[s].rec].refcnt = 0
    /\ \A s, t \in Socks : k[s].st = "put" /\ k[t].st = "put" /\ k[s].rec = k[t].rec
                           => s = t
    /\ \A r \in Recs : R[r].st = "live" /\ R[r].refcnt = 0
                       => \E s \in Socks : k[s].st = "put" /\ k[s].rec = r

\* Every live client has a counter of its own, whose work is not scheduled.
OwnCounters(R, M, W) ==
    /\ \A r \in Recs : R[r].st = "live" =>
           R[r].mem \in Mems /\ M[R[r].mem].st = "used" /\ R[r].mem \notin W
    /\ \A r, q \in Recs : R[r].st = "live" /\ R[q].st = "live" /\ R[r].mem = R[q].mem
                          => r = q

\* Works and buffers refer to counters in use, whose references are exact.
InUse(R, M, W, u) ==
    /\ \A m \in W : M[m].st = "used"
    /\ \A b \in Bufs : u[b] # 0 => M[u[b]].st = "used"
    /\ \A m \in Mems : M[m].st = "used" =>
           M[m].refs = Cardinality(Charged(u, m)) + IF m \in W \/ Owned(R, m) THEN 2 ELSE 0

\* The free list is what is not in use of the pool.
FreeRight(M, f) ==
    /\ \A m \in Pool : M[m].st # "used" =>
           M[m] = [st |-> "free", refs |-> 1] /\ \E i \in 1..Len(f) : f[i] = m
    /\ \A i \in 1..Len(f) : M[f[i]].st = "free"
    /\ \A i, j \in 1..Len(f) : f[i] = f[j] => i = j
    /\ \A m \in Mems \ Pool : M[m].st # "free"

\* shutdown_pending counts the counters in use that have lost their client.
Orphans(R, M) == {m \in Mems : M[m].st = "used" /\ ~Owned(R, m)}

Stopped ==
    /\ stage \in {"wait", "down"} =>
           /\ lru = <<>>
           /\ \A s \in Socks : sk[s] = NoSk
           /\ \A r \in Recs : recs[r].st # "live"
    /\ stage = "down" => pending = 0

IInv ==
    /\ TypeOK
    /\ Referenced(recs, lru, sk)
    /\ ~raced => Dropped(recs, sk)
    /\ OwnCounters(recs, mem, works)
    /\ InUse(recs, mem, works, buf)
    /\ FreeRight(mem, free_list)
    /\ pending = Cardinality(Orphans(recs, mem))
    /\ Stopped
=============================================================================
