----------------------------- MODULE WorkQueue -----------------------------
(***************************************************************************)
(* The lock-free multi-producer single-consumer ring of fw/work_queue.c.   *)
(*                                                                         *)
(* Every CPU may push; the softirq of one CPU, Home, pops.  One step of    *)
(* the model is one access of the code to memory another CPU may access:   *)
(* a read of head, the store of the per-CPU guard heads[c], a read of      *)
(* tail, the cmpxchg, the copy of the item, the release of the guard, and  *)
(* on the consumer's side every single read of its scan over the guards.   *)
(*                                                                         *)
(* Both operations run with bottom halves disabled, so a push on Home and  *)
(* the pop of Home's softirq never overlap, and a CPU runs one push at a   *)
(* time.                                                                   *)
(***************************************************************************)
EXTENDS Integers, Sequences

CONSTANTS
    Cpus,      \* the online CPUs
    Home,      \* the CPU whose softirq consumes the queue
    Items,     \* the work descriptors that can be pushed
    NoItem,    \* content of a slot nobody has written
    QSize,     \* number of slots
    Budget,    \* reads of a full queue before a push gives up
    LongMax,   \* LONG_MAX, the value of a released guard
    MaxCalls   \* bound of the model: number of pushes started

ASSUME CpusAssumption  == Home \in Cpus
ASSUME ItemsAssumption == NoItem \notin Items
ASSUME QSizeAssumption == QSize \in Nat \ {0}
ASSUME BudgetAssumption == Budget \in Nat \ {0}
ASSUME BoundAssumption == MaxCalls \in Nat /\ LongMax \in Nat /\ MaxCalls < LongMax

VARIABLES
    heads,     \* heads[c]: per-CPU guard
    array,     \* the slots
    last_head, \* the consumer's bound on what it may read
    head, tail,
    pc, h, budget, item, ticket,   \* a producer's control state and locals
    cpc, ctail, toscan, buf,       \* the consumer's control state and locals
    claimed,   \* history: the item of every position, in the order of the cmpxchg
    out,       \* history: the last item popped
    calls      \* number of pushes started

pvars == <<pc, h, budget, item, ticket>>
cvars == <<cpc, ctail, toscan, buf>>
wqvars == <<heads, array, last_head, head, tail, pvars, cvars, claimed, out, calls>>

\* Control points of __tfw_wq_push() and of tfw_wq_pop_ticket().
PushPoints == {"idle", "guard", "tail", "cas", "reread", "copy", "release"}
PopPoints  == {"idle", "head", "scan", "copy", "advance"}

\* Index of a position: head & (q->qsize - 1).
Slot(p) == p % QSize

\* tfw_wq_size(): both counters are read by the caller at its own pace.
Size(t, hd) == IF t > hd THEN 0 ELSE hd - t

\* tfw_wq_init()
Init ==
    /\ heads = [c \in Cpus |-> LongMax]
    /\ array = [s \in 0..(QSize - 1) |-> NoItem]
    /\ last_head = 0 /\ head = 0 /\ tail = 0
    /\ pc = [c \in Cpus |-> "idle"]
    /\ h = [c \in Cpus |-> 0]
    /\ budget = [c \in Cpus |-> Budget]
    /\ item = [c \in Cpus |-> NoItem]
    /\ ticket = [c \in Cpus |-> 0]
    /\ cpc = "idle" /\ ctail = 0 /\ toscan = {} /\ buf = NoItem
    /\ claimed = <<>> /\ out = NoItem /\ calls = 0

-----------------------------------------------------------------------------
(* Plausible bugs of the operations below; each one breaks a property.     *)

\* the guard is not published
PushGuardNone(c) ==
    /\ pc[c] = "guard"
    /\ pc' = [pc EXCEPT ![c] = "tail"]
    /\ UNCHANGED <<heads, array, last_head, head, tail, h, budget, item, ticket, cvars,
                   claimed, out, calls>>

\* the tail is returned as the ticket instead of the head
PushTailWrongTicket(c) ==
    /\ pc[c] = "tail"
    /\ IF h[c] = tail + QSize
       THEN /\ budget' = [budget EXCEPT ![c] = @ - 1]
            /\ IF budget[c] - 1 # 0
               THEN /\ pc' = [pc EXCEPT ![c] = "reread"]
                    /\ UNCHANGED ticket
               ELSE /\ pc' = [pc EXCEPT ![c] = "release"]
                    /\ ticket' = [ticket EXCEPT ![c] = tail]
       ELSE /\ pc' = [pc EXCEPT ![c] = "cas"]
            /\ UNCHANGED <<budget, ticket>>
    /\ UNCHANGED <<heads, array, last_head, head, tail, h, item, cvars, claimed, out, calls>>

\* the guard is dropped when the push loops
PushRereadUnguarded(c) ==
    /\ pc[c] = "reread"
    /\ h' = [h EXCEPT ![c] = head]
    /\ heads' = [heads EXCEPT ![c] = LongMax]
    /\ pc' = [pc EXCEPT ![c] = "tail"]
    /\ UNCHANGED <<array, last_head, head, tail, budget, item, ticket, cvars,
                   claimed, out, calls>>

\* a plain store in the place of the cmpxchg
PushCasPlain(c) ==
    /\ pc[c] = "cas"
    /\ head' = h[c] + 1
    /\ claimed' = Append(claimed, item[c])
    /\ pc' = [pc EXCEPT ![c] = "copy"]
    /\ UNCHANGED <<heads, array, last_head, tail, h, budget, item, ticket, cvars, out, calls>>

\* the guard is never released
PushReleaseKept(c) ==
    /\ pc[c] = "release"
    /\ pc' = [pc EXCEPT ![c] = "idle"]
    /\ UNCHANGED <<heads, array, last_head, head, tail, h, budget, item, ticket, cvars,
                   claimed, out, calls>>

-----------------------------------------------------------------------------
(* __tfw_wq_push() *)

\* Entry: disable bottom halves, read the shared head.
PushBegin(c, it) ==
    /\ pc[c] = "idle"
    /\ c = Home => cpc = "idle"
    /\ calls < MaxCalls
    /\ calls' = calls + 1
    /\ h' = [h EXCEPT ![c] = head]
    /\ item' = [item EXCEPT ![c] = it]
    /\ budget' = [budget EXCEPT ![c] = Budget]
    /\ pc' = [pc EXCEPT ![c] = "guard"]
    /\ UNCHANGED <<heads, array, last_head, head, tail, ticket, cvars, claimed, out>>

\* Publish the guard, a separate store after the read of head.
PushGuard(c) ==
    /\ pc[c] = "guard"
    /\ heads' = [heads EXCEPT ![c] = h[c]]
    /\ pc' = [pc EXCEPT ![c] = "tail"]
    /\ UNCHANGED <<array, last_head, head, tail, h, budget, item, ticket, cvars,
                   claimed, out, calls>>

\* Read tail; on a full queue spend one unit of budget, at the last one give
\* up with the head that was read as the ticket.
PushTail(c) ==
    /\ pc[c] = "tail"
    /\ IF h[c] = tail + QSize
       THEN /\ budget' = [budget EXCEPT ![c] = @ - 1]
            /\ IF budget[c] - 1 # 0
               THEN /\ pc' = [pc EXCEPT ![c] = "reread"]
                    /\ UNCHANGED ticket
               ELSE /\ pc' = [pc EXCEPT ![c] = "release"]
                    /\ ticket' = [ticket EXCEPT ![c] = h[c]]
       ELSE /\ pc' = [pc EXCEPT ![c] = "cas"]
            /\ UNCHANGED <<budget, ticket>>
    /\ UNCHANGED <<heads, array, last_head, head, tail, h, item, cvars, claimed, out, calls>>

\* The loop's re-read of head; the guard keeps its first value.
PushReread(c) ==
    /\ pc[c] = "reread"
    /\ h' = [h EXCEPT ![c] = head]
    /\ pc' = [pc EXCEPT ![c] = "tail"]
    /\ UNCHANGED <<heads, array, last_head, head, tail, budget, item, ticket, cvars,
                   claimed, out, calls>>

\* atomic64_cmpxchg(&q->head, head, head + 1)
PushCas(c) ==
    /\ pc[c] = "cas"
    /\ IF head = h[c]
       THEN /\ head' = head + 1
            /\ claimed' = Append(claimed, item[c])
            /\ pc' = [pc EXCEPT ![c] = "copy"]
       ELSE /\ pc' = [pc EXCEPT ![c] = "reread"]
            /\ UNCHANGED <<head, claimed>>
    /\ UNCHANGED <<heads, array, last_head, tail, h, budget, item, ticket, cvars, out, calls>>

\* memcpy() of the item into the acquired slot.
PushCopy(c) ==
    /\ pc[c] = "copy"
    /\ array' = [array EXCEPT ![Slot(h[c])] = item[c]]
    /\ ticket' = [ticket EXCEPT ![c] = 0]
    /\ pc' = [pc EXCEPT ![c] = "release"]
    /\ UNCHANGED <<heads, last_head, head, tail, h, budget, item, cvars, claimed, out, calls>>

\* Release the guard, enable bottom halves and return the ticket.
PushRelease(c) ==
    /\ pc[c] = "release"
    /\ heads' = [heads EXCEPT ![c] = LongMax]
    /\ pc' = [pc EXCEPT ![c] = "idle"]
    /\ UNCHANGED <<array, last_head, head, tail, h, budget, item, ticket, cvars,
                   claimed, out, calls>>

PushStep(c) ==
    \/ PushGuard(c) \/ PushTail(c) \/ PushReread(c)
    \/ PushCas(c) \/ PushCopy(c) \/ PushRelease(c)

-----------------------------------------------------------------------------
(* tfw_wq_pop_ticket() *)

\* Entry: bottom halves are disabled on Home, so no push of Home is under way.
\* tail and last_head are written by the consumer only.
PopBegin ==
    /\ cpc = "idle"
    /\ pc[Home] = "idle"
    /\ ctail' = tail
    /\ cpc' = IF tail >= last_head THEN "head" ELSE "copy"
    /\ UNCHANGED <<heads, array, last_head, head, tail, pvars, toscan, buf,
                   claimed, out, calls>>

\* Refresh last_head from the shared head...
PopHead ==
    /\ cpc = "head"
    /\ last_head' = head
    /\ toscan' = Cpus
    /\ cpc' = "scan"
    /\ UNCHANGED <<heads, array, head, tail, pvars, ctail, buf, claimed, out, calls>>

\* ...then lower it to the guards of all CPUs, read one after another (the
\* model lets the scan visit the CPUs in any order).
PopScan(c) ==
    /\ cpc = "scan"
    /\ c \in toscan
    /\ last_head' = IF heads[c] < last_head THEN heads[c] ELSE last_head
    /\ toscan' = toscan \ {c}
    /\ UNCHANGED <<heads, array, head, tail, pvars, cpc, ctail, buf, claimed, out, calls>>

\* Second try: return -EBUSY ...
PopBusy ==
    /\ cpc = "scan" /\ toscan = {}
    /\ ctail >= last_head
    /\ cpc' = "idle"
    /\ UNCHANGED <<heads, array, last_head, head, tail, pvars, ctail, toscan, buf,
                   claimed, out, calls>>

\* ... or go on to fetch the item.
PopReady ==
    /\ cpc = "scan" /\ toscan = {}
    /\ ctail < last_head
    /\ cpc' = "copy"
    /\ UNCHANGED <<heads, array, last_head, head, tail, pvars, ctail, toscan, buf,
                   claimed, out, calls>>

\* memcpy() out of the slot.
PopCopy ==
    /\ cpc = "copy"
    /\ buf' = array[Slot(ctail)]
    /\ cpc' = "advance"
    /\ UNCHANGED <<heads, array, last_head, head, tail, pvars, ctail, toscan,
                   claimed, out, calls>>

\* Give the slot back and return the item.
PopAdvance ==
    /\ cpc = "advance"
    /\ tail' = ctail + 1
    /\ out' = buf
    /\ cpc' = "idle"
    /\ UNCHANGED <<heads, array, last_head, head, pvars, ctail, toscan, buf, claimed, calls>>

PopStep ==
    \/ PopHead \/ (\E c \in Cpus : PopScan(c)) \/ PopBusy \/ PopReady
    \/ PopCopy \/ PopAdvance

Next ==
    \/ \E c \in Cpus : (\E it \in Items : PushBegin(c, it)) \/ PushStep(c)
    \/ PopBegin \/ PopStep

\* A push or a pop that has started runs to its end: both are straight code
\* with bottom halves disabled.  The softirq polls the queue while it is not
\* empty; nobody is obliged to push.
Fairness ==
    /\ \A c \in Cpus : WF_wqvars(PushStep(c))
    /\ WF_wqvars(PopBegin \/ PopStep)

Spec == Init /\ [][Next]_wqvars
FairSpec == Spec /\ Fairness

-----------------------------------------------------------------------------
\* Every variable has its type; the budget of a push stays within its bound.
TypeOK ==
    /\ heads \in [Cpus -> Nat]
    /\ array \in [0..(QSize - 1) -> Items \cup {NoItem}]
    /\ head \in Nat /\ tail \in Nat /\ last_head \in Nat
    /\ pc \in [Cpus -> PushPoints]
    /\ h \in [Cpus -> Nat]
    /\ budget \in [Cpus -> 0..Budget]
    /\ item \in [Cpus -> Items \cup {NoItem}]
    /\ ticket \in [Cpus -> Nat]
    /\ cpc \in PopPoints
    /\ ctail \in Nat
    /\ toscan \subseteq Cpus
    /\ buf \in Items \cup {NoItem}
    /\ claimed \in Seq(Items)
    /\ out \in Items \cup {NoItem}
    /\ calls \in 0..MaxCalls

\* Nobody copies to or from a slot while another copies to it: two producers
\* in memcpy() own different slots, and the consumer's memcpy() never meets a
\* producer's (work_queue.c has no lock that would exclude either).
NoSlotRace ==
    /\ \A c, d \in Cpus :
         (c # d /\ pc[c] = "copy" /\ pc[d] = "copy") => Slot(h[c]) # Slot(h[d])
    /\ \A c \in Cpus :
         (pc[c] = "copy" /\ cpc = "copy") => Slot(h[c]) # Slot(ctail)

\* What the consumer fetched for a position is the item of the producer whose
\* cmpxchg acquired that position, although slots are reused and items are
\* completed in any order.
FetchedIsClaimed ==
    cpc = "advance" => (ctail < Len(claimed) /\ buf = claimed[ctail + 1])

\* WARN_ON_ONCE(head > tail + q->qsize) never fires, for the head a producer
\* holds in its local and the tail it is about to read.
HeadNotAhead ==
    /\ head <= tail + QSize
    /\ \A c \in Cpus : pc[c] = "tail" => h[c] <= tail + QSize

\* "the ticket value is always greater than 0": a push that gives up returns
\* a ticket no smaller than the queue size, so it is never taken for success,
\* and no larger than the head, so the turnstile is not set into the future.
TicketPositive ==
    \A c \in Cpus :
      (pc[c] = "release" /\ budget[c] = 0) => /\ ticket[c] >= QSize
                                              /\ ticket[c] <= head

\* A pop that finds nothing leaves no completed item behind for ever: an item
\* whose producer has finished is popped.
EveryPushIsPopped ==
    \A p \in 1..MaxCalls : (Len(claimed) >= p) ~> (tail >= p)

\* The abstract queue the ring implements: a bounded FIFO whose order is the
\* order of the cmpxchg.
Fifo == INSTANCE FifoQueue WITH log <- claimed, taken <- tail, last <- out

\* Every behaviour of __tfw_wq_push() and tfw_wq_pop_ticket() is one of the
\* bounded FIFO: nothing is lost, duplicated or reordered.
RefinesFifo == Fifo!Spec
-----------------------------------------------------------------------------
(* The inductive invariant behind the properties above. *)

\* The guard of a CPU is published.
Guarded(c) == pc[c] \notin {"idle", "guard"}

\* The counters: head counts the successful cmpxchg, and the consumer's bound
\* never runs ahead of it.
Counters ==
    /\ head = Len(claimed)
    /\ tail <= head /\ head <= tail + QSize
    /\ last_head <= head

\* A producer's locals: its head may be stale but never from the future, it
\* attempts the cmpxchg only after it saw room, and budget counts down to 0 only
\* on the way out.
Locals ==
    \A c \in Cpus :
      /\ h[c] <= head
      /\ pc[c] # "idle" => item[c] \in Items
      /\ pc[c] = "cas" => h[c] < tail + QSize
      /\ pc[c] \notin {"idle", "release"} => budget[c] > 0

\* A published guard is at or below the position its producer works on.
Guards ==
    \A c \in Cpus : IF Guarded(c) THEN heads[c] <= h[c] ELSE heads[c] = LongMax

\* A producer between its cmpxchg and the end of its copy owns its position.
Owned ==
    /\ \A c \in Cpus : pc[c] = "copy" =>
         /\ tail <= h[c] /\ h[c] < head
         /\ claimed[h[c] + 1] = item[c]
    /\ \A c, d \in Cpus : (c # d /\ pc[c] = "copy" /\ pc[d] = "copy") => h[c] # h[d]

\* Every position waiting for the consumer is being copied or holds its item.
Filled ==
    \A p \in tail..(head - 1) :
      \/ \E c \in Cpus : pc[c] = "copy" /\ h[c] = p
      \/ array[Slot(p)] = claimed[p + 1]

\* The consumer's bound excludes every position that is being copied, except
\* those of the CPUs its running scan has still to visit.
BoundSafe ==
    \A c \in Cpus : pc[c] = "copy" =>
      (last_head <= h[c] \/ (cpc = "scan" /\ c \in toscan))

\* The consumer works on the current tail and, once it decided to copy, below
\* its bound.
Consumer ==
    /\ cpc # "idle" => ctail = tail
    /\ cpc \in {"copy", "advance"} => ctail < last_head
    /\ cpc = "advance" => buf = claimed[ctail + 1]

\* The inductive invariant: the parts above together are preserved by every
\* step of __tfw_wq_push() and tfw_wq_pop_ticket().
IInv ==
    TypeOK /\ Counters /\ Locals /\ Guards /\ Owned /\ Filled /\ BoundSafe /\ Consumer
    /\ TicketPositive

=============================================================================
