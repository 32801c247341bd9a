-------------------------------- MODULE SsTx --------------------------------
(***************************************************************************)
(* Transmission and closing through the per-CPU work queue of fw/sock.c:   *)
(* ss_send() and ss_close() on any CPU, the close backlog with its         *)
(* turnstile, the IPI that wakes the owner of the queue, and the softirq   *)
(* handler ss_tx_action() on that CPU.                                     *)
(*                                                                         *)
(* The ring itself is the bounded FIFO that WorkQueue is proved to         *)
(* implement (WorkQueueProofs!ImplementsFifo): q holds the acquired        *)
(* positions tail .. tail + Len(q) - 1 in the order of the cmpxchg.  What  *)
(* the FIFO does not say is kept here: a position is acquired before its   *)
(* item is complete, and a guard at or below tail makes a pop return       *)
(* -EBUSY although the item at tail is complete.                           *)
(***************************************************************************)
EXTENDS Integers, Sequences

CONSTANTS
    Cpus,       \* the online CPUs
    Home,       \* the CPU that owns the queue and the backlog
    Producers,  \* the CPUs that call ss_send() and ss_close()
    QSize,      \* size of the ring
    MinBudget,  \* lower bound of works per softirq run (10 in the code)
    UnlockIsBarrier, \* spin_unlock() is a full barrier: on x86 only where it
                     \* is paravirtual
    MaxWorks,   \* bound of the model: works submitted per CPU
    LongMax     \* LONG_MAX

ASSUME CpusAssumption == Home \in Cpus /\ Producers \subseteq Cpus
ASSUME SizeAssumption == QSize \in Nat \ {0} /\ MinBudget \in Nat \ {0}
ASSUME UnlockAssumption == UnlockIsBarrier \in BOOLEAN
ASSUME MaxAssumption  == MaxWorks \in Nat /\ LongMax \in Nat

\* A work descriptor, SsWork: all the works of one CPU are for one socket.
Works == [cpu : Producers, n : 1..MaxWorks, action : {"send", "close"}]
NoWork == [cpu |-> Home, n |-> 0, action |-> "none"]
AnyWork == Works \cup {NoWork}

\* A node of the backlog, SsCblNode.
Nodes == [ticket : Nat, sw : Works]

VARIABLES
    q, tail,             \* the ring: the waiting works, the position of the first
    ppc, guard, cur, tk, \* per CPU: control point, guard, work, ticket
    n,                   \* per CPU: number of works submitted
    backlog, turn,       \* SsCloseBacklog
    ipi,                 \* TFW_QUEUE_IPI: producers have to wake the consumer
    irq, softirq,        \* irq_work queued on Home; NET_TX_SOFTIRQ pending
    active,              \* __ss_active
    tpc, ticket, budget, sw  \* ss_tx_action(): control point and locals

producer == <<ppc, guard, cur, tk, n>>
consumer == <<tpc, ticket, budget, sw>>
ring == <<q, tail>>
cbl  == <<backlog, turn>>
wake == <<ipi, irq, softirq>>
vars == <<ring, producer, cbl, wake, active, consumer>>

ProducerPoints == {"idle", "push", "full", "copy", "turnstile", "late", "lateraise",
                   "notify", "raise"}
TxPoints == {"idle", "pop", "turn", "lock", "ring", "exec", "sync", "wqsize", "cbsize"}

\* tfw_sync_socket_wq_init(); no backlog node, turn = LONG_MAX.
Init ==
    /\ q = <<>> /\ tail = 0
    /\ ppc = [c \in Cpus |-> "idle"]
    /\ guard = [c \in Cpus |-> LongMax]
    /\ cur = [c \in Cpus |-> NoWork]
    /\ tk = [c \in Cpus |-> 0]
    /\ n = [c \in Cpus |-> 0]
    /\ backlog = <<>> /\ turn = LongMax
    /\ ipi = TRUE /\ irq = FALSE /\ softirq = FALSE
    /\ active = TRUE
    /\ tpc = "idle" /\ ticket = 0 /\ budget = 0 /\ sw = NoWork

\* q->head
head == tail + Len(q)

\* The consumer's softirq does not run on Home while a push there has bottom
\* halves disabled, nor does a push there start in the middle of a pop.
BhEnabled == ppc[Home] \notin {"push", "full", "copy"}
MaySubmit(c) == c = Home => tpc \in {"idle", "exec"}

-----------------------------------------------------------------------------
(* Plausible bugs of the operations below; each one breaks a property.     *)

\* the flag is looked at before the work is complete: it is not looked at again
PushCompleteEarlyTest(c) ==
    /\ ppc[c] = "copy"
    /\ guard' = [guard EXCEPT ![c] = LongMax]
    /\ ppc' = [ppc EXCEPT ![c] = "idle"]
    /\ cur' = [cur EXCEPT ![c] = NoWork] /\ tk' = [tk EXCEPT ![c] = 0]
    /\ UNCHANGED <<ring, n, cbl, wake, active, consumer>>

\* a node in the backlog does not lower turn
TurnstilePushNoTurn(c) ==
    /\ ppc[c] = "turnstile"
    /\ backlog' = Append(backlog, [ticket |-> tk[c], sw |-> cur[c]])
    /\ ppc' = [ppc EXCEPT ![c] = "notify"]
    /\ cur' = [cur EXCEPT ![c] = NoWork] /\ tk' = [tk EXCEPT ![c] = 0]
    /\ UNCHANGED <<ring, guard, n, turn, wake, active, consumer>>

\* the size of the backlog alone decides about the return
TxWqSizeIgnored ==
    /\ tpc = "wqsize"
    /\ tpc' = "cbsize"
    /\ UNCHANGED <<ring, producer, cbl, wake, active, ticket, budget, sw>>

\* the position to be fetched next is compared, and not the one after it
TxTurnOffByOne ==
    /\ tpc = "turn"
    /\ tpc' = IF ticket > turn THEN "lock" ELSE "ring"
    /\ UNCHANGED <<ring, producer, cbl, wake, active, ticket, budget, sw>>

\* the ticket is kept relative to the tail
PushFullRelative(c) ==
    /\ ppc[c] = "push"
    /\ Len(q) = QSize
    /\ tk' = [tk EXCEPT ![c] = Len(q) - tail - 1]
    /\ ppc' = [ppc EXCEPT ![c] = "full"]
    /\ UNCHANGED <<ring, guard, cur, n, cbl, wake, active, consumer>>

-----------------------------------------------------------------------------
(* Producers: ss_send() and ss_close(). *)

\* The work and the ticket of the call are not used any more.
Forget(c) == cur' = [cur EXCEPT ![c] = NoWork] /\ tk' = [tk EXCEPT ![c] = 0]

\* ss_send() and ss_close() prepare the work and enter __tfw_wq_push(), which
\* publishes its guard.
Submit(c, act) ==
    /\ ppc[c] = "idle" /\ MaySubmit(c)
    /\ n[c] < MaxWorks
    /\ n' = [n EXCEPT ![c] = @ + 1]
    /\ cur' = [cur EXCEPT ![c] = [cpu |-> c, n |-> n[c] + 1, action |-> act]]
    /\ guard' = [guard EXCEPT ![c] = head]
    /\ ppc' = [ppc EXCEPT ![c] = "push"]
    /\ UNCHANGED <<ring, tk, cbl, wake, active, consumer>>

\* A free position is acquired...
PushAcquire(c) ==
    /\ ppc[c] = "push"
    /\ Len(q) < QSize
    /\ q' = Append(q, cur[c])
    /\ tk' = [tk EXCEPT ![c] = head]
    /\ ppc' = [ppc EXCEPT ![c] = "copy"]
    /\ UNCHANGED <<tail, guard, cur, n, cbl, wake, active, consumer>>

\* ... and its item completed; the push returns 0.
PushComplete(c) ==
    /\ ppc[c] = "copy"
    /\ guard' = [guard EXCEPT ![c] = LongMax]
    /\ ppc' = [ppc EXCEPT ![c] = "notify"]
    /\ Forget(c)
    /\ UNCHANGED <<ring, n, cbl, wake, active, consumer>>

\* The queue is full: the head is the ticket.
PushFull(c) ==
    /\ ppc[c] = "push"
    /\ Len(q) = QSize
    /\ tk' = [tk EXCEPT ![c] = head]
    /\ ppc' = [ppc EXCEPT ![c] = "full"]
    /\ UNCHANGED <<ring, guard, cur, n, cbl, wake, active, consumer>>

\* A failed ss_send() returns -EBUSY and drops its data; ss_close() with
\* SS_F_SYNC goes to the backlog.
PushFailed(c) ==
    /\ ppc[c] = "full"
    /\ guard' = [guard EXCEPT ![c] = LongMax]
    /\ IF cur[c].action = "close"
       THEN ppc' = [ppc EXCEPT ![c] = "turnstile"] /\ UNCHANGED <<cur, tk>>
       ELSE ppc' = [ppc EXCEPT ![c] = "idle"] /\ Forget(c)
    /\ UNCHANGED <<ring, n, cbl, wake, active, consumer>>

\* The backlog lock is free: no unlock waits in the store buffer of a CPU.
BacklogLock == \A c \in Cpus : ppc[c] \notin {"late", "lateraise"}

\* ss_turnstile_push() under the backlog lock.
TurnstilePush(c) ==
    /\ ppc[c] = "turnstile" /\ BacklogLock
    /\ backlog' = Append(backlog, [ticket |-> tk[c], sw |-> cur[c]])
    /\ turn' = IF turn > tk[c] THEN tk[c] ELSE turn
    /\ ppc' = [ppc EXCEPT ![c] = "notify"]
    /\ Forget(c)
    /\ UNCHANGED <<ring, guard, n, wake, active, consumer>>

\* The same while the stores of the section, up to the unlock, are still in the
\* store buffer of another CPU than Home: test_bit(TFW_QUEUE_IPI), a plain read
\* after spin_unlock_bh(), is done before they are visible...
TurnstileEarly(c) ==
    /\ ppc[c] = "turnstile" /\ BacklogLock
    /\ ~UnlockIsBarrier /\ c # Home
    /\ ppc' = [ppc EXCEPT ![c] = IF ipi THEN "lateraise" ELSE "late"]
    /\ UNCHANGED <<ring, guard, cur, tk, n, cbl, wake, active, consumer>>

\* ... and then they are, before an interrupt is sent if that is to be done.
TurnstileLate(c) ==
    /\ ppc[c] \in {"late", "lateraise"}
    /\ backlog' = Append(backlog, [ticket |-> tk[c], sw |-> cur[c]])
    /\ turn' = IF turn > tk[c] THEN tk[c] ELSE turn
    /\ ppc' = [ppc EXCEPT ![c] = IF ppc[c] = "late" THEN "idle" ELSE "raise"]
    /\ Forget(c)
    /\ UNCHANGED <<ring, guard, n, wake, active, consumer>>

\* No memory for the backlog node: ss_close() returns T_BAD.
TurnstileNoMem(c) ==
    /\ ppc[c] = "turnstile"
    /\ ppc' = [ppc EXCEPT ![c] = "idle"]
    /\ Forget(c)
    /\ UNCHANGED <<ring, guard, n, cbl, wake, active, consumer>>

\* test_bit(TFW_QUEUE_IPI) after the work is visible...
Notify(c) ==
    /\ ppc[c] = "notify"
    /\ ppc' = [ppc EXCEPT ![c] = IF ipi THEN "raise" ELSE "idle"]
    /\ UNCHANGED <<ring, guard, cur, tk, n, cbl, wake, active, consumer>>

\* ... and tfw_raise_softirq(): an irq_work for another CPU, on the own CPU
\* ss_ipi() is called directly.
Raise(c) ==
    /\ ppc[c] = "raise"
    /\ ppc' = [ppc EXCEPT ![c] = "idle"]
    /\ IF c = Home
       THEN ipi' = FALSE /\ softirq' = TRUE /\ UNCHANGED irq
       ELSE irq' = TRUE /\ UNCHANGED <<ipi, softirq>>
    /\ UNCHANGED <<ring, guard, cur, tk, n, cbl, active, consumer>>

ProducerStep(c) ==
    \/ PushAcquire(c) \/ PushComplete(c) \/ PushFull(c) \/ PushFailed(c)
    \/ TurnstilePush(c) \/ TurnstileEarly(c) \/ TurnstileLate(c) \/ TurnstileNoMem(c)
    \/ Notify(c) \/ Raise(c)

-----------------------------------------------------------------------------
(* Interrupts and the shutdown flag. *)

\* ss_ipi() in the irq_work on Home; it may interrupt anything there.
Ipi ==
    /\ irq
    /\ irq' = FALSE /\ ipi' = FALSE /\ softirq' = TRUE
    /\ UNCHANGED <<ring, producer, cbl, active, consumer>>

\* The rest of the kernel raises NET_TX_SOFTIRQ as well.
KernelTx ==
    /\ ~softirq
    /\ softirq' = TRUE
    /\ UNCHANGED <<ring, producer, cbl, ipi, irq, active, consumer>>

\* ss_stop()
Stop ==
    /\ active
    /\ active' = FALSE
    /\ UNCHANGED <<ring, producer, cbl, wake, consumer>>

-----------------------------------------------------------------------------
(* The softirq: ss_tx_action() and ss_wq_pop(). *)

\* ss_wq_local_size()
LocalSize == Len(q) + Len(backlog)

\* The item at tail is complete.
Ready == /\ q # <<>>
         /\ \A c \in Cpus : ppc[c] = "copy" => tk[c] # tail

\* A guard at or below tail, or an empty ring, makes tfw_wq_pop_ticket() fail.
Busy == q = <<>> \/ \E c \in Cpus : guard[c] <= tail

\* tfw_wq_pop_ticket() that fetches an item, and one that returns -EBUSY; both
\* leave the position looked at in the ticket.
RingPop ==
    /\ Ready
    /\ sw' = Head(q) /\ q' = Tail(q) /\ ticket' = tail /\ tail' = tail + 1
    /\ tpc' = "exec"
RingBusy(next) ==
    /\ Busy
    /\ ticket' = tail
    /\ tpc' = next
    /\ UNCHANGED <<ring, sw>>

TxStart ==
    /\ tpc = "idle" /\ softirq /\ BhEnabled
    /\ softirq' = FALSE
    /\ ticket' = 0
    /\ budget' = IF LocalSize > MinBudget THEN LocalSize ELSE MinBudget
    /\ tpc' = "pop"
    /\ UNCHANGED <<ring, producer, cbl, ipi, irq, active, sw>>

\* (!ss_active() || budget--), then ss_wq_pop(): the ring goes first as long
\* as the ticket is 0.
TxPop ==
    /\ tpc = "pop"
    /\ budget' = IF active THEN budget - 1 ELSE budget
    /\ \/ /\ active /\ budget = 0
          /\ tpc' = "sync" /\ UNCHANGED <<ring, ticket, sw>>
       \/ /\ ~active \/ budget # 0
          /\ \/ ticket = 0 /\ RingPop
             \/ ticket = 0 /\ RingBusy("turn")
             \/ ticket # 0 /\ tpc' = "turn" /\ UNCHANGED <<ring, ticket, sw>>
    /\ UNCHANGED <<producer, cbl, wake, active>>

\* The turnstile: cb->turn is read without the lock.
TxTurn ==
    /\ tpc = "turn"
    /\ tpc' = IF ticket + 1 >= turn THEN "lock" ELSE "ring"
    /\ UNCHANGED <<ring, producer, cbl, wake, active, ticket, budget, sw>>

\* The first node of the backlog, and ss_turnstile_update_turn().
TxBacklog ==
    /\ tpc = "lock" /\ BacklogLock
    /\ IF backlog # <<>>
       THEN /\ sw' = Head(backlog).sw
            /\ backlog' = Tail(backlog)
            /\ turn' = IF Tail(backlog) = <<>> THEN LongMax ELSE Head(Tail(backlog)).ticket
            /\ tpc' = "exec"
       ELSE tpc' = "ring" /\ UNCHANGED <<sw, cbl>>
    /\ UNCHANGED <<ring, producer, wake, active, ticket, budget>>

\* The last attempt of ss_wq_pop(): the ring again.
TxRing ==
    /\ tpc = "ring"
    /\ RingPop \/ RingBusy("sync")
    /\ UNCHANGED <<producer, cbl, wake, active, budget>>

\* The work is done under the socket lock; the callbacks may submit more.
TxExec ==
    /\ tpc = "exec" /\ BhEnabled
    /\ sw' = NoWork
    /\ tpc' = "pop"
    /\ UNCHANGED <<ring, producer, cbl, wake, active, ticket, budget>>

\* After the loop: if (budget) TFW_WQ_IPI_SYNC(ss_wq_local_size, wq). The loop
\* that ran out of budget leaves -1 in it.
TxSync ==
    /\ tpc = "sync"
    /\ IF budget # 0
       THEN ipi' = TRUE /\ tpc' = "wqsize" /\ UNCHANGED softirq
       ELSE softirq' = TRUE /\ tpc' = "idle" /\ UNCHANGED ipi
    /\ ticket' = 0 /\ budget' = 0
    /\ UNCHANGED <<ring, producer, cbl, irq, active, sw>>

\* The two terms of the size are read one after the other; the softirq is
\* rearmed if either is not 0.
TxSize(empty, next) ==
    IF empty
    THEN tpc' = next /\ UNCHANGED <<ipi, softirq>>
    ELSE ipi' = FALSE /\ softirq' = TRUE /\ tpc' = "idle"
TxWqSize ==
    /\ tpc = "wqsize"
    /\ TxSize(q = <<>>, "cbsize")
    /\ UNCHANGED <<ring, producer, cbl, irq, active, ticket, budget, sw>>
TxCbSize ==
    /\ tpc = "cbsize"
    /\ TxSize(backlog = <<>>, "idle")
    /\ UNCHANGED <<ring, producer, cbl, irq, active, ticket, budget, sw>>

Tx == \/ TxStart \/ TxPop \/ TxTurn \/ TxBacklog \/ TxRing \/ TxExec
      \/ TxSync \/ TxWqSize \/ TxCbSize

Next ==
    \/ \E c \in Producers : (\E a \in {"send", "close"} : Submit(c, a)) \/ ProducerStep(c)
    \/ Ipi \/ KernelTx \/ Stop
    \/ Tx

\* Interrupts and softirqs are delivered, and a CPU in a push or a wake-up
\* finishes it.
Fairness ==
    /\ \A c \in Producers : WF_vars(ProducerStep(c))
    /\ WF_vars(Ipi) /\ WF_vars(Tx)

Spec == Init /\ [][Next]_vars
FairSpec == Spec /\ Fairness

-----------------------------------------------------------------------------
\* Every variable has its type; tickets and the turn of ss_turnstile_push() are
\* never negative, and the works are those that were submitted.
TypeOK ==
    /\ q \in Seq(Works) /\ tail \in Nat
    /\ ppc \in [Cpus -> ProducerPoints]
    /\ guard \in [Cpus -> Nat]
    /\ cur \in [Cpus -> AnyWork]
    /\ tk \in [Cpus -> Nat]
    /\ n \in [Cpus -> 0..MaxWorks]
    /\ backlog \in Seq(Nodes) /\ turn \in Nat
    /\ ipi \in BOOLEAN /\ irq \in BOOLEAN /\ softirq \in BOOLEAN /\ active \in BOOLEAN
    /\ tpc \in TxPoints /\ ticket \in Nat /\ budget \in Int
    /\ sw \in AnyWork

\* Works are waiting in the ring or in the backlog.
Pending == q # <<>> \/ backlog # <<>>

\* A producer that has made its work visible has still to look at the flag or
\* to act on it.
WakeUnderWay == \E c \in Cpus : ppc[c] \in {"copy", "notify", "raise"}

\* Nothing is under way any more: no call, no softirq run, no interrupt.
Asleep == tpc = "idle" /\ ~softirq /\ ~irq /\ ~WakeUnderWay

\* No lost wake-up: ss_tx_action() does not sleep over a work in the ring, and
\* if an unlock is a full barrier not over one in the backlog either.  This is
\* what TFW_WQ_IPI_SYNC() is for, against pushes between the last pop and the
\* return of ss_tx_action().
NoLostWakeup ==
    Asleep => q = <<>> /\ (UnlockIsBarrier => backlog = <<>>)

\* The comment of ss_turnstile_push() on memory barriers: a close that was put
\* into the backlog is never left there asleep.
BacklogWakeup == Asleep => backlog = <<>>

\* The turnstile keeps the order of works: when a close is executed, no data
\* that the same CPU sent to the socket before it is still waiting.
CloseAfterData ==
    (tpc = "exec" /\ sw.action = "close") =>
      \A i \in 1..Len(q) :
        (q[i].action = "send" /\ q[i].cpu = sw.cpu) => q[i].n > sw.n

\* turn is LONG_MAX when the backlog is empty (ss_backlog_validate_cleanup()
\* warns otherwise), and it never holds the first node back beyond its ticket.
TurnMatchesBacklog ==
    /\ backlog = <<>> => turn = LongMax
    /\ backlog # <<>> => turn <= Head(backlog).ticket

\* Whatever was accepted, by the ring or by the backlog, is fetched for
\* execution, also under overload and after ss_stop(): with finitely many works
\* submitted both become empty, but for a close whose wake-up was lost.
WorksAreDrained ==
    Pending ~> (q = <<>> /\ (backlog = <<>> \/ (~UnlockIsBarrier /\ Asleep)))

-----------------------------------------------------------------------------
(* The inductive invariant behind NoLostWakeup. *)

Awake == softirq \/ irq \/ WakeUnderWay

\* With the flag clear a run of the softirq is to come.
FlagInv == tpc \in {"idle", "wqsize", "cbsize"} => (ipi \/ softirq)

\* What is waiting although the softirq returned, or although it has already
\* found the ring empty, came with a wake-up.
WakeInv ==
    /\ (tpc = "idle" /\ q # <<>>) => Awake
    /\ (tpc = "idle" /\ UnlockIsBarrier /\ backlog # <<>>) => Awake
    /\ UnlockIsBarrier => BacklogLock
    /\ (tpc = "cbsize" /\ q # <<>>) => Awake

PointsOK ==
    /\ ipi \in BOOLEAN /\ irq \in BOOLEAN /\ softirq \in BOOLEAN
    /\ tpc \in TxPoints
    /\ ppc \in [Cpus -> ProducerPoints]

\* The inductive invariant of the flag protocol of tfw_wq_push() and
\* TFW_WQ_IPI_SYNC(): control points, flag and wake-ups fit together.
IInv == PointsOK /\ FlagInv /\ WakeInv

-----------------------------------------------------------------------------
(* The inductive invariant behind TurnMatchesBacklog. *)

\* Between Submit and the end of the call the producer holds the work.
HoldsWork ==
    \A c \in Cpus :
        ppc[c] \in {"push", "full", "copy", "turnstile", "late", "lateraise"} =>
            cur[c] \in Works

\* The types are inductive together with the works in hand, and the turnstile
\* with the types of its tickets.
TurnInv == TypeOK /\ HoldsWork /\ TurnMatchesBacklog
=============================================================================
