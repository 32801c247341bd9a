----------------------------- MODULE SsTxProofs -----------------------------
(***************************************************************************)
(* No lost wake-up of ss_tx_action(), for any number of CPUs, any size of  *)
(* the ring and any budget.                                                *)
(***************************************************************************)
EXTENDS SsTx, TLAPS

\* Every step of a producer, an interrupt or the softirq keeps the invariant:
\* a work becomes visible before its producer looks at the flag, and the
\* softirq sets the flag before it looks at the sizes.
LEMMA StepIInv ==
    ASSUME IInv, [Next]_vars
    PROVE  IInv'
  <1> USE CpusAssumption, UnlockAssumption DEF ring, producer, cbl, wake, consumer, ProducerPoints, TxPoints,
      IInv, PointsOK
  <1>1. ASSUME NEW c \in Producers, NEW a \in {"send", "close"}, Submit(c, a) PROVE IInv'
    BY <1>1 DEF Submit, FlagInv, WakeInv, BacklogLock, Awake, WakeUnderWay
  <1>2. ASSUME NEW c \in Producers, PushAcquire(c) PROVE IInv'
    <2>1. c \in Cpus /\ ppc'[c] = "copy"  BY <1>2 DEF PushAcquire
    <2>2. WakeUnderWay'  BY <2>1 DEF WakeUnderWay
    <2> QED  BY <1>2, <2>2 DEF PushAcquire, FlagInv, WakeInv, BacklogLock, Awake
  <1>3. ASSUME NEW c \in Producers, PushComplete(c) PROVE IInv'
    <2>1. c \in Cpus /\ ppc'[c] = "notify"  BY <1>3 DEF PushComplete
    <2>2. WakeUnderWay'  BY <2>1 DEF WakeUnderWay
    <2> QED  BY <1>3, <2>2 DEF PushComplete, FlagInv, WakeInv, BacklogLock, Awake
  <1>4. ASSUME NEW c \in Producers, PushFull(c) PROVE IInv'
    BY <1>4 DEF PushFull, FlagInv, WakeInv, BacklogLock, Awake, WakeUnderWay
  <1>5. ASSUME NEW c \in Producers, PushFailed(c) PROVE IInv'
    BY <1>5 DEF PushFailed, FlagInv, WakeInv, BacklogLock, Awake, WakeUnderWay
  <1>6. ASSUME NEW c \in Producers, TurnstilePush(c) PROVE IInv'
    <2>1. c \in Cpus /\ ppc'[c] = "notify"  BY <1>6 DEF TurnstilePush
    <2>2. WakeUnderWay'  BY <2>1 DEF WakeUnderWay
    <2> QED  BY <1>6, <2>2 DEF TurnstilePush, FlagInv, WakeInv, BacklogLock, Awake
  <1>6a. ASSUME NEW c \in Producers, TurnstileEarly(c) PROVE IInv'
    BY <1>6a DEF TurnstileEarly, FlagInv, WakeInv, BacklogLock, Awake, WakeUnderWay
  <1>6b. ASSUME NEW c \in Producers, TurnstileLate(c) PROVE IInv'
    BY <1>6b DEF TurnstileLate, FlagInv, WakeInv, BacklogLock, Awake, WakeUnderWay
  <1>7. ASSUME NEW c \in Producers, TurnstileNoMem(c) PROVE IInv'
    BY <1>7 DEF TurnstileNoMem, FlagInv, WakeInv, BacklogLock, Awake, WakeUnderWay
  <1>8. ASSUME NEW c \in Producers, Notify(c) PROVE IInv'
    <2>1. CASE ipi
      <3>1. c \in Cpus /\ ppc'[c] = "raise"  BY <1>8, <2>1 DEF Notify
      <3>2. WakeUnderWay'  BY <3>1 DEF WakeUnderWay
      <3> QED  BY <1>8, <3>2 DEF Notify, FlagInv, WakeInv, BacklogLock, Awake
    <2>2. CASE ~ipi  BY <1>8, <2>2 DEF Notify, FlagInv, WakeInv, BacklogLock, Awake
    <2> QED  BY <2>1, <2>2
  <1>9. ASSUME NEW c \in Producers, Raise(c) PROVE IInv'
    BY <1>9 DEF Raise, FlagInv, WakeInv, BacklogLock, Awake
  <1>10. CASE Ipi  BY <1>10 DEF Ipi, FlagInv, WakeInv, BacklogLock, Awake
  <1>11. CASE KernelTx  BY <1>11 DEF KernelTx, FlagInv, WakeInv, BacklogLock, Awake
  <1>12. CASE Stop
    BY <1>12 DEF Stop, FlagInv, WakeInv, BacklogLock, Awake, WakeUnderWay
  <1>13. CASE TxStart \/ TxTurn \/ TxBacklog \/ TxExec
    BY <1>13 DEF TxStart, TxTurn, TxBacklog, TxExec, FlagInv, WakeInv, BacklogLock
  <1>14. CASE TxPop \/ TxRing
    BY <1>14 DEF TxPop, TxRing, RingPop, RingBusy, FlagInv, WakeInv, BacklogLock
  <1>15. CASE TxSync  BY <1>15 DEF TxSync, FlagInv, WakeInv, BacklogLock, Awake
  <1>16. CASE TxWqSize
    BY <1>16 DEF TxWqSize, TxSize, FlagInv, WakeInv, BacklogLock, Awake
  <1>17. CASE TxCbSize
    BY <1>17 DEF TxCbSize, TxSize, FlagInv, WakeInv, BacklogLock, Awake, WakeUnderWay
  <1>18. CASE UNCHANGED vars
    BY <1>18 DEF vars, FlagInv, WakeInv, BacklogLock, Awake, WakeUnderWay
  <1> QED
    BY <1>1, <1>2, <1>3, <1>4, <1>5, <1>6, <1>6a, <1>6b, <1>7, <1>8, <1>9, <1>10, <1>11, <1>12,
       <1>13, <1>14, <1>15, <1>16, <1>17, <1>18 DEF Next, ProducerStep, Tx

\* The invariant holds in every reachable state.
THEOREM IInvariance == Spec => []IInv
  <1>1. Init => IInv
    BY DEF Init, IInv, PointsOK, FlagInv, WakeInv, BacklogLock, ProducerPoints, TxPoints
  <1>2. IInv /\ [Next]_vars => IInv'  BY StepIInv
  <1> QED  BY <1>1, <1>2, PTL DEF Spec

\* ss_tx_action() never goes to sleep over a work that nobody will wake it for.
THEOREM WakeupNeverLost == Spec => []NoLostWakeup
  <1>1. IInv => NoLostWakeup
    BY DEF IInv, WakeInv, Awake, NoLostWakeup, Asleep
  <1> QED  BY <1>1, IInvariance, PTL

-----------------------------------------------------------------------------
\* A step of a producer keeps the types, the works in hand and the turnstile: a
\* new node is appended behind the first one, and turn is lowered to its ticket.
LEMMA ProducerTurnInv ==
    ASSUME TurnInv, NEW c \in Producers,
           (\E a \in {"send", "close"} : Submit(c, a)) \/ ProducerStep(c)
    PROVE  TurnInv'
  <1> USE CpusAssumption, SizeAssumption, MaxAssumption
      DEF ring, producer, cbl, wake, consumer, ProducerPoints, Forget
  <1>0. TypeOK /\ HoldsWork /\ TurnMatchesBacklog /\ c \in Cpus  BY DEF TurnInv
  <1>n. NoWork \in AnyWork /\ Works \subseteq AnyWork  BY DEF AnyWork
  <1>h. head \in Nat  BY <1>0 DEF head, TypeOK
  <1>1. ASSUME NEW a \in {"send", "close"}, Submit(c, a) PROVE TurnInv'
    <2>1. n[c] + 1 \in 1..MaxWorks /\ n[c] \in 0..MaxWorks  BY <1>0, <1>n, <1>1 DEF TypeOK, Submit
    <2>2. [cpu |-> c, n |-> n[c] + 1, action |-> a] \in Works  BY <2>1 DEF Works
    <2>3. TypeOK'  BY <1>0, <1>n, <1>1, <1>h, <2>1, <2>2 DEF TypeOK, Submit
    <2>4. HoldsWork'  BY <1>0, <1>n, <1>1, <2>2 DEF TypeOK, HoldsWork, Submit
    <2>5. TurnMatchesBacklog'  BY <1>0, <1>n, <1>1 DEF TurnMatchesBacklog, Submit
    <2> QED  BY <2>3, <2>4, <2>5 DEF TurnInv
  <1>2. CASE PushAcquire(c)
    <2>1. cur[c] \in Works  BY <1>0, <1>n, <1>2 DEF HoldsWork, PushAcquire
    <2>2. Append(q, cur[c]) \in Seq(Works)  BY <1>0, <2>1 DEF TypeOK
    <2>3. TypeOK'  BY <1>0, <1>n, <1>2, <1>h, <2>2 DEF TypeOK, PushAcquire
    <2>4. HoldsWork' /\ TurnMatchesBacklog'
      BY <1>0, <1>n, <1>2, <2>1 DEF TypeOK, HoldsWork, TurnMatchesBacklog, PushAcquire
    <2> QED  BY <2>3, <2>4 DEF TurnInv
  <1>3. CASE PushComplete(c)
    BY <1>0, <1>n, <1>3 DEF TurnInv, TypeOK, HoldsWork, TurnMatchesBacklog, PushComplete
  <1>4. CASE PushFull(c)
    BY <1>0, <1>n, <1>4, <1>h DEF TurnInv, TypeOK, HoldsWork, TurnMatchesBacklog, PushFull
  <1>5. CASE PushFailed(c)
    <2>1. TypeOK'
      <3>1. guard' \in [Cpus -> Nat] /\ ppc' \in [Cpus -> ProducerPoints]
        BY <1>0, <1>n, <1>5 DEF TypeOK, PushFailed
      <3>2. \/ UNCHANGED <<cur, tk>>
            \/ cur' = [cur EXCEPT ![c] = NoWork] /\ tk' = [tk EXCEPT ![c] = 0]
        BY <1>5 DEF PushFailed
      <3>3. cur' \in [Cpus -> AnyWork] /\ tk' \in [Cpus -> Nat]
        <4>1. CASE UNCHANGED <<cur, tk>>  BY <1>0, <4>1 DEF TypeOK
        <4>2. CASE cur' = [cur EXCEPT ![c] = NoWork] /\ tk' = [tk EXCEPT ![c] = 0]
          BY <1>0, <1>n, <4>2 DEF TypeOK
        <4> QED  BY <3>2, <4>1, <4>2
      <3> QED  BY <1>0, <1>n, <1>5, <3>1, <3>3 DEF TypeOK, PushFailed
    <2>2. HoldsWork'  BY <1>0, <1>n, <1>5 DEF TypeOK, HoldsWork, PushFailed
    <2>3. TurnMatchesBacklog'  BY <1>0, <1>n, <1>5 DEF TurnMatchesBacklog, PushFailed
    <2> QED  BY <2>1, <2>2, <2>3 DEF TurnInv
  <1>6. CASE TurnstilePush(c) \/ TurnstileLate(c)
    <2> DEFINE node == [ticket |-> tk[c], sw |-> cur[c]]
    <2>1. cur[c] \in Works /\ tk[c] \in Nat
      BY <1>0, <1>n, <1>6 DEF HoldsWork, TypeOK, TurnstilePush, TurnstileLate
    <2>2. node \in Nodes /\ node.ticket = tk[c]  BY <2>1 DEF Nodes
    <2>3. backlog' = Append(backlog, node) /\ turn' = IF turn > tk[c] THEN tk[c] ELSE turn
      BY <1>6 DEF TurnstilePush, TurnstileLate
    <2> HIDE DEF node
    <2>4. backlog \in Seq(Nodes) /\ turn \in Nat  BY <1>0 DEF TypeOK
    <2>5. backlog' \in Seq(Nodes) /\ turn' \in Nat
      BY <2>1, <2>2, <2>3, <2>4
    <2>6. ppc' \in [Cpus -> ProducerPoints] /\ cur' \in [Cpus -> AnyWork]
          /\ tk' \in [Cpus -> Nat]
      <3>1. cur' = [cur EXCEPT ![c] = NoWork] /\ tk' = [tk EXCEPT ![c] = 0]
        BY <1>6 DEF TurnstilePush, TurnstileLate
      <3>2. \E p \in ProducerPoints : ppc' = [ppc EXCEPT ![c] = p]
        BY <1>6 DEF TurnstilePush, TurnstileLate
      <3> QED  BY <1>0, <1>n, <3>1, <3>2 DEF TypeOK
    <2>7. UNCHANGED <<ring, guard, n, wake, active, consumer>>
      BY <1>6 DEF TurnstilePush, TurnstileLate
    <2>8. TypeOK'  BY <1>0, <2>5, <2>6, <2>7 DEF TypeOK
    <2>9. HoldsWork'  BY <1>0, <1>n, <1>6 DEF TypeOK, HoldsWork, TurnstilePush, TurnstileLate
    <2>10. TurnMatchesBacklog'
      <3>1. backlog' # <<>>  BY <2>3, <2>4, <2>2
      <3>2. CASE backlog = <<>>
        <4>1. Head(backlog') = node  BY <2>2, <2>3, <2>4, <3>2
        <4> QED  BY <2>1, <2>2, <2>3, <2>4, <3>1, <4>1 DEF TurnMatchesBacklog
      <3>3. CASE backlog # <<>>
        <4>1. Head(backlog') = Head(backlog)  BY <2>2, <2>3, <2>4, <3>3
        <4>2. turn <= Head(backlog).ticket  BY <1>0, <3>3 DEF TurnMatchesBacklog
        <4>3. Head(backlog) \in Nodes  BY <2>4, <3>3
        <4>4. turn' <= Head(backlog).ticket  BY <2>1, <2>3, <2>4, <4>2, <4>3 DEF Nodes
        <4> QED  BY <3>1, <4>1, <4>4 DEF TurnMatchesBacklog
      <3> QED  BY <3>2, <3>3
    <2> QED  BY <2>8, <2>9, <2>10 DEF TurnInv
  <1>7. CASE TurnstileEarly(c)
    BY <1>0, <1>n, <1>7 DEF TurnInv, TypeOK, HoldsWork, TurnMatchesBacklog, TurnstileEarly
  <1>8. CASE TurnstileNoMem(c)
    BY <1>0, <1>n, <1>8 DEF TurnInv, TypeOK, HoldsWork, TurnMatchesBacklog, TurnstileNoMem
  <1>9. CASE Notify(c)
    BY <1>0, <1>n, <1>9 DEF TurnInv, TypeOK, HoldsWork, TurnMatchesBacklog, Notify
  <1>10. CASE Raise(c)
    BY <1>0, <1>n, <1>10 DEF TurnInv, TypeOK, HoldsWork, TurnMatchesBacklog, Raise
  <1> QED
    BY <1>1, <1>2, <1>3, <1>4, <1>5, <1>6, <1>7, <1>8, <1>9, <1>10 DEF ProducerStep

\* A step of the softirq keeps them too: ss_turnstile_update_turn() takes turn
\* from the node that becomes the first.
LEMMA TxTurnInv ==
    ASSUME TurnInv, Tx
    PROVE  TurnInv'
  <1> USE CpusAssumption, SizeAssumption, MaxAssumption
      DEF ring, producer, cbl, wake, consumer, TxPoints
  <1>0. TypeOK /\ HoldsWork /\ TurnMatchesBacklog  BY DEF TurnInv
  <1>n. NoWork \in AnyWork /\ Works \subseteq AnyWork  BY DEF AnyWork
  <1>p. ASSUME RingPop PROVE /\ q' \in Seq(Works) /\ tail' \in Nat /\ ticket' \in Nat
                             /\ sw' \in Works /\ tpc' \in TxPoints
    <2>1. q # <<>> /\ q \in Seq(Works)  BY <1>0, <1>n, <1>p DEF RingPop, Ready, TypeOK
    <2>2. Head(q) \in Works /\ Tail(q) \in Seq(Works)  BY <2>1
    <2> QED  BY <1>0, <1>n, <1>p, <2>2 DEF RingPop, TypeOK
  <1>b. ASSUME NEW next \in {"turn", "sync"}, RingBusy(next)
        PROVE  /\ ticket' \in Nat /\ tpc' \in TxPoints /\ UNCHANGED <<ring, sw>>
    BY <1>0, <1>n, <1>b DEF RingBusy, TypeOK
  <1>1. CASE TxStart
    <2>1. LocalSize \in Nat  BY <1>0 DEF TypeOK, LocalSize
    <2>2. budget' \in Int  BY <1>1, <2>1 DEF TxStart
    <2>3. TypeOK'  BY <1>0, <1>1, <2>2 DEF TypeOK, TxStart
    <2> QED  BY <1>0, <1>1, <2>3 DEF TurnInv, HoldsWork, TurnMatchesBacklog, TxStart
  <1>2. CASE TxPop
    <2>1. TypeOK'  BY <1>0, <1>n, <1>2, <1>p, <1>b DEF TypeOK, TxPop
    <2> QED  BY <1>0, <1>n, <1>2, <2>1 DEF TurnInv, HoldsWork, TurnMatchesBacklog, TxPop
  <1>3. CASE TxTurn
    BY <1>0, <1>n, <1>3 DEF TurnInv, TypeOK, HoldsWork, TurnMatchesBacklog, TxTurn
  <1>4. CASE TxBacklog
    <2>1. backlog \in Seq(Nodes)  BY <1>0 DEF TypeOK
    <2>2. CASE backlog = <<>>
      BY <1>0, <1>n, <1>4, <2>2 DEF TurnInv, TypeOK, HoldsWork, TurnMatchesBacklog, TxBacklog
    <2>3. CASE backlog # <<>>
      <3>1. Head(backlog) \in Nodes
            /\ Tail(backlog) \in Seq(Nodes)
        BY <2>1, <2>3
      <3>2. Head(backlog).sw \in Works  BY <3>1 DEF Nodes
      <3>3. Tail(backlog) # <<>> => Head(Tail(backlog)) \in Nodes
        BY <3>1
      <3>4. /\ backlog' = Tail(backlog) /\ sw' = Head(backlog).sw /\ tpc' = "exec"
            /\ turn' = IF Tail(backlog) = <<>> THEN LongMax ELSE Head(Tail(backlog)).ticket
            /\ UNCHANGED <<ring, producer, wake, active, ticket, budget>>
        BY <1>4, <2>3 DEF TxBacklog
      <3>t. Tail(backlog) # <<>> => Head(Tail(backlog)).ticket \in Nat  BY <3>3 DEF Nodes
      <3>5. turn' \in Nat /\ TurnMatchesBacklog'
        BY <3>t, <3>4, MaxAssumption DEF TurnMatchesBacklog
      <3>6. TypeOK'  BY <1>0, <1>n, <3>1, <3>2, <3>4, <3>5 DEF TypeOK
      <3> QED  BY <1>0, <3>4, <3>5, <3>6 DEF TurnInv, HoldsWork
    <2> QED  BY <2>2, <2>3
  <1>5. CASE TxRing
    <2>1. TypeOK'  BY <1>0, <1>n, <1>5, <1>p, <1>b DEF TypeOK, TxRing
    <2> QED  BY <1>0, <1>n, <1>5, <2>1 DEF TurnInv, HoldsWork, TurnMatchesBacklog, TxRing
  <1>6. CASE TxExec
    BY <1>0, <1>n, <1>6 DEF TurnInv, TypeOK, HoldsWork, TurnMatchesBacklog, TxExec
  <1>7. CASE TxSync
    <2>1. TypeOK'
      <3>1. CASE budget # 0  BY <1>0, <1>7, <3>1 DEF TypeOK, TxSync
      <3>2. CASE budget = 0  BY <1>0, <1>7, <3>2 DEF TypeOK, TxSync
      <3> QED  BY <3>1, <3>2
    <2> QED  BY <1>0, <1>7, <2>1 DEF TurnInv, HoldsWork, TurnMatchesBacklog, TxSync
  <1>8. CASE TxWqSize
    BY <1>0, <1>n, <1>8 DEF TurnInv, TypeOK, HoldsWork, TurnMatchesBacklog, TxWqSize, TxSize
  <1>9. CASE TxCbSize
    BY <1>0, <1>n, <1>9 DEF TurnInv, TypeOK, HoldsWork, TurnMatchesBacklog, TxCbSize, TxSize
  <1> QED
    BY <1>1, <1>2, <1>3, <1>4, <1>5, <1>6, <1>7, <1>8, <1>9 DEF Tx

\* Types, works in hand and the turnstile hold in every reachable state.
THEOREM TurnInvariance == Spec => []TurnInv
  <1>1. ASSUME Init PROVE TurnInv
    <2>1. q \in Seq(Works) /\ backlog \in Seq(Nodes)  BY <1>1 DEF Init
    <2>2. NoWork \in AnyWork  BY DEF AnyWork
    <2>3. TypeOK
      <3>1. /\ ppc \in [Cpus -> ProducerPoints] /\ guard \in [Cpus -> Nat]
            /\ tk \in [Cpus -> Nat] /\ n \in [Cpus -> 0..MaxWorks]
        BY <1>1, MaxAssumption DEF Init, ProducerPoints
      <3>2. cur \in [Cpus -> AnyWork] /\ sw \in AnyWork  BY <1>1, <2>2 DEF Init
      <3>3. /\ tail \in Nat /\ turn \in Nat /\ ticket \in Nat /\ budget \in Int
            /\ tpc \in TxPoints
        BY <1>1, MaxAssumption DEF Init, TxPoints
      <3>4. ipi \in BOOLEAN /\ irq \in BOOLEAN /\ softirq \in BOOLEAN /\ active \in BOOLEAN
        BY <1>1 DEF Init
      <3> QED  BY <2>1, <3>1, <3>2, <3>3, <3>4 DEF TypeOK
    <2> QED  BY <1>1, <2>3 DEF Init, TurnInv, HoldsWork, TurnMatchesBacklog
  <1>2. ASSUME TurnInv, [Next]_vars PROVE TurnInv'
    <2>1. ASSUME NEW c \in Producers,
                 (\E a \in {"send", "close"} : Submit(c, a)) \/ ProducerStep(c)
          PROVE  TurnInv'
      BY <1>2, <2>1, ProducerTurnInv
    <2>2. CASE Tx  BY <1>2, <2>2, TxTurnInv
    <2>3. CASE Ipi \/ KernelTx \/ Stop \/ UNCHANGED vars
      BY <1>2, <2>3 DEF TurnInv, TypeOK, HoldsWork, TurnMatchesBacklog, Ipi, KernelTx, Stop,
         vars, ring, producer, cbl, wake, consumer
    <2> QED  BY <1>2, <2>1, <2>2, <2>3 DEF Next
  <1> QED  BY <1>1, <1>2, PTL DEF Spec

\* Every variable of the submission path keeps its type; a ticket or a turn is
\* never negative.
THEOREM TypeCorrect == Spec => []TypeOK
  <1>1. TurnInv => TypeOK  BY DEF TurnInv
  <1> QED  BY <1>1, TurnInvariance, PTL

\* The turnstile of ss_wq_pop() never holds the first close of the backlog back
\* beyond its ticket, and is open if the backlog is empty.
THEOREM TurnRight == Spec => []TurnMatchesBacklog
  <1>1. TurnInv => TurnMatchesBacklog  BY DEF TurnInv
  <1> QED  BY <1>1, TurnInvariance, PTL
=============================================================================
