-------------------------- MODULE WorkQueueProofs --------------------------
(***************************************************************************)
(* Proofs about the ring of fw/work_queue.c for any set of CPUs, any queue *)
(* size and any push budget: its inductive invariant, the safety           *)
(* properties that follow from it and the refinement of the bounded FIFO.  *)
(***************************************************************************)
EXTENDS WorkQueue, SlotLemmas, TLAPS

(* Positions less than QSize apart occupy different slots. *)

\* The slots of one lap of the ring are distinct.
LEMMA SlotInjective ==
    ASSUME NEW a \in Nat, NEW b \in Nat,
           Slot(a) = Slot(b), a < b + QSize, b < a + QSize
    PROVE  a = b
  BY ModInjective, QSizeAssumption DEF Slot

\* Every position has a slot in the array.
LEMMA SlotType ==
    ASSUME NEW a \in Nat
    PROVE  Slot(a) \in 0..(QSize - 1)
  BY DivMod, QSizeAssumption DEF Slot

-----------------------------------------------------------------------------
\* tfw_wq_init() establishes the invariant.
LEMMA InitIInv == Init => IInv
  <1> SUFFICES ASSUME Init PROVE IInv  OBVIOUS
  <1> USE CpusAssumption, QSizeAssumption, BudgetAssumption, BoundAssumption, ItemsAssumption
  <1>1. TypeOK  BY DEF Init, TypeOK, PushPoints, PopPoints
  <1>2. Counters /\ Locals /\ Guards  BY DEF Init, Counters, Locals, Guards, Guarded
  <1>3. Owned /\ Filled /\ BoundSafe /\ Consumer /\ TicketPositive
    BY DEF Init, Owned, Filled, BoundSafe, Consumer, TicketPositive
  <1> QED  BY <1>1, <1>2, <1>3 DEF IInv

\* Every step preserves the type invariant; the claimed items are Items since
\* a producer in the call holds one.
LEMMA TypeStep ==
    ASSUME IInv, [Next]_wqvars
    PROVE  TypeOK'
  <1> USE QSizeAssumption, BudgetAssumption, BoundAssumption DEF PushPoints, PopPoints
  <1>0. TypeOK /\ Locals  BY DEF IInv
  <1>1. ASSUME NEW c \in Cpus, NEW it \in Items, PushBegin(c, it) PROVE TypeOK'
    BY <1>0, <1>1 DEF TypeOK, PushBegin, cvars
  <1>2. ASSUME NEW c \in Cpus, PushGuard(c) PROVE TypeOK'
    BY <1>0, <1>2 DEF TypeOK, PushGuard, cvars
  <1>3. ASSUME NEW c \in Cpus, PushTail(c) PROVE TypeOK'
    <2>1. pc[c] = "tail"  BY <1>3 DEF PushTail
    <2>2. budget[c] > 0  BY <1>0, <2>1 DEF Locals
    <2>3. budget[c] \in 0..Budget  BY <1>0 DEF TypeOK
    <2>4. budget[c] - 1 \in 0..Budget  BY <2>2, <2>3
    <2> QED  BY <1>0, <1>3, <2>4, ZenonT(60) DEF TypeOK, PushTail, cvars
  <1>4. ASSUME NEW c \in Cpus, PushReread(c) PROVE TypeOK'
    BY <1>0, <1>4 DEF TypeOK, PushReread, cvars
  <1>5. ASSUME NEW c \in Cpus, PushCas(c) PROVE TypeOK'
    <2>1. pc[c] = "cas"  BY <1>5 DEF PushCas
    <2>2. item[c] \in Items  BY <1>0, <2>1 DEF Locals
    <2>3. Append(claimed, item[c]) \in Seq(Items)  BY <1>0, <2>2 DEF TypeOK
    <2>4. claimed' \in Seq(Items)  BY <1>0, <1>5, <2>3 DEF TypeOK, PushCas
    <2>5. head' \in Nat  BY <1>0, <1>5 DEF TypeOK, PushCas
    <2>6. pc' \in [Cpus -> PushPoints]  BY <1>0, <1>5 DEF TypeOK, PushCas
    <2> QED  BY <1>0, <1>5, <2>4, <2>5, <2>6 DEF TypeOK, PushCas, cvars
  <1>6. ASSUME NEW c \in Cpus, PushCopy(c) PROVE TypeOK'
    BY <1>0, <1>6 DEF TypeOK, PushCopy, cvars
  <1>7. ASSUME NEW c \in Cpus, PushRelease(c) PROVE TypeOK'
    BY <1>0, <1>7 DEF TypeOK, PushRelease, cvars
  <1>8. CASE PopBegin  BY <1>0, <1>8 DEF TypeOK, PopBegin, pvars
  <1>9. CASE PopHead  BY <1>0, <1>9 DEF TypeOK, PopHead, pvars
  <1>10. ASSUME NEW c \in Cpus, PopScan(c) PROVE TypeOK'
    BY <1>0, <1>10 DEF TypeOK, PopScan, pvars
  <1>11. CASE PopBusy  BY <1>0, <1>11 DEF TypeOK, PopBusy, pvars
  <1>12. CASE PopReady  BY <1>0, <1>12 DEF TypeOK, PopReady, pvars
  <1>13. CASE PopCopy
    <2>1. Slot(ctail) \in 0..(QSize - 1)  BY <1>0, SlotType DEF TypeOK
    <2> QED  BY <1>0, <1>13, <2>1 DEF TypeOK, PopCopy, pvars
  <1>14. CASE PopAdvance  BY <1>0, <1>14 DEF TypeOK, PopAdvance, pvars
  <1>15. CASE UNCHANGED wqvars  BY <1>0, <1>15 DEF TypeOK, wqvars, pvars, cvars
  <1> QED
    BY <1>1, <1>2, <1>3, <1>4, <1>5, <1>6, <1>7, <1>8, <1>9, <1>10, <1>11,
       <1>12, <1>13, <1>14, <1>15 DEF Next, PushStep, PopStep

\* Every step preserves the invariant.
LEMMA StepIInv ==
    ASSUME IInv, [Next]_wqvars
    PROVE  IInv'
  <1> USE QSizeAssumption, BudgetAssumption
  <1>0. TypeOK /\ TypeOK'  BY TypeStep DEF IInv
  <1>h. /\ head \in Nat /\ tail \in Nat /\ last_head \in Nat /\ ctail \in Nat
        /\ \A c \in Cpus : h[c] \in Nat /\ heads[c] \in Nat
        /\ claimed \in Seq(Items)
    BY <1>0 DEF TypeOK
  <1>i. /\ Counters /\ Locals /\ Guards /\ Owned /\ Filled /\ BoundSafe /\ Consumer
        /\ TicketPositive
    BY DEF IInv
  <1>1. ASSUME NEW c \in Cpus, NEW it \in Items, PushBegin(c, it) PROVE IInv'
    <2> USE <1>0, <1>h, <1>i, <1>1 DEF PushBegin, cvars
    <2>1. Counters'  BY DEF Counters
    <2>2. Locals'  BY DEF Locals, TypeOK, Counters
    <2>3. Guards'  BY DEF Guards, Guarded, TypeOK
    <2>4. Owned'  BY DEF Owned, TypeOK
    <2>5. Filled'  BY DEF Filled, TypeOK
    <2>6. BoundSafe' /\ Consumer'  BY DEF BoundSafe, Consumer, TypeOK
    <2>7. TicketPositive'  BY DEF TicketPositive, TypeOK
    <2> QED  BY <2>1, <2>2, <2>3, <2>4, <2>5, <2>6, <2>7 DEF IInv
  <1>2. ASSUME NEW c \in Cpus, PushGuard(c) PROVE IInv'
    <2> USE <1>0, <1>h, <1>i, <1>2 DEF PushGuard, cvars
    <2>1. Counters'  BY DEF Counters
    <2>2. Locals'  BY DEF Locals, TypeOK
    <2>3. Guards'  BY DEF Guards, Guarded, TypeOK
    <2>4. Owned'  BY DEF Owned, TypeOK
    <2>5. Filled'  BY DEF Filled, TypeOK
    <2>6. BoundSafe' /\ Consumer'  BY DEF BoundSafe, Consumer, TypeOK
    <2>7. TicketPositive'  BY DEF TicketPositive, TypeOK
    <2> QED  BY <2>1, <2>2, <2>3, <2>4, <2>5, <2>6, <2>7 DEF IInv
  <1>3. ASSUME NEW c \in Cpus, PushTail(c) PROVE IInv'
    <2> USE <1>0, <1>h, <1>i
    <2>p. /\ pc[c] = "tail" /\ budget[c] > 0 /\ budget[c] \in 0..Budget
          /\ h[c] <= head /\ h[c] <= tail + QSize
      <3>1. pc[c] = "tail"  BY <1>3 DEF PushTail
      <3>2. budget[c] > 0 /\ h[c] <= head  BY <3>1 DEF Locals
      <3>3. budget[c] \in 0..Budget  BY DEF TypeOK
      <3>4. h[c] <= tail + QSize  BY <3>2 DEF Counters
      <3> QED  BY <3>1, <3>2, <3>3, <3>4
    <2>u. UNCHANGED <<heads, array, last_head, head, tail, h, item, cvars, claimed, out>>
      BY <1>3 DEF PushTail
    <2>d. \A d \in Cpus \ {c} :
            pc'[d] = pc[d] /\ budget'[d] = budget[d] /\ ticket'[d] = ticket[d]
      BY <1>3 DEF PushTail, TypeOK
    <2>c. \/ pc'[c] = "reread" /\ budget'[c] = budget[c] - 1 /\ budget[c] # 1
          \/ /\ pc'[c] = "release" /\ budget'[c] = 0
             /\ ticket'[c] = h[c] /\ h[c] = tail + QSize
          \/ pc'[c] = "cas" /\ budget'[c] = budget[c] /\ h[c] # tail + QSize
      BY <1>3, <2>p DEF PushTail, TypeOK
    <2>1. Counters'  BY <2>u DEF Counters
    <2>2. Locals'
      \* the budget reaches 0 only together with "release", and a head that is not
      \* at the limit is below it
      <3>1. SUFFICES ASSUME NEW d \in Cpus
                     PROVE  /\ h'[d] <= head'
                            /\ pc'[d] # "idle" => item'[d] \in Items
                            /\ pc'[d] = "cas" => h'[d] < tail' + QSize
                            /\ pc'[d] \notin {"idle", "release"} => budget'[d] > 0
        BY DEF Locals
      <3>2. CASE d = c  BY <3>2, <2>p, <2>u, <2>c, SMTT(60) DEF Locals
      <3>3. CASE d # c  BY <3>3, <2>u, <2>d DEF Locals
      <3> QED  BY <3>2, <3>3
    <2>3. Guards'  BY <2>p, <2>u, <2>c, <2>d DEF Guards, Guarded
    <2>4. Owned'
      <3>1. \A d \in Cpus : pc'[d] = "copy" => d # c /\ pc[d] = "copy"
        BY <2>c, <2>d
      <3> QED  BY <3>1, <2>u DEF Owned
    <2>5. Filled'
      <3>1. \A d \in Cpus : pc[d] = "copy" => pc'[d] = "copy"  BY <2>p, <2>d
      <3> QED  BY <3>1, <2>u DEF Filled
    <2>6. BoundSafe' /\ Consumer'
      <3>1. \A d \in Cpus : pc'[d] = "copy" => pc[d] = "copy"  BY <2>c, <2>d
      <3> QED  BY <3>1, <2>u DEF BoundSafe, Consumer, cvars
    <2>7. TicketPositive'
      <3>1. SUFFICES ASSUME NEW d \in Cpus, pc'[d] = "release", budget'[d] = 0
                     PROVE  ticket'[d] >= QSize /\ ticket'[d] <= head'
        BY DEF TicketPositive
      <3>2. CASE d = c  BY <3>1, <3>2, <2>p, <2>u, <2>c
      <3>3. CASE d # c  BY <3>1, <3>3, <2>u, <2>d DEF TicketPositive
      <3> QED  BY <3>2, <3>3
    <2> QED  BY <2>1, <2>2, <2>3, <2>4, <2>5, <2>6, <2>7 DEF IInv
  <1>4. ASSUME NEW c \in Cpus, PushReread(c) PROVE IInv'
    <2> USE <1>0, <1>h, <1>i, <1>4 DEF PushReread, cvars
    <2>1. Counters'  BY DEF Counters
    <2>2. Locals'  BY DEF Locals, TypeOK, Counters
    <2>3. Guards'
      \* the guard keeps the first head that was read, the local moves up
      <3>1. h[c] <= head /\ heads[c] <= h[c]  BY DEF Locals, Guards, Guarded
      <3> QED  BY <3>1 DEF Guards, Guarded, TypeOK
    <2>4. Owned'  BY DEF Owned, TypeOK
    <2>5. Filled'  BY DEF Filled, TypeOK
    <2>6. BoundSafe' /\ Consumer'  BY DEF BoundSafe, Consumer, TypeOK
    <2>7. TicketPositive'  BY DEF TicketPositive, TypeOK
    <2> QED  BY <2>1, <2>2, <2>3, <2>4, <2>5, <2>6, <2>7 DEF IInv
  <1>5. ASSUME NEW c \in Cpus, PushCas(c) PROVE IInv'
    <2> USE <1>0, <1>h, <1>i DEF cvars
    <2>p. pc[c] = "cas" /\ h[c] < tail + QSize /\ item[c] \in Items
      BY <1>5 DEF PushCas, Locals
    <2>a. CASE head # h[c]
      <3> USE <1>5, <2>a, <2>p DEF PushCas
      <3>1. Counters'  BY DEF Counters
      <3>2. Locals' /\ Guards'
        <4>1. Locals'  BY DEF Locals, TypeOK
        <4>2. Guards'  BY DEF Guards, Guarded, TypeOK
        <4> QED  BY <4>1, <4>2
      <3>3. Owned' /\ Filled'  BY ZenonT(60) DEF Owned, Filled, TypeOK
      <3>4. BoundSafe' /\ Consumer'  BY DEF BoundSafe, Consumer, TypeOK
      <3>5. TicketPositive'  BY DEF TicketPositive, TypeOK
      <3> QED  BY <3>1, <3>2, <3>3, <3>4, <3>5 DEF IInv
    <2>b. CASE head = h[c]
      <3>1. /\ head' = head + 1 /\ claimed' = Append(claimed, item[c])
            /\ pc' = [pc EXCEPT ![c] = "copy"]
            /\ UNCHANGED <<heads, array, last_head, tail, h, budget, item, ticket, cvars, out>>
        BY <1>5, <2>b DEF PushCas
      <3>2. /\ Len(claimed') = head + 1
            /\ claimed'[head + 1] = item[c]
            /\ \A p \in 1..head : claimed'[p] = claimed[p]
        BY <3>1, <2>p DEF Counters
      <3>3. Counters'  BY <3>1, <3>2, <2>p, <2>b DEF Counters
      <3>4. Locals' /\ Guards'
        <4>1. Locals'  BY <3>1, <2>p, SMTT(30) DEF Locals, TypeOK
        <4>2. Guards'  BY <3>1, <2>p DEF Guards, Guarded, TypeOK
        <4> QED  BY <4>1, <4>2
      <3>5. Owned'
        \* the new owner is at the old head, all the others below it
        <4>1. \A d \in Cpus : pc[d] = "copy" =>
                 claimed'[h[d] + 1] = item[d] /\ h[d] < head
          BY <3>2 DEF Owned
        <4>2. tail <= head  BY DEF Counters
        <4>3. \A d \in Cpus : pc'[d] = "copy" => (d = c \/ pc[d] = "copy")
          BY <3>1 DEF TypeOK
        <4>4. \A d \in Cpus : pc'[d] = "copy" =>
                 tail <= h[d] /\ h[d] < head + 1 /\ claimed'[h[d] + 1] = item[d]
          BY <2>b, <3>2, <4>1, <4>2, <4>3 DEF Owned
        <4>5. \A d, e \in Cpus :
                 (d # e /\ pc'[d] = "copy" /\ pc'[e] = "copy") => h[d] # h[e]
          BY <2>b, <4>1, <4>3 DEF Owned
        <4> QED  BY <3>1, <4>4, <4>5 DEF Owned
      <3>6. Filled'
        <4> SUFFICES ASSUME NEW p \in tail..head
                     PROVE  \/ \E d \in Cpus : pc'[d] = "copy" /\ h[d] = p
                            \/ array[Slot(p)] = claimed'[p + 1]
          <5>1. head' - 1 = head /\ tail' = tail /\ h' = h /\ array' = array  BY <3>1
          <5> QED  BY <5>1 DEF Filled
        <4>1. CASE p = head  BY <4>1, <2>b, <3>1, <2>p DEF TypeOK
        <4>2. CASE p # head
          <5>1. p \in tail..(head - 1) /\ p + 1 \in 1..head  BY <4>2
          <5>2. claimed'[p + 1] = claimed[p + 1]  BY <5>1, <3>2
          <5>3. CASE \E d \in Cpus : pc[d] = "copy" /\ h[d] = p
            BY <5>3, <3>1, <2>p DEF TypeOK
          <5>4. CASE array[Slot(p)] = claimed[p + 1]  BY <5>4, <5>2
          <5> QED  BY <5>1, <5>3, <5>4 DEF Filled
        <4> QED  BY <4>1, <4>2
      <3>7. BoundSafe'
        BY <2>b, <3>1 DEF BoundSafe, Counters, TypeOK
      <3>8. Consumer'
        <4>1. cpc = "advance" => (ctail + 1 \in 1..head)
          BY DEF Consumer, Counters
        <4>2. cpc = "advance" => claimed'[ctail + 1] = claimed[ctail + 1]
          BY <4>1, <3>2
        <4> QED  BY <4>2, <3>1 DEF Consumer
      <3>9. TicketPositive'  BY <3>1, <2>p, SMTT(30) DEF TicketPositive, TypeOK
      <3> QED  BY <3>3, <3>4, <3>5, <3>6, <3>7, <3>8, <3>9 DEF IInv
    <2> QED  BY <2>a, <2>b
  <1>6. ASSUME NEW c \in Cpus, PushCopy(c) PROVE IInv'
    <2> USE <1>0, <1>h, <1>i, <1>6 DEF PushCopy, cvars
    <2>1. Counters'  BY DEF Counters
    <2>2. Locals'  BY DEF Locals, TypeOK
    <2>3. Guards'  BY DEF Guards, Guarded, TypeOK
    <2>4. Owned'  BY DEF Owned, TypeOK
    <2>5. Filled'
      <3>1. /\ pc[c] = "copy" /\ tail <= h[c] /\ h[c] < head /\ head <= tail + QSize
            /\ claimed[h[c] + 1] = item[c]
        BY DEF Owned, Counters
      <3>2. Slot(h[c]) \in 0..(QSize - 1)  BY SlotType
      <3> SUFFICES ASSUME NEW p \in tail..(head - 1)
                   PROVE  \/ \E d \in Cpus : pc'[d] = "copy" /\ h[d] = p
                          \/ array'[Slot(p)] = claimed[p + 1]
        BY DEF Filled
      <3>3. CASE p = h[c]
        <4>1. array'[Slot(h[c])] = item[c]  BY <3>2 DEF TypeOK
        <4> QED  BY <4>1, <3>1, <3>3
      <3>4. CASE p # h[c]
        \* another position of the same lap: its slot is not written
        <4>1. p \in Nat /\ p < h[c] + QSize /\ h[c] < p + QSize  BY <3>1
        <4>2. Slot(p) # Slot(h[c])  BY <3>4, <4>1, SlotInjective
        <4>3. Slot(p) \in 0..(QSize - 1)  BY <4>1, SlotType
        <4>4. array'[Slot(p)] = array[Slot(p)]  BY <4>2, <4>3, <3>2 DEF TypeOK
        <4>5. CASE \E d \in Cpus : pc[d] = "copy" /\ h[d] = p
          <5>1. PICK d \in Cpus : pc[d] = "copy" /\ h[d] = p  BY <4>5
          <5>2. d # c  BY <5>1, <3>4
          <5>3. pc'[d] = "copy"  BY <5>1, <5>2 DEF TypeOK
          <5> QED  BY <5>1, <5>3
        <4>6. CASE array[Slot(p)] = claimed[p + 1]  BY <4>6, <4>4
        <4> QED  BY <4>5, <4>6 DEF Filled
      <3> QED  BY <3>3, <3>4
    <2>6. BoundSafe' /\ Consumer'  BY DEF BoundSafe, Consumer, TypeOK
    <2>7. TicketPositive'
      \* a push that succeeded has budget left
      <3>1. pc[c] = "copy" /\ budget'[c] > 0  BY DEF Locals, TypeOK
      <3> SUFFICES ASSUME NEW d \in Cpus, pc'[d] = "release", budget'[d] = 0
                   PROVE  ticket'[d] >= QSize /\ ticket'[d] <= head'
        BY DEF TicketPositive
      <3>2. d # c  BY <3>1
      <3>3. pc[d] = "release" /\ budget[d] = 0 /\ ticket'[d] = ticket[d]
        BY <3>2 DEF TypeOK
      <3> QED  BY <3>3 DEF TicketPositive
    <2> QED  BY <2>1, <2>2, <2>3, <2>4, <2>5, <2>6, <2>7 DEF IInv
  <1>7. ASSUME NEW c \in Cpus, PushRelease(c) PROVE IInv'
    <2> USE <1>0, <1>h, <1>i, <1>7 DEF PushRelease, cvars
    <2>1. Counters'  BY DEF Counters
    <2>2. Locals'  BY DEF Locals, TypeOK
    <2>3. Guards'  BY DEF Guards, Guarded, TypeOK
    <2>4. Owned'  BY DEF Owned, TypeOK
    <2>5. Filled'  BY DEF Filled, TypeOK
    <2>6. BoundSafe' /\ Consumer'  BY DEF BoundSafe, Consumer, TypeOK
    <2>7. TicketPositive'  BY DEF TicketPositive, TypeOK
    <2> QED  BY <2>1, <2>2, <2>3, <2>4, <2>5, <2>6, <2>7 DEF IInv
  <1>8. CASE PopBegin
    <2> USE <1>0, <1>h, <1>i, <1>8 DEF PopBegin, pvars
    <2>1. Counters'  BY DEF Counters
    <2>2. Locals'  BY DEF Locals, TypeOK
    <2>3. Guards'  BY DEF Guards, Guarded, TypeOK
    <2>4. Owned'  BY DEF Owned, TypeOK
    <2>5. Filled'  BY DEF Filled, TypeOK
    <2>6. BoundSafe' /\ Consumer'  BY DEF BoundSafe, Consumer, Counters, TypeOK
    <2>7. TicketPositive'  BY DEF TicketPositive, TypeOK
    <2> QED  BY <2>1, <2>2, <2>3, <2>4, <2>5, <2>6, <2>7 DEF IInv
  <1>9. CASE PopHead
    <2> USE <1>0, <1>h, <1>i, <1>9 DEF PopHead, pvars
    <2>1. Counters'  BY DEF Counters
    <2>2. Locals'  BY DEF Locals, TypeOK
    <2>3. Guards'  BY DEF Guards, Guarded, TypeOK
    <2>4. Owned'  BY DEF Owned, TypeOK
    <2>5. Filled'  BY DEF Filled, TypeOK
    <2>6. BoundSafe' /\ Consumer'  BY DEF BoundSafe, Consumer, Counters, TypeOK
    <2>7. TicketPositive'  BY DEF TicketPositive, TypeOK
    <2> QED  BY <2>1, <2>2, <2>3, <2>4, <2>5, <2>6, <2>7 DEF IInv
  <1>10. ASSUME NEW c \in Cpus, PopScan(c) PROVE IInv'
    <2> USE <1>0, <1>h, <1>i, <1>10 DEF PopScan, pvars
    <2>1. Counters'  BY DEF Counters
    <2>2. Locals'  BY DEF Locals, TypeOK
    <2>3. Guards'  BY DEF Guards, Guarded, TypeOK
    <2>4. Owned'  BY DEF Owned, TypeOK
    <2>5. Filled'  BY DEF Filled, TypeOK
    <2>6. BoundSafe' /\ Consumer'
      \* the guard of c is at or below the position c copies to
      <3>1. pc[c] = "copy" => heads[c] <= h[c]  BY DEF Guards, Guarded
      <3> QED  BY <3>1, SMTT(30) DEF BoundSafe, Consumer, Counters, TypeOK
    <2>7. TicketPositive'  BY DEF TicketPositive, TypeOK
    <2> QED  BY <2>1, <2>2, <2>3, <2>4, <2>5, <2>6, <2>7 DEF IInv
  <1>11. CASE PopBusy
    <2> USE <1>0, <1>h, <1>i, <1>11 DEF PopBusy, pvars
    <2>1. Counters'  BY DEF Counters
    <2>2. Locals'  BY DEF Locals, TypeOK
    <2>3. Guards'  BY DEF Guards, Guarded, TypeOK
    <2>4. Owned'  BY DEF Owned, TypeOK
    <2>5. Filled'  BY DEF Filled, TypeOK
    <2>6. BoundSafe' /\ Consumer'  BY DEF BoundSafe, Consumer, Counters, TypeOK
    <2>7. TicketPositive'  BY DEF TicketPositive, TypeOK
    <2> QED  BY <2>1, <2>2, <2>3, <2>4, <2>5, <2>6, <2>7 DEF IInv
  <1>12. CASE PopReady
    <2> USE <1>0, <1>h, <1>i, <1>12 DEF PopReady, pvars
    <2>1. Counters'  BY DEF Counters
    <2>2. Locals'  BY DEF Locals, TypeOK
    <2>3. Guards'  BY DEF Guards, Guarded, TypeOK
    <2>4. Owned'  BY DEF Owned, TypeOK
    <2>5. Filled'  BY DEF Filled, TypeOK
    <2>6. BoundSafe' /\ Consumer'  BY DEF BoundSafe, Consumer, Counters, TypeOK
    <2>7. TicketPositive'  BY DEF TicketPositive, TypeOK
    <2> QED  BY <2>1, <2>2, <2>3, <2>4, <2>5, <2>6, <2>7 DEF IInv
  <1>13. CASE PopCopy
    <2> USE <1>0, <1>h, <1>i, <1>13 DEF PopCopy, pvars
    <2>1. Counters'  BY DEF Counters
    <2>2. Locals'  BY DEF Locals, TypeOK
    <2>3. Guards'  BY DEF Guards, Guarded, TypeOK
    <2>4. Owned'  BY DEF Owned, TypeOK
    <2>5. Filled'  BY DEF Filled, TypeOK
    <2>6. BoundSafe' /\ Consumer'
      \* below the bound nothing is being copied, so the slot holds its item
      <3>1. ctail = tail /\ ctail < last_head /\ last_head <= head
        BY DEF Consumer, Counters
      <3>2. ~ \E c \in Cpus : pc[c] = "copy" /\ h[c] = ctail
        BY <3>1 DEF BoundSafe
      <3>3. array[Slot(ctail)] = claimed[ctail + 1]
        BY <3>1, <3>2 DEF Filled
      <3> QED  BY <3>1, <3>3 DEF BoundSafe, Consumer, TypeOK
    <2>7. TicketPositive'  BY DEF TicketPositive, TypeOK
    <2> QED  BY <2>1, <2>2, <2>3, <2>4, <2>5, <2>6, <2>7 DEF IInv
  <1>14. CASE PopAdvance
    <2> USE <1>0, <1>h, <1>i, <1>14 DEF PopAdvance, pvars
    <2>a. ctail = tail /\ tail < last_head /\ last_head <= head  BY DEF Consumer, Counters
    <2>b. \A c \in Cpus : pc[c] = "copy" => tail + 1 <= h[c]
      BY <2>a DEF BoundSafe
    <2>1. Counters'  BY <2>a DEF Counters
    <2>2. Locals'  BY <2>a DEF Locals, TypeOK
    <2>3. Guards'  BY DEF Guards, Guarded, TypeOK
    <2>4. Owned'  BY <2>a, <2>b DEF Owned, TypeOK
    <2>5. Filled'  BY <2>a DEF Filled, TypeOK
    <2>6. BoundSafe' /\ Consumer'  BY <2>a DEF BoundSafe, Consumer, TypeOK
    <2>7. TicketPositive'  BY DEF TicketPositive, TypeOK
    <2> QED  BY <2>1, <2>2, <2>3, <2>4, <2>5, <2>6, <2>7 DEF IInv
  <1>15. CASE UNCHANGED wqvars
    <2> USE <1>0, <1>i, <1>15 DEF wqvars, pvars, cvars
    <2>1. Counters' /\ Locals' /\ Guards'  BY DEF Counters, Locals, Guards, Guarded
    <2>2. Owned' /\ Filled' /\ BoundSafe'  BY DEF Owned, Filled, BoundSafe
    <2>3. Consumer' /\ TicketPositive'  BY DEF Consumer, TicketPositive
    <2> QED  BY <2>1, <2>2, <2>3 DEF IInv
  <1> QED
    BY <1>1, <1>2, <1>3, <1>4, <1>5, <1>6, <1>7, <1>8, <1>9, <1>10, <1>11,
       <1>12, <1>13, <1>14, <1>15 DEF Next, PushStep, PopStep

-----------------------------------------------------------------------------
\* The invariant holds in every reachable state.
THEOREM IInvariance == Spec => []IInv
  <1>1. IInv /\ [Next]_wqvars => IInv'  BY StepIInv
  <1> QED  BY <1>1, InitIInv, PTL DEF Spec

\* The variables of the ring keep their types, whatever the CPUs, the queue
\* size and the budget.
THEOREM TypeCorrect == Spec => []TypeOK
  <1>1. IInv => TypeOK  BY DEF IInv
  <1> QED  BY <1>1, IInvariance, PTL

\* The invariant excludes races on a slot: all owned positions and the
\* consumer's lie within one lap of the ring.
LEMMA IInvNoSlotRace == IInv => NoSlotRace
  <1> SUFFICES ASSUME IInv PROVE NoSlotRace  OBVIOUS
  <1> USE QSizeAssumption
  <1>h. /\ head \in Nat /\ tail \in Nat /\ last_head \in Nat /\ ctail \in Nat
        /\ \A c \in Cpus : h[c] \in Nat
    BY DEF IInv, TypeOK
  <1>i. Counters /\ Owned /\ BoundSafe /\ Consumer  BY DEF IInv
  <1>1. ASSUME NEW c \in Cpus, NEW d \in Cpus, c # d, pc[c] = "copy", pc[d] = "copy"
        PROVE  Slot(h[c]) # Slot(h[d])
    <2>1. h[c] # h[d]  BY <1>i, <1>1 DEF Owned
    <2>2. h[c] < h[d] + QSize /\ h[d] < h[c] + QSize
      BY <1>h, <1>i, <1>1 DEF Owned, Counters
    <2> QED  BY <1>h, <2>1, <2>2, SlotInjective
  <1>2. ASSUME NEW c \in Cpus, pc[c] = "copy", cpc = "copy"
        PROVE  Slot(h[c]) # Slot(ctail)
    <2>1. ctail = tail /\ ctail < last_head /\ last_head <= h[c]
      BY <1>i, <1>2 DEF Consumer, BoundSafe
    <2>2. h[c] # ctail /\ h[c] < ctail + QSize /\ ctail < h[c] + QSize
      BY <1>h, <1>i, <1>2, <2>1 DEF Owned, Counters
    <2> QED  BY <1>h, <2>2, SlotInjective
  <1> QED  BY <1>1, <1>2 DEF NoSlotRace

\* No two memcpy() of work_queue.c ever meet in a slot.
THEOREM NoRace == Spec => []NoSlotRace
  BY IInvNoSlotRace, IInvariance, PTL

\* The consumer always fetches the item of the producer that acquired the
\* position.
THEOREM Fetched == Spec => []FetchedIsClaimed
  <1>1. IInv => FetchedIsClaimed
    BY DEF IInv, Consumer, Counters, FetchedIsClaimed, TypeOK
  <1> QED  BY <1>1, IInvariance, PTL

\* The WARN_ON_ONCE() of __tfw_wq_push() never fires.
THEOREM NeverAhead == Spec => []HeadNotAhead
  <1>1. IInv => HeadNotAhead
    <2> SUFFICES ASSUME IInv PROVE HeadNotAhead  OBVIOUS
    <2>1. head \in Nat /\ tail \in Nat /\ \A c \in Cpus : h[c] \in Nat
      BY DEF IInv, TypeOK
    <2>2. head <= tail + QSize /\ \A c \in Cpus : h[c] <= head
      BY DEF IInv, Counters, Locals
    <2> QED  BY <2>1, <2>2, QSizeAssumption DEF HeadNotAhead
  <1> QED  BY <1>1, IInvariance, PTL

\* A push that gives up returns a positive ticket that is not from the future.
THEOREM Tickets == Spec => []TicketPositive
  <1>1. IInv => TicketPositive  BY DEF IInv
  <1> QED  BY <1>1, IInvariance, PTL

\* The ring implements the bounded FIFO: the cmpxchg is the moment an item is
\* put, the store of tail the moment it is taken, and everything else stutters.
THEOREM ImplementsFifo == Spec => RefinesFifo
  <1>1. Init => Fifo!Init
    BY ItemsAssumption DEF Init, Fifo!Init
  <1>2. ASSUME IInv, [Next]_wqvars PROVE [Fifo!Next]_<<claimed, tail, out>>
    <2> USE QSizeAssumption
    <2>h. /\ head \in Nat /\ tail \in Nat /\ ctail \in Nat /\ last_head \in Nat
          /\ claimed \in Seq(Items)
      BY <1>2 DEF IInv, TypeOK
    <2>i. Counters /\ Locals /\ Consumer  BY <1>2 DEF IInv
    <2>1. ASSUME NEW c \in Cpus, PushCas(c) PROVE [Fifo!Next]_<<claimed, tail, out>>
      <3>1. CASE head = h[c]
        <4>1. pc[c] = "cas" /\ claimed' = Append(claimed, item[c]) /\ tail' = tail /\ out' = out
          BY <2>1, <3>1 DEF PushCas
        <4>2. item[c] \in Items /\ h[c] < tail + QSize  BY <2>i, <4>1 DEF Locals
        <4>3. Len(claimed) - tail < QSize  BY <2>h, <2>i, <3>1, <4>2 DEF Counters
        <4>4. Fifo!Put(item[c])  BY <4>1, <4>3 DEF Fifo!Put
        <4> QED  BY <4>2, <4>4 DEF Fifo!Next
      <3>2. CASE head # h[c]  BY <2>1, <3>2 DEF PushCas
      <3> QED  BY <3>1, <3>2
    <2>2. CASE PopAdvance
      <3>1. ctail = tail /\ tail < Len(claimed) /\ buf = claimed[tail + 1]
        BY <2>h, <2>i, <2>2 DEF PopAdvance, Consumer, Counters
      <3>2. Fifo!Take  BY <2>2, <3>1 DEF PopAdvance, Fifo!Take
      <3> QED  BY <3>2 DEF Fifo!Next
    <2>3. ASSUME NEW c \in Cpus, NEW it \in Items, PushBegin(c, it)
          PROVE  UNCHANGED <<claimed, tail, out>>
      BY <2>3 DEF PushBegin
    <2>4. ASSUME NEW c \in Cpus,
                 PushGuard(c) \/ PushTail(c) \/ PushReread(c) \/ PushCopy(c) \/ PushRelease(c)
          PROVE  UNCHANGED <<claimed, tail, out>>
      BY <2>4 DEF PushGuard, PushTail, PushReread, PushCopy, PushRelease
    <2>5. ASSUME NEW c \in Cpus, PopScan(c) PROVE UNCHANGED <<claimed, tail, out>>
      BY <2>5 DEF PopScan
    <2>6. CASE PopBegin \/ PopHead \/ PopBusy \/ PopReady \/ PopCopy
      BY <2>6 DEF PopBegin, PopHead, PopBusy, PopReady, PopCopy
    <2>7. CASE UNCHANGED wqvars  BY <2>7 DEF wqvars
    <2> QED  BY <1>2, <2>1, <2>2, <2>3, <2>4, <2>5, <2>6, <2>7 DEF Next, PushStep, PopStep
  <1>3. IInv /\ [Next]_wqvars => [Fifo!Next]_<<claimed, tail, out>>  BY <1>2
  <1> QED  BY <1>1, <1>3, IInvariance, PTL DEF Spec, RefinesFifo, Fifo!Spec
=============================================================================
