----------------------------- MODULE FifoQueue -----------------------------
(***************************************************************************)
(* What the users of a TfwRBQueue rely on: a bounded FIFO.  Every item     *)
(* that is put is taken exactly once and in the order of the puts, and at  *)
(* most QSize items are waiting.                                           *)
(***************************************************************************)
EXTENDS Integers, Sequences

CONSTANTS Items, QSize

VARIABLES
    log,    \* all the items put so far, in order
    taken,  \* how many of them have been taken
    last    \* the item taken last

Init ==
    /\ log = <<>>
    /\ taken = 0
    /\ last \notin Items

Put(it) ==
    /\ Len(log) - taken < QSize
    /\ log' = Append(log, it)
    /\ UNCHANGED <<taken, last>>

Take ==
    /\ taken < Len(log)
    /\ last' = log[taken + 1]
    /\ taken' = taken + 1
    /\ UNCHANGED log

Next == (\E it \in Items : Put(it)) \/ Take

Spec == Init /\ [][Next]_<<log, taken, last>>
=============================================================================
