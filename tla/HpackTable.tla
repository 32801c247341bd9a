----------------------------- MODULE HpackTable -----------------------------
(***************************************************************************)
(* What the encoder's dynamic table promises (RFC 7541, 2.3.2 and 4): a    *)
(* list of header fields, the oldest first, whose total size is bounded.   *)
(* A field that is added, or a smaller bound, evicts the oldest fields and *)
(* no more of them than needed.  Nothing else ever changes the table, so   *)
(* that the other side, which is told of every addition and every bound,   *)
(* can keep the same list.                                                 *)
(***************************************************************************)
EXTENDS Integers, Sequences

CONSTANTS Fields,       \* header fields
          FieldSize(_), \* size of a field with the overhead of an entry
          MaxSize       \* the largest bound

VARIABLES entries,      \* the list, the oldest field first
          bound

\* The size of a list.
SizeOf(es) ==
    LET sum[k \in 0..Len(es)] == IF k = 0 THEN 0 ELSE sum[k-1] + FieldSize(es[k])
    IN  sum[Len(es)]

From(es, k) == SubSeq(es, k + 1, Len(es))

\* es without as many of its oldest entries as it takes to get to size n.
Evicted(es, n) ==
    From(es, CHOOSE k \in 0..Len(es) :
                 /\ SizeOf(From(es, k)) <= n
                 /\ \A j \in 0..(k-1) : SizeOf(From(es, j)) > n)

Init == entries = <<>> /\ bound = MaxSize

\* A field that is larger than the bound is not offered.
Added(es, f) == Append(Evicted(es, bound - FieldSize(f)), f)

Fitting == {f \in Fields : FieldSize(f) <= bound}

\* A response adds fields of its headers and of its trailers, one after another.
Add ==
    /\ \/ \E f \in Fitting : entries' = Added(entries, f)
       \/ \E f, g \in Fitting : entries' = Added(Added(entries, f), g)
    /\ UNCHANGED bound

SetBound(n) ==
    /\ bound' = n
    /\ entries' = Evicted(entries, n)

Next == Add \/ \E n \in 0..MaxSize : SetBound(n)

Spec == Init /\ [][Next]_<<entries, bound>>
=============================================================================
