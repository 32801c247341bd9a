---------------------------- MODULE MCWorkQueue ----------------------------
(* Small instances of WorkQueue for TLC.                                   *)
EXTENDS WorkQueue, TLC
CONSTANTS c1, c2, c3, w1, w2

\* CPUs other than the consumer's are interchangeable, and so are the items.
Symmetry == Permutations(Cpus \ {Home}) \cup Permutations(Items)
=============================================================================
