----------------------------- MODULE MCFwdQueue -----------------------------
(* Small instances of FwdQueue: up to three requests, one or two            *)
(* connections.                                                             *)
EXTENDS FwdQueue, TLC

CONSTANTS r1, r2, ws, c1, c2

Symmetry == Permutations(Conns)
=============================================================================
