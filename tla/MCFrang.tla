------------------------------ MODULE MCFrang ------------------------------
EXTENDS Frang, TLC

MCRate == [k \in Kinds |-> IF k = "conn_new" THEN 2 ELSE 1]
MCBurst == [k \in Kinds |-> IF k \in {"conn_new", "tls_sess_new"} THEN 1 ELSE 0]

Symmetry == Permutations(Cpus)
=============================================================================
