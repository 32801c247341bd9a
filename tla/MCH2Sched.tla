----------------------------- MODULE MCH2Sched -----------------------------
EXTENDS H2Sched
=============================================================================
