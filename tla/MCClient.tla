---- MODULE MCClient ----
EXTENDS Client
====
