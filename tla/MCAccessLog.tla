---- MODULE MCAccessLog ----
EXTENDS AccessLog
====
