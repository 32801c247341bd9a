------------------------------ MODULE MCH2Conn ------------------------------
EXTENDS H2Conn

\* Headers in two frames and a body that exceeds the window; headers in one
\* frame and trailers in three.
MCResponses == {[h |-> 3, b |-> 2, t |-> 0], [h |-> 1, b |-> 0, t |-> 5]}
=============================================================================
