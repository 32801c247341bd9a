----------------------------- MODULE MCHpackEnc -----------------------------
EXTENDS HpackEnc

\* Nodes of two, three, four and six units; two fields share a name.
MCFields == {[n |-> "a", v |-> 1, len |-> 1], [n |-> "a", v |-> 2, len |-> 5],
             [n |-> "b", v |-> 1, len |-> 2], [n |-> "c", v |-> 1, len |-> 8]}
=============================================================================
