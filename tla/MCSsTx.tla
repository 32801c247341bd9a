------------------------------- MODULE MCSsTx -------------------------------
(* Small instances of SsTx for TLC.                                        *)
EXTENDS SsTx, TLC
CONSTANTS c1, c2, c3
=============================================================================
