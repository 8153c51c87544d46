--------------------------- MODULE MCSharedBarrier ---------------------------
(* The processes of SharedBarrier for TLC.                                   *)
EXTENDS SharedBarrier, TLC

CONSTANTS p1, p2, p3, parent
=============================================================================
