---------------------------- MODULE MCMultiplexor ----------------------------
(* Two connections as model values for TLC.                                 *)
EXTENDS Multiplexor

CONSTANTS c1, c2
=============================================================================
