---------------------------- MODULE MCUdpSession ----------------------------
(* Two sessions as model values for TLC.                                    *)
EXTENDS UdpSession

CONSTANTS s1, s2
=============================================================================
