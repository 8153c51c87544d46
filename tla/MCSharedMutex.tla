---------------------------- MODULE MCSharedMutex ----------------------------
(* The instance of SharedMutex for TLC: a process with two threads and one   *)
(* with a single thread, the latter and one of the former with masks of      *)
(* their own.                                                                *)
EXTENDS SharedMutex

CONSTANTS t1, t2, t3, SIGHUP, SIGUSR1

\* Nobody blocks SIGTERM outside of the mutex, as in a program that uses
\* shared_rts.c.
DifferentMasks ==
    [t \in Threads \cup {Creator} |->
       CASE t = t2 -> {SIGHUP} [] t = t3 -> {SIGUSR1} [] OTHER -> {}]
=============================================================================
