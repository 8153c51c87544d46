----------------------------- MODULE ByteQueue -----------------------------
(***************************************************************************)
(* What a buffer of a shared communication domain promises to those who    *)
(* write to it and read from it: a queue of at most Capacity bytes.        *)
(* Nothing of this is about indices, mutexes or condition variables.       *)
(***************************************************************************)
EXTENDS Naturals, Sequences

CONSTANT Capacity

VARIABLES queue, delivered

qvars == <<queue, delivered>>

Empty == queue = << >> /\ delivered = << >>

\* Some bytes are put behind those that are there.
Put ==
    /\ Len(queue') \in Len(queue) + 1 .. Capacity
    /\ SubSeq(queue', 1, Len(queue)) = queue
    /\ UNCHANGED delivered

\* The first n bytes are delivered.
Get == \E n \in 1 .. Len(queue) :
    /\ delivered' = delivered \o SubSeq(queue, 1, n)
    /\ queue' = SubSeq(queue, n + 1, Len(queue))

QueueSpec == Empty /\ [][Put \/ Get]_qvars
=============================================================================
