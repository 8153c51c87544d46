--------------------------- MODULE MCSharedBuffer ---------------------------
(* The instance of SharedBuffer for TLC: two writers, a process with two    *)
(* reading threads, and the creator of the domain, which may shut down.     *)
EXTENDS SharedBuffer, TLC

CONSTANTS w1, w2, r1, r2, c

W(n) == [side |-> "write", n |-> n]
R(n) == [side |-> "read", n |-> n]

\* Calls larger than the ring, calls that wrap, an empty call, and readers
\* whose requests cut across the borders of the writes.
Balanced == w1 :> <<W(3)>> @@ w2 :> <<W(2)>>
            @@ r1 :> <<R(1), R(0)>> @@ r2 :> <<R(4)>> @@ c :> << >>

\* The readers want more than the writers have.
Unbalanced == w1 :> <<W(1)>> @@ w2 :> <<W(2)>>
              @@ r1 :> <<R(2)>> @@ r2 :> <<R(3)>> @@ c :> << >>

MCPrograms == {Balanced, Unbalanced}

\* A writer may be killed, and the reading process with both of its threads.
MCMortal == {{w1}, {r1, r2}}

\* If the bytes to be written and read balance, nobody dies and nobody shuts
\* down, then all calls of sd_write and sd_read return, successfully.
AllTransfersComplete ==
    todo = Balanced /\ [](NobodyDied /\ ~terminating)
        => <>[](\A t \in Threads : pc[t] = "idle" /\ todo[t] = << >> /\ ok[t])
=============================================================================
