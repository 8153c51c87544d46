------------------------------- MODULE Rounds -------------------------------
(***************************************************************************)
(* What sd_barrier promises to the processes of a domain: rounds.  A round *)
(* is complete when everybody has entered it, and who has entered returns  *)
(* after that.  The barrier may break, and stays broken.  Nothing of this  *)
(* is about counters, mutexes or condition variables.                      *)
(***************************************************************************)
EXTENDS Naturals

CONSTANT Procs

VARIABLES
    inside,     \* the processes that have entered the round that is not complete
    round,      \* how many rounds are complete
    passes,     \* how many rounds a process has returned from with success
    failed      \* whether the barrier is broken

rvars == <<inside, round, passes, failed>>

NoRound == inside = {} /\ round = 0 /\ passes = [p \in Procs |-> 0] /\ failed = FALSE

\* A process that has returned from all rounds so far enters the next one.
Enter(p) ==
    /\ ~failed /\ p \notin inside /\ passes[p] = round
    /\ IF inside \cup {p} = Procs THEN inside' = {} /\ round' = round + 1
       ELSE inside' = inside \cup {p} /\ UNCHANGED round
    /\ UNCHANGED <<passes, failed>>

\* A process returns from the last round that is complete.
Pass(p) ==
    /\ ~failed /\ p \notin inside /\ passes[p] + 1 = round
    /\ passes' = [passes EXCEPT ![p] = @ + 1]
    /\ UNCHANGED <<inside, round, failed>>

Break == ~failed /\ failed' = TRUE /\ UNCHANGED <<inside, round, passes>>

RoundsSpec == NoRound /\ [][Break \/ \E p \in Procs : Enter(p) \/ Pass(p)]_rvars
=============================================================================
