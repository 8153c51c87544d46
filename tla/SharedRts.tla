------------------------------ MODULE SharedRts ------------------------------
(***************************************************************************)
(* shared_rts_run of shared_rts.c: the master forks the workers of a       *)
(* domain, puts them into a process group, waits for the group, shuts the  *)
(* domain down and terminates the group when a worker fails, and frees the *)
(* domain.  The workers are modelled by what the master can see of them,   *)
(* and by whether they are inside an operation of the domain, or asleep in *)
(* it, with SIGTERM blocked.  Process groups, wait and kill behave as      *)
(* POSIX says (external).                                                  *)
(***************************************************************************)
EXTENDS Naturals, FiniteSets

CONSTANTS
    N,            \* nofprocesses; the code returns at once for 0
    Pids,         \* the numbers that fork may return in the parent
    ForkMayFail   \* whether fork may fail

ASSUME NAssumption == N \in Nat \ {0} /\ Pids \subseteq Nat \ {0} /\ ForkMayFail \in BOOLEAN

Ranks == 1 .. N

VARIABLES
    \* the master
    pc,           \* where it is
    rank,         \* the loop variable
    childs,       \* the pids by rank; 0 for a child that was reaped
    childs_left, aborted, killed,
    interrupted,  \* history: waitpid returned -1 with EINTR
    result,       \* what shared_rts_run returns
    \* the domain
    terminating,  \* sd_shutdown was called
    freed,        \* sd_free was called: its mutexes are destroyed
    \* the workers
    state,        \* none, forked, running, critical (in an operation of the domain),
                  \* asleep (in a shared_cv_wait of one), zombie, gone
    pid,          \* the worker's number, 0 before the fork
    failed,       \* zombie or gone with a signal or a non-zero exit code
    exec_done,    \* the worker has called execvp successfully
    in_group,     \* the worker is in the process group `group'
    sigterm       \* the workers with a SIGTERM pending

domain == <<terminating, freed>>
loop == <<rank, childs, childs_left, aborted, killed, interrupted>>
workers == <<state, pid, failed, exec_done, in_group, sigterm>>
vars == <<pc, loop, result, domain, workers>>

Init ==
    /\ pc = "fork" /\ rank = 1
    /\ childs = [r \in Ranks |-> 0] /\ childs_left = N
    /\ aborted = FALSE /\ killed = FALSE /\ interrupted = FALSE /\ result = FALSE
    /\ terminating = FALSE /\ freed = FALSE
    /\ state = [r \in Ranks |-> "none"] /\ pid = [r \in Ranks |-> 0]
    /\ failed = [r \in Ranks |-> FALSE]
    /\ exec_done = [r \in Ranks |-> FALSE] /\ in_group = [r \in Ranks |-> FALSE]
    /\ sigterm = {}

Alive(r) == state[r] \in {"forked", "running", "critical", "asleep"}
\* The children that waitpid(-group) and kill(-group) are about.
Group == {r \in Ranks : in_group[r] /\ state[r] # "gone"}
KillGroup == sigterm' = sigterm \cup {r \in Group : Alive(r)}
-----------------------------------------------------------------------------
(* The master                                                              *)

Fork ==
    /\ pc = "fork"
    /\ \E p \in Pids : /\ \A r \in Ranks : pid[r] # p
                      /\ pid' = [pid EXCEPT ![rank] = p]
    /\ state' = [state EXCEPT ![rank] = "forked"]
    /\ pc' = "setpgid"
    /\ UNCHANGED <<loop, result, domain, failed, exec_done, in_group, sigterm>>

\* fork fails: the group is sent a SIGTERM, and the domain is freed without
\* being shut down
ForkFails ==
    /\ ForkMayFail /\ pc = "fork"
    /\ KillGroup
    /\ aborted' = TRUE
    /\ pc' = "free"
    /\ UNCHANGED <<rank, childs, childs_left, killed, interrupted, result, domain,
                   state, pid, failed, exec_done, in_group>>

\* setpgid(pid, group), whose result is ignored: EACCES after the child's exec,
\* EPERM if the group was never created; group is the first child's pid
Setpgid ==
    /\ pc = "setpgid"
    /\ in_group' = [in_group EXCEPT ![rank] = ~exec_done[rank] /\ (rank = 1 \/ in_group[1])]
    /\ childs' = [childs EXCEPT ![rank] = pid[rank]]
    /\ rank' = rank + 1
    /\ pc' = IF rank = N THEN "wait" ELSE "fork"
    /\ UNCHANGED <<childs_left, aborted, killed, interrupted, result, domain,
                   state, pid, failed, exec_done, sigterm>>

\* Whether the end of child r makes the master abort the others.
MustAbort(r, left) == failed[r] /\ left > 0 /\ ~killed

\* Wrong on purpose: the search begins with the second child.
FoundBehindFirst(p, k) ==
    /\ k \in 2 .. N + 1
    /\ \A j \in 2 .. k - 1 : childs[j] # p
    /\ k <= N => childs[k] = p

\* The search for p in childs ends with rank k, which is N + 1 if p is not there.
Found(p, k) ==
    /\ k \in 1 .. N + 1
    /\ \A j \in 1 .. k - 1 : childs[j] # p
    /\ k <= N => childs[k] = p

\* waitpid returns the pid of a child of the group, which must be one of childs
Wait(r) ==
    /\ pc = "wait" /\ childs_left > 0 /\ r \in Group /\ state[r] = "zombie"
    /\ state' = [state EXCEPT ![r] = "gone"]
    /\ \E k \in 1 .. N + 1 :
         /\ Found(pid[r], k)
         /\ \/ /\ k > N
               /\ pc' = "assertion failed"
               /\ UNCHANGED <<childs, childs_left, aborted>>
            \/ /\ k <= N
               /\ childs' = [childs EXCEPT ![k] = 0]
               /\ childs_left' = childs_left - 1
               /\ aborted' = (aborted \/ failed[r])
               /\ pc' = IF MustAbort(r, childs_left - 1) THEN "shutdown" ELSE "wait"
    /\ UNCHANGED <<rank, killed, interrupted, result, domain, pid, failed, exec_done, in_group, sigterm>>

\* Wrong on purpose: the loop ends one child too early.
WaitEndsEarly == pc = "wait" /\ (childs_left <= 1 \/ Group = {})

\* The loop ends: no child is left, or waitpid returns ECHILD.
LoopEnds == pc = "wait" /\ (childs_left = 0 \/ Group = {})

WaitDone ==
    /\ LoopEnds
    /\ pc' = "free"
    /\ UNCHANGED <<loop, result, domain, workers>>

\* waitpid would block and is interrupted by a signal that the program of the
\* master catches: the loop ends in the same way.
Interrupted ==
    /\ pc = "wait" /\ childs_left > 0 /\ Group # {}
    /\ \A r \in Group : state[r] # "zombie"
    /\ interrupted' = TRUE
    /\ pc' = "free"
    /\ UNCHANGED <<rank, childs, childs_left, aborted, killed, result, domain, workers>>


Shutdown ==
    /\ pc = "shutdown"
    /\ terminating' = TRUE
    /\ pc' = "kill"
    /\ UNCHANGED <<loop, result, freed, workers>>

Kill ==
    /\ pc = "kill"
    /\ KillGroup
    /\ killed' = TRUE
    /\ pc' = "wait"
    /\ UNCHANGED <<rank, childs, childs_left, aborted, interrupted, result, domain,
                   state, pid, failed, exec_done, in_group>>

\* sd_free and return
Free ==
    /\ pc = "free"
    /\ freed' = TRUE
    /\ result' = ~aborted
    /\ pc' = "done"
    /\ UNCHANGED <<loop, terminating, workers>>
-----------------------------------------------------------------------------
(* The workers                                                             *)

Become(r, s, f) ==
    /\ state' = [state EXCEPT ![r] = s]
    /\ failed' = [failed EXCEPT ![r] = f]
    /\ UNCHANGED <<pc, loop, result, domain, pid, in_group, sigterm>>

Exec(r) ==
    /\ state[r] = "forked"
    /\ exec_done' = [exec_done EXCEPT ![r] = TRUE]
    /\ Become(r, "running", FALSE)

\* execvp fails: exit(255)
ExecFails(r) == state[r] = "forked" /\ Become(r, "zombie", TRUE) /\ UNCHANGED exec_done

\* An operation of shared_domain.c begins and ends; SIGTERM is blocked inside.
Enter(r) ==
    /\ state[r] = "running" /\ ~terminating
    /\ Become(r, "critical", FALSE) /\ UNCHANGED exec_done
Leave(r) == state[r] = "critical" /\ Become(r, "running", FALSE) /\ UNCHANGED exec_done

\* It waits for a peer, until a peer or sd_shutdown notifies it, or for no reason.
Sleep(r) ==
    /\ state[r] = "critical" /\ ~terminating
    /\ Become(r, "asleep", FALSE) /\ UNCHANGED exec_done
Wake(r) == state[r] = "asleep" /\ Become(r, "critical", FALSE) /\ UNCHANGED exec_done

\* a signal that is not blocked, such as SIGKILL, wherever the worker is
Crash(r) == Alive(r) /\ Become(r, "zombie", TRUE) /\ UNCHANGED exec_done

\* exit with a code that is zero or not
Exit(r) ==
    /\ state[r] = "running"
    /\ \E f \in BOOLEAN : Become(r, "zombie", f)
    /\ UNCHANGED exec_done

\* SIGTERM is delivered unless it is blocked.
Terminate(r) ==
    /\ r \in sigterm /\ state[r] \in {"forked", "running"}
    /\ Become(r, "zombie", TRUE)
    /\ UNCHANGED exec_done

Finished == pc \in {"done", "assertion failed"} /\ UNCHANGED vars

Master == Fork \/ Setpgid \/ WaitDone \/ Shutdown \/ Kill \/ \E r \in Ranks : Wait(r)

Next ==
    \/ Master \/ Free \/ ForkFails \/ Interrupted \/ Finished
    \/ \E r \in Ranks : Exec(r) \/ ExecFails(r) \/ Enter(r) \/ Leave(r) \/ Sleep(r) \/ Wake(r)
                          \/ Exit(r) \/ Crash(r) \/ Terminate(r)

Spec == Init /\ [][Next]_vars

NobodySleeps == \A r \in Ranks : state[r] # "asleep"

\* The master goes on when it can; but sd_free destroys condition variables, and
\* need not return while somebody sleeps on one of them.  Operations on the domain
\* that are not asleep end, and sleepers are notified by sd_shutdown, while a peer
\* is not obliged to.  A pending signal is delivered when it is unblocked at the
\* latest, however often a worker blocks it again: hence SF.  No worker is obliged
\* to exit.
FairSpec ==
    /\ Spec
    /\ WF_vars(Master) /\ WF_vars(NobodySleeps /\ Free)
    /\ \A r \in Ranks : WF_vars(Leave(r)) /\ WF_vars(terminating /\ Wake(r)) /\ SF_vars(Terminate(r))
-----------------------------------------------------------------------------
\* Whatever the order in which children end, waitpid returns them and the others
\* are aborted meanwhile: the pid is always found, childs has those that are not
\* reaped yet at their ranks and childs_left is their number.
ChildsAreKnown ==
    /\ pc # "assertion failed"
    /\ rank = N + 1 =>
         /\ \A r \in Ranks : childs[r] = IF state[r] = "gone" THEN 0 ELSE pid[r]
         /\ childs_left = Cardinality({r \in Ranks : childs[r] # 0})

ForkFailed == pc \in {"free", "done"} /\ rank <= N

\* Every worker that made it into the process group is reaped before the
\* domain is freed, unless a fork failed or waitpid was interrupted; and if a
\* failure was seen, it is reported.
GroupIsReaped ==
    freed => /\ ForkFailed \/ interrupted \/ \A r \in Ranks : in_group[r] => state[r] = "gone"
             /\ result => ~ForkFailed /\ \A r \in Ranks : state[r] = "gone" => ~failed[r]

\* "I<shared_rts_run> blocks until all child processes are finished."  It does
\* not hold for a child that calls exec before setpgid, or when a signal
\* interrupts waitpid.  No run checks it.
BlocksUntilFinished == pc = "done" /\ result => \A r \in Ranks : state[r] = "gone"


\* The same of a run that ends because a fork failed.  It does not hold for
\* workers asleep in the domain, which is not shut down.  No run checks it.
ForkFailureEndsWorkers == ForkFailed ~> \A r \in Ranks : in_group[r] => ~Alive(r)
=============================================================================
