----------------------------- MODULE SharedMutex -----------------------------
(***************************************************************************)
(* shared_mutex.c with a signal mask, and the wait of shared_cv.c: which   *)
(* threads block the signal (SIGTERM for shared_rts.c) at which time, and  *)
(* what the signal, or a SIGKILL, hits.  A process is the set of its       *)
(* threads.  The callers are the operations of shared_domain.c: they start *)
(* nothing new once sd_shutdown was called.                                *)
(***************************************************************************)
EXTENDS RobustMutex

CONSTANTS
    Processes,     \* the processes, each a set of threads
    Creator,       \* the thread of another process that may call sd_shutdown
    Signals,       \* the signals of the masks
    SIGTERM,       \* the one that the domain has blocked under its mutexes
    InitialMask,   \* the signals a thread blocks outside of this module
    Mortal         \* the processes that may be hit by a SIGKILL

Threads == UNION Processes

ASSUME ProcessesAssumption ==
    /\ \A P, Q \in Processes : P = Q \/ P \cap Q = {}
    /\ NoThread \notin Threads /\ Creator \notin Threads /\ Creator # NoThread
    /\ Mortal \subseteq Processes
    /\ SIGTERM \in Signals
    /\ InitialMask \in [Threads \cup {Creator} -> SUBSET Signals]

VARIABLES
    mutex,        \* sm->mutex
    old_sigset,   \* sm->old_sigset, in shared memory
    sleepers,     \* the threads that sleep on the condition variable
    terminating,  \* the flag of the domain
    pc,           \* where the thread is
    blocked,      \* the thread's signal mask
    prev_sigset,  \* the local variable of shared_mutex_lock
    pending,      \* the processes that were sent a SIGTERM
    overtaken     \* history: who slept or was about to restore its mask when
                  \* somebody else locked the mutex

vars == <<mutex, old_sigset, sleepers, terminating, pc, blocked, prev_sigset, pending, overtaken>>

Init ==
    /\ mutex = NewMutex /\ old_sigset = {}
    /\ sleepers = {} /\ terminating = FALSE
    /\ pc = [t \in Threads |-> "idle"]
    /\ blocked = [t \in Threads |-> InitialMask[t]]
    /\ prev_sigset = blocked
    /\ pending = {}
    /\ overtaken = {}

Goto(t, l) == pc' = [pc EXCEPT ![t] = l]

\* sm->old_sigset is overwritten while the threads that sleep, or have unlocked
\* the mutex but not yet restored their masks, still rely on it.
Stored(mask) ==
    /\ old_sigset' = mask
    /\ overtaken' = overtaken \cup {u \in Threads : pc[u] \in {"sleep", "restore"}}
-----------------------------------------------------------------------------
\* Wrong on purpose: the signals are blocked only after the mutex is locked.
BlockLate(t) ==
    /\ pc[t] = "idle" /\ ~terminating
    /\ prev_sigset' = [prev_sigset EXCEPT ![t] = blocked[t]]
    /\ overtaken' = overtaken \ {t}
    /\ Goto(t, "acquire")
    /\ UNCHANGED <<mutex, old_sigset, sleepers, terminating, blocked, pending>>

\* Wrong on purpose: the mask is saved in shared memory before the mutex is locked.
BlockStores(t) ==
    /\ pc[t] = "idle" /\ ~terminating
    /\ prev_sigset' = [prev_sigset EXCEPT ![t] = blocked[t]]
    /\ blocked' = [blocked EXCEPT ![t] = @ \cup {SIGTERM}]
    /\ old_sigset' = blocked[t]
    /\ overtaken' = overtaken \ {t}
    /\ Goto(t, "acquire")
    /\ UNCHANGED <<mutex, sleepers, terminating, pending>>

\* shared_mutex_lock: pthread_sigmask(SIG_BLOCK, ...)
Block(t) ==
    /\ pc[t] = "idle" /\ ~terminating
    /\ prev_sigset' = [prev_sigset EXCEPT ![t] = blocked[t]]
    /\ blocked' = [blocked EXCEPT ![t] = @ \cup {SIGTERM}]
    /\ overtaken' = overtaken \ {t}
    /\ Goto(t, "acquire")
    /\ UNCHANGED <<mutex, old_sigset, sleepers, terminating, pending>>

\* shared_mutex_lock: pthread_mutex_lock, and what follows it
Acquire(t) ==
    /\ pc[t] = "acquire" /\ Available(mutex)
    /\ mutex' = Locked(mutex, t)
    /\ IF mutex.state = "notrecoverable"
       THEN /\ blocked' = [blocked EXCEPT ![t] = prev_sigset[t]]
            /\ Goto(t, "idle") /\ UNCHANGED <<old_sigset, overtaken>>
       ELSE /\ Stored(prev_sigset[t])
            /\ Goto(t, "critical") /\ UNCHANGED blocked
    /\ UNCHANGED <<sleepers, terminating, prev_sigset, pending>>

\* shared_mutex_consistent, which the callers may or may not use
Consistent(t) ==
    /\ pc[t] = "critical" /\ Holds(mutex, t) /\ mutex.state = "ownerdead"
    /\ mutex' = MadeConsistent(mutex)
    /\ UNCHANGED <<old_sigset, sleepers, terminating, pc, blocked, prev_sigset, pending, overtaken>>

\* shared_cv_wait: sleep, with the signals still blocked ...
Wait(t) ==
    /\ pc[t] = "critical" /\ Holds(mutex, t) /\ mutex.state = "consistent" /\ ~terminating
    /\ mutex' = Unlocked(mutex, t)
    /\ sleepers' = sleepers \cup {t}
    /\ Goto(t, "sleep")
    /\ UNCHANGED <<old_sigset, terminating, blocked, prev_sigset, pending, overtaken>>

\* ... and return, with the mutex unless it has become unusable
Wake(t) ==
    /\ pc[t] = "sleep" /\ t \notin sleepers /\ Available(mutex)
    /\ mutex' = Locked(mutex, t)
    /\ Goto(t, "critical")
    /\ UNCHANGED <<old_sigset, sleepers, terminating, blocked, prev_sigset, pending, overtaken>>

Notify(t) ==
    /\ pc[t] = "critical" /\ Holds(mutex, t)
    /\ sleepers' \in NotifyOne(sleepers) \cup {{}}
    /\ UNCHANGED <<mutex, old_sigset, terminating, pc, blocked, prev_sigset, pending, overtaken>>

\* Wrong on purpose: the mask is not restored.
UnlockKeepsMask(t) ==
    /\ pc[t] = "critical"
    /\ mutex' = Unlocked(mutex, t)
    /\ Goto(t, "idle")
    /\ UNCHANGED <<old_sigset, sleepers, terminating, blocked, prev_sigset, pending, overtaken>>

\* shared_mutex_unlock: pthread_mutex_unlock; an error returns at once
Unlock(t) ==
    /\ pc[t] = "critical"
    /\ mutex' = Unlocked(mutex, t)
    /\ Goto(t, IF Holds(mutex, t) THEN "restore" ELSE "idle")
    /\ UNCHANGED <<old_sigset, sleepers, terminating, blocked, prev_sigset, pending, overtaken>>

\* shared_mutex_unlock: pthread_sigmask(SIG_SETMASK, &sm->old_sigset, 0), after
\* the mutex was released
Restore(t) ==
    /\ pc[t] = "restore"
    /\ blocked' = [blocked EXCEPT ![t] = old_sigset]
    /\ Goto(t, "idle")
    /\ UNCHANGED <<mutex, old_sigset, sleepers, terminating, prev_sigset, pending, overtaken>>
-----------------------------------------------------------------------------
(* The creator and the kernel                                              *)

\* sd_shutdown: set the flag, lock, notify all, unlock.  Its lock stores the mask
\* of the creator unless it fails.
Shutdown ==
    /\ ~terminating /\ Available(mutex)
    /\ terminating' = TRUE
    /\ sleepers' = {}
    /\ mutex' = Unlocked(Locked(mutex, Creator), Creator)
    /\ IF mutex.state = "notrecoverable"
       THEN UNCHANGED <<old_sigset, overtaken>>
       ELSE Stored(InitialMask[Creator])
    /\ UNCHANGED <<pc, blocked, prev_sigset, pending>>

Exit(P) ==
    /\ \E t \in P : pc[t] # "dead"
    /\ pc' = [t \in Threads |-> IF t \in P THEN "dead" ELSE pc[t]]
    /\ mutex' = OwnerDied(mutex, P)
    /\ UNCHANGED <<old_sigset, sleepers, terminating, blocked, prev_sigset, overtaken>>

Send(P) ==
    /\ P \notin pending
    /\ pending' = pending \cup {P}
    /\ UNCHANGED <<mutex, old_sigset, sleepers, terminating, pc, blocked, prev_sigset, overtaken>>

\* SIGTERM is directed at the process: any thread that does not block it takes
\* it, and its default action terminates the process.
Deliver(P) ==
    /\ P \in pending /\ \E t \in P : SIGTERM \notin blocked[t]
    /\ Exit(P) /\ UNCHANGED pending

\* SIGKILL
Kill(P) == Exit(P) /\ UNCHANGED pending

Step(t) == Acquire(t) \/ Wake(t) \/ Unlock(t) \/ Restore(t)

Next ==
    \/ \E t \in Threads : Block(t) \/ Step(t) \/ Consistent(t) \/ Wait(t) \/ Notify(t)
    \/ \E P \in Processes : Send(P) \/ Deliver(P)
    \/ \E P \in Mortal : Kill(P)
    \/ Shutdown

Spec == Init /\ [][Next]_vars

\* Critical sections end, a mutex that stays available is acquired, and the
\* kernel delivers what is pending and not blocked.  Nobody is obliged to call,
\* to wait, to notify, to shut down or to send a signal.
FairSpec ==
    /\ Spec
    /\ \A t \in Threads : WF_vars(Step(t))
    /\ \A P \in Processes : WF_vars(Deliver(P))
-----------------------------------------------------------------------------
TypeOK ==
    /\ mutex \in Mutexes(Threads)
    /\ sleepers \subseteq Threads /\ old_sigset \subseteq Signals /\ terminating \in BOOLEAN
    /\ pc \in [Threads -> {"idle", "acquire", "critical", "sleep", "restore", "dead"}]
    /\ blocked \in [Threads -> SUBSET Signals] /\ prev_sigset \in [Threads -> SUBSET Signals]
    /\ pending \subseteq Processes
    /\ overtaken \subseteq Threads

\* "blocked whenever the mutex is locked ... as a safeguard against signals like
\* SIGTERM which would otherwise terminate the process": a thread that holds
\* the mutex or sleeps in shared_cv_wait blocks the signal, however it came by
\* the mutex (a lock, a return from a wait, the death of the owner).
BlockedWhileHeld ==
    \A t \in Threads : Holds(mutex, t) \/ pc[t] = "sleep" => SIGTERM \in blocked[t]

\* After shared_mutex_unlock a thread has the mask it had before
\* shared_mutex_lock, although it was kept in shared memory meanwhile, unless it
\* was overtaken: then it may have got the mask of another thread, or of the
\* creator, but no mask that nobody came with.  The mutex is usable, as a failing
\* unlock does not restore anything.
MaskRestored ==
    \A t \in Threads : pc[t] = "idle" =>
        \/ mutex.state = "notrecoverable"
        \/ /\ t \notin overtaken => blocked[t] = prev_sigset[t]
           /\ \E s \in Threads \cup {Creator} : blocked[t] = InitialMask[s]

\* A thread has its own mask again.  Does not hold for threads that come with
\* different masks, and is not part of a run.
OwnMaskRestored ==
    \A t \in Threads : pc[t] = "idle" =>
        blocked[t] = InitialMask[t] \/ mutex.state = "notrecoverable"

\* "all other child processes are terminated using signal SIGTERM": after
\* sd_shutdown a SIGTERM is not put off for ever, as long as the mutex is usable.
SigtermTerminates ==
    \A P \in Processes : terminating /\ P \in pending
        ~> (\A t \in P : pc[t] = "dead") \/ mutex.state = "notrecoverable"
=============================================================================
