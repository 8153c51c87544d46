---------------------------- MODULE SharedBarrier ----------------------------
(***************************************************************************)
(* sd_barrier of shared_domain.c on the header of a shared communication   *)
(* domain: the processes Procs of the domain, each with one thread that    *)
(* calls sd_barrier again and again, the creator's sd_shutdown as far as   *)
(* it touches the header, spurious wakeups, and processes that are killed  *)
(* at arbitrary points.                                                    *)
(***************************************************************************)
EXTENDS Integers, FiniteSets, RobustMutex

CONSTANTS
    Procs,        \* the processes of the domain; their number is nofprocesses
    Creator,      \* the process that called sd_setup: it may call sd_shutdown
    Mortal,       \* the processes that may be killed
    MayShutdown,  \* whether Creator may call sd_shutdown
    MaxCalls,     \* bound on the calls of sd_barrier per process
    MaxSpurious   \* bound on the number of spurious wakeups

Threads == Procs \cup {Creator}

ASSUME ProcsAssumption == IsFiniteSet(Procs) /\ Procs # {} /\ NoThread \notin Threads
ASSUME BoundsAssumption ==
    /\ Mortal \subseteq Threads /\ MayShutdown \in BOOLEAN
    /\ MaxCalls \in Nat /\ MaxSpurious \in Nat

VARIABLES
    \* the shared_mem_header
    mutex,        \* header->mutex
    sleepers,     \* the threads that sleep on wait_for_barrier
    sync_count,   \* header->sync_count
    terminating,  \* header->terminating
    \* the threads
    pc,           \* where the thread is
    ok,           \* the local variable ok, the result after the return
    spurious,     \* number of spurious wakeups so far
    \* history, for the guards that bound the model and for the properties
    invoked,      \* calls of sd_barrier the process has begun
    arrived,      \* calls of sd_barrier that were counted in sync_count
    passed,       \* calls of sd_barrier that returned true
    gen           \* how often sync_count was counted down to 0

header == <<mutex, sleepers, sync_count>>
history == <<invoked, arrived, passed, gen>>
vars == <<header, terminating, pc, ok, spurious, history>>

NofProcesses == Cardinality(Procs)
PCs == {"idle", "lock", "repair", "arrive", "loop", "sleep", "unlock",
        "shut_lock", "shut_notify", "shut_unlock", "dead"}

Init ==
    /\ mutex = NewMutex /\ sleepers = {} /\ sync_count = 0
    /\ terminating = FALSE
    /\ pc = [p \in Threads |-> "idle"]
    /\ ok = [p \in Threads |-> TRUE]
    /\ spurious = 0
    /\ invoked = [p \in Procs |-> 0] /\ arrived = [p \in Procs |-> 0]
    /\ passed = [p \in Procs |-> 0] /\ gen = 0
-----------------------------------------------------------------------------
(* sd_barrier                                                              *)

Goto(p, l) == pc' = [pc EXCEPT ![p] = l]
SetOk(p, b) == ok' = [ok EXCEPT ![p] = b]

Call(p) ==
    /\ pc[p] = "idle" /\ invoked[p] < MaxCalls
    /\ invoked' = [invoked EXCEPT ![p] = @ + 1]
    /\ SetOk(p, ~terminating)
    /\ Goto(p, IF terminating THEN "idle" ELSE "lock")
    /\ UNCHANGED <<header, terminating, spurious, arrived, passed, gen>>

\* shared_mutex_lock with its three results, and the check of terminating
Lock(p) ==
    /\ pc[p] = "lock" /\ Available(mutex)
    /\ mutex' = Locked(mutex, p)
    /\ LET proceed == mutex.state = "consistent" /\ ~terminating IN
         /\ SetOk(p, proceed)
         /\ Goto(p, CASE mutex.state = "ownerdead"      -> "repair"
                      [] mutex.state = "notrecoverable" -> "idle"
                      [] OTHER -> IF proceed THEN "arrive" ELSE "unlock")
    /\ UNCHANGED <<sleepers, sync_count, terminating, spurious, history>>

\* The EOWNERDEAD branch: the barrier has failed for good.
Repair(p) ==
    /\ pc[p] = "repair"
    /\ sync_count' = -1
    /\ mutex' = MadeConsistent(mutex)
    /\ sleepers' = {}
    /\ Goto(p, "unlock")
    /\ UNCHANGED <<terminating, ok, spurious, history>>

\* Wrong on purpose: the first process forgets to count itself.
CountedOthers(n) == IF n = 0 THEN NofProcesses ELSE n - 1

\* The counter after one more arrival: the first process of a round sets it,
\* the others count it down.
Counted(n) == IF n = 0 THEN NofProcesses - 1 ELSE n - 1

Arrive(p) ==
    /\ pc[p] = "arrive" /\ sync_count >= 0
    /\ sync_count' = Counted(sync_count)
    /\ arrived' = [arrived EXCEPT ![p] = @ + 1]
    /\ IF sync_count' = 0
       THEN sleepers' = {} /\ gen' = gen + 1 /\ Goto(p, "unlock")
       ELSE UNCHANGED <<sleepers, gen>> /\ Goto(p, "loop")
    /\ UNCHANGED <<mutex, terminating, ok, spurious, invoked, passed>>

\* A barrier that has failed before fails again.
ArriveTooLate(p) ==
    /\ pc[p] = "arrive" /\ sync_count < 0
    /\ SetOk(p, FALSE)
    /\ Goto(p, "unlock")
    /\ UNCHANGED <<header, terminating, spurious, history>>

\* The condition of the while loop: whether to wait (again).
MustWait(p) == ok[p] /\ sync_count > 0

Wait(p) ==
    /\ pc[p] = "loop" /\ MustWait(p)
    /\ mutex' = Unlocked(mutex, p)
    /\ sleepers' = sleepers \cup {p}
    /\ Goto(p, "sleep")
    /\ UNCHANGED <<sync_count, terminating, ok, spurious, history>>

Leave(p) ==
    /\ pc[p] = "loop" /\ ~MustWait(p)
    /\ SetOk(p, ok[p] /\ sync_count >= 0)
    /\ Goto(p, "unlock")
    /\ UNCHANGED <<header, terminating, spurious, history>>

\* Wrong on purpose: `if' instead of `while' around shared_cv_wait.
WakeOnce(p) ==
    /\ pc[p] = "sleep" /\ p \notin sleepers /\ Available(mutex)
    /\ mutex' = Locked(mutex, p)
    /\ SetOk(p, mutex.state = "consistent" /\ ~terminating)
    /\ Goto(p, "unlock")
    /\ UNCHANGED <<sleepers, sync_count, terminating, spurious, history>>

\* Wrong on purpose: the result of shared_cv_wait is ignored.
WakeUnchecked(p) ==
    /\ pc[p] = "sleep" /\ p \notin sleepers /\ Available(mutex)
    /\ mutex' = Locked(mutex, p)
    /\ SetOk(p, ~terminating)
    /\ Goto(p, "loop")
    /\ UNCHANGED <<sleepers, sync_count, terminating, spurious, history>>

\* shared_cv_wait returns; ok = shared_cv_wait(...) && !sd_terminating(sd)
Wake(p) ==
    /\ pc[p] = "sleep" /\ p \notin sleepers /\ Available(mutex)
    /\ mutex' = Locked(mutex, p)
    /\ SetOk(p, mutex.state = "consistent" /\ ~terminating)
    /\ Goto(p, "loop")
    /\ UNCHANGED <<sleepers, sync_count, terminating, spurious, history>>

\* return shared_mutex_unlock(&hp->mutex) && ok
Unlock(p) ==
    /\ pc[p] = "unlock"
    /\ mutex' = Unlocked(mutex, p)
    /\ LET success == Holds(mutex, p) /\ ok[p] IN
         /\ SetOk(p, success)
         /\ passed' = IF success THEN [passed EXCEPT ![p] = @ + 1] ELSE passed
    /\ Goto(p, "idle")
    /\ UNCHANGED <<sleepers, sync_count, terminating, spurious, invoked, arrived, gen>>
-----------------------------------------------------------------------------
(* sd_shutdown; it ignores what shared_mutex_lock and _unlock return       *)

ShutdownCall ==
    /\ MayShutdown /\ pc[Creator] = "idle" /\ ~terminating
    /\ terminating' = TRUE
    /\ Goto(Creator, "shut_lock")
    /\ UNCHANGED <<header, ok, spurious, history>>

ShutdownLock ==
    /\ pc[Creator] = "shut_lock" /\ Available(mutex)
    /\ mutex' = Locked(mutex, Creator)
    /\ Goto(Creator, "shut_notify")
    /\ UNCHANGED <<sleepers, sync_count, terminating, ok, spurious, history>>

\* Wrong on purpose: the barrier's sleepers are forgotten.
ShutdownForgetsBarrier ==
    /\ pc[Creator] = "shut_notify"
    /\ Goto(Creator, "shut_unlock")
    /\ UNCHANGED <<header, terminating, ok, spurious, history>>

ShutdownNotify ==
    /\ pc[Creator] = "shut_notify"
    /\ sleepers' = {}
    /\ Goto(Creator, "shut_unlock")
    /\ UNCHANGED <<mutex, sync_count, terminating, ok, spurious, history>>

ShutdownUnlock ==
    /\ pc[Creator] = "shut_unlock"
    /\ mutex' = Unlocked(mutex, Creator)
    /\ Goto(Creator, "idle")
    /\ UNCHANGED <<sleepers, sync_count, terminating, ok, spurious, history>>
-----------------------------------------------------------------------------
(* The environment                                                         *)

Spurious(p) ==
    /\ p \in sleepers /\ pc[p] = "sleep" /\ spurious < MaxSpurious
    /\ sleepers' = sleepers \ {p}
    /\ spurious' = spurious + 1
    /\ UNCHANGED <<mutex, sync_count, terminating, pc, ok, history>>

Die(p) ==
    /\ pc[p] # "dead"
    /\ Goto(p, "dead")
    /\ mutex' = OwnerDied(mutex, {p})
    /\ UNCHANGED <<sleepers, sync_count, terminating, ok, spurious, history>>

\* Nobody is inside sd_barrier, or those who are wait for a process that
\* died or makes no more calls.
Finished ==
    /\ \A p \in Threads : pc[p] \in {"idle", "sleep", "dead"}
    /\ UNCHANGED vars

Step(p) ==
    \/ Lock(p) \/ Repair(p) \/ Arrive(p) \/ ArriveTooLate(p)
    \/ Wait(p) \/ Leave(p) \/ Wake(p) \/ Unlock(p)

ShutdownStep == ShutdownLock \/ ShutdownNotify \/ ShutdownUnlock

Next ==
    \/ \E p \in Procs : Call(p) \/ Step(p) \/ Spurious(p)
    \/ ShutdownCall \/ ShutdownStep
    \/ \E p \in Mortal : Die(p)
    \/ Finished

Spec == Init /\ [][Next]_vars

\* A process inside sd_barrier or sd_shutdown that can take a step takes one
\* eventually.  Nobody is obliged to call, to die, to shut down or to wake up
\* without a notification.
FairSpec ==
    /\ Spec
    /\ \A p \in Procs : WF_vars(Step(p))
    /\ WF_vars(ShutdownStep)
-----------------------------------------------------------------------------
(* Properties                                                              *)

TypeOK ==
    /\ mutex \in Mutexes(Threads)
    /\ sleepers \subseteq Procs
    /\ sync_count \in -1 .. NofProcesses - 1
    /\ terminating \in BOOLEAN
    /\ pc \in [Threads -> PCs] /\ ok \in [Threads -> BOOLEAN]
    /\ spurious \in Nat /\ gen \in Nat
    /\ invoked \in [Procs -> Nat] /\ arrived \in [Procs -> Nat]
    /\ passed \in [Procs -> Nat]

\* "Each process who calls sd_barrier is suspended until all processes have
\* invoked sd_barrier": nobody returns true from its k-th barrier before
\* everybody was counted in a k-th barrier, whatever wakes up, dies, shuts
\* down or overtakes in between.
BarrierSafety == \A p, q \in Procs : passed[p] <= arrived[q]

(***************************************************************************)
(* Why BarrierSafety holds, as an inductive invariant: everybody has       *)
(* arrived gen or gen + 1 times, sync_count knows how many gen + 1 times,  *)
(* and nobody has passed more than gen times.                              *)
(***************************************************************************)
Waiting == {q \in Procs : arrived[q] = gen + 1}

\* Who works on the header owns the mutex; an unusable mutex has no owner.
Exclusion ==
    /\ mutex.state = "notrecoverable" => mutex.owner = NoThread
    /\ \A p \in Procs :
         /\ pc[p] = "repair" => Holds(mutex, p) /\ ~ok[p]
         /\ pc[p] = "arrive" => Holds(mutex, p) /\ mutex.state = "consistent" /\ ok[p]
         /\ pc[p] = "loop" /\ ok[p] => Holds(mutex, p) /\ mutex.state = "consistent"
         /\ pc[p] = "loop" /\ ~ok[p] =>
              \/ terminating \/ mutex.state = "notrecoverable"
              \/ Holds(mutex, p) /\ mutex.state = "ownerdead"

\* The counter is right as long as the barrier has not failed.
CounterIsRight ==
    /\ \A q \in Procs : arrived[q] \in {gen, gen + 1}
    /\ sync_count >= 0 =>
         Cardinality(Waiting) = IF sync_count = 0 THEN 0 ELSE NofProcesses - sync_count

\* A process that was counted in the current round does not arrive again:
\* it is still inside, or it is dead, or the barrier has failed for good.
CountedOnce ==
    \A q \in Procs :
        /\ arrived[q] = gen + 1 =>
             \/ pc[q] \in {"loop", "sleep", "dead"}
             \/ terminating \/ sync_count < 0 \/ mutex.state = "notrecoverable"
             \/ pc[q] = "unlock" /\ Holds(mutex, q) /\ mutex.state = "ownerdead"
        /\ pc[q] = "arrive" => sync_count < 0 \/ arrived[q] = gen

\* Who is about to return true has a round behind it that it did not pass yet.
PassedBehind ==
    \A p \in Procs :
        /\ passed[p] <= gen
        /\ pc[p] \in {"loop", "sleep"} => passed[p] < arrived[p]
        /\ pc[p] = "unlock" /\ ok[p] => passed[p] < arrived[p] /\ arrived[p] <= gen

\* The inductive invariant: the mutex protects the counter, the counter knows
\* how many processes are inside, and nobody got through who was not counted.
BarrierInv == TypeOK /\ Exclusion /\ CounterIsRight /\ CountedOnce /\ PassedBehind

Disturbed == terminating \/ \E q \in Procs : pc[q] = "dead"

\* If all processes invoke the barrier a k-th time then all of them leave it,
\* provided that nobody dies or shuts down, and that nobody calls it again
\* before all have left.
BarrierReleases ==
    \A k \in 1 .. MaxCalls, p \in Procs :
        (\A q \in Procs : invoked[q] >= k)
            ~> (passed[p] >= k \/ Disturbed \/ \E q \in Procs : invoked[q] > k)

\* "suspended until all processes have invoked sd_barrier": the same without
\* the second provision, for processes that call the barrier in a loop.  It does
\* not hold: a sleeper may miss that the counter was 0.  No run checks it.
BarrierIsReusable ==
    \A k \in 1 .. MaxCalls, p \in Procs :
        (\A q \in Procs : invoked[q] >= k) ~> (passed[p] >= k \/ Disturbed)

\* sd_shutdown "will wake up all processes waiting in sd_barrier", whoever
\* died before or after, and in whatever state the mutex was left.
ShutdownReleases ==
    \A p \in Procs : terminating ~> pc[p] \in {"idle", "dead"}

\* A process died inside sd_barrier: it fails, and does so for ever.
Broken == mutex.state # "consistent" \/ sync_count < 0

Abstract == INSTANCE Rounds
    WITH inside <- Waiting, round <- gen, passes <- passed, failed <- Broken

\* sd_barrier implements rounds: nobody is counted in a round that has not
\* returned from all rounds before, nobody returns true from a round before all
\* were counted in it, or twice, and nobody at all once the barrier is broken,
\* whatever wakes up, dies, shuts down or overtakes.
ImplementsRounds == Abstract!RoundsSpec

\* A process that died inside sd_barrier makes it fail: the next calls return
\* false for ever (sync_count is -1, or the mutex is unusable).  No run checks it:
\* it is part of ImplementsRounds.
NoSuccessAfterDeath == [][Broken => passed' = passed]_vars
=============================================================================
