-------------------------- MODULE SharedMutexProofs --------------------------
(***************************************************************************)
(* BlockedWhileHeld and MaskRestored for every number of processes and     *)
(* threads, whoever dies, waits or repairs the mutex at whatever time.     *)
(***************************************************************************)
EXTENDS SharedMutex, TLAPS

\* Who owns the mutex is in a critical section, and a mutex that is unusable
\* has no owner.
OwnerIsInside ==
    /\ mutex.owner # NoThread => pc[mutex.owner] = "critical"
    /\ mutex.state = "notrecoverable" => mutex.owner = NoThread

\* From the pthread_sigmask of shared_mutex_lock to the one of
\* shared_mutex_unlock the signal is blocked.
BlockedInside ==
    \A t \in Threads : pc[t] \in {"acquire", "critical", "sleep", "restore"} => SIGTERM \in blocked[t]

\* A critical section without the mutex is possible only after a
\* shared_cv_wait that found the mutex unusable.
InsideIsOwner ==
    \A t \in Threads : pc[t] = "critical" => Holds(mutex, t) \/ mutex.state = "notrecoverable"

\* The inductive invariant of the mutex
MutexInv == TypeOK /\ OwnerIsInside /\ BlockedInside /\ InsideIsOwner

Unusable == mutex.state = "notrecoverable"

\* Some thread, or the creator, came with the mask.
Known(mask) == \E s \in Threads \cup {Creator} : mask = InitialMask[s]

\* A mask that was saved, by a thread on its way to the mutex or in the mutex,
\* is one that somebody came with; and it is the thread's own from the lock on
\* until somebody else locks the mutex.
SavedMask ==
    \A t \in Threads :
      \/ Unusable
      \/ /\ pc[t] = "idle" => Known(blocked[t]) /\ (t \notin overtaken => blocked[t] = prev_sigset[t])
         /\ pc[t] = "acquire" => Known(prev_sigset[t])
         /\ pc[t] \in {"critical", "sleep", "restore"} =>
              Known(old_sigset) /\ (t \notin overtaken => old_sigset = prev_sigset[t])

\* The inductive invariant of the masks
MaskInv == MutexInv /\ SavedMask
-----------------------------------------------------------------------------
\* The invariant holds before the first call.
LEMMA MutexInit == Init => MutexInv
<1> SUFFICES ASSUME Init PROVE MutexInv
  OBVIOUS
<1> USE ProcessesAssumption DEF Init, NewMutex
<1>1. TypeOK
  BY DEF TypeOK, Mutexes, MutexStates
<1>2. OwnerIsInside /\ BlockedInside /\ InsideIsOwner
  BY DEF OwnerIsInside, BlockedInside, InsideIsOwner
<1> QED BY <1>1, <1>2 DEF MutexInv

\* Every thread belongs to the processes' union, and so do those that die.
LEMMA ThreadsOfProcess == ASSUME NEW P \in Processes PROVE P \subseteq Threads
  BY DEF Threads

\* Every step of a thread, of the creator and of the kernel keeps it.
LEMMA MutexStep == MutexInv /\ [Next]_vars => MutexInv'
<1> SUFFICES ASSUME MutexInv, [Next]_vars PROVE MutexInv'
  OBVIOUS
<1> USE ProcessesAssumption DEF MutexInv, TypeOK, Mutexes, MutexStates, OwnerIsInside,
     BlockedInside, InsideIsOwner, Goto, Locked, Unlocked, Holds, Available
<1>1. CASE UNCHANGED vars
  BY <1>1 DEF vars
<1>2. ASSUME NEW t \in Threads, Block(t) PROVE MutexInv'
  BY <1>2 DEF Block
<1>3. ASSUME NEW t \in Threads, Acquire(t) PROVE MutexInv'
  <2>1. CASE mutex.state = "notrecoverable"
    BY <1>3, <2>1 DEF Acquire
  <2>2. CASE mutex.state # "notrecoverable"
    BY <1>3, <2>2 DEF Acquire, Stored
  <2> QED BY <2>1, <2>2
<1>4. ASSUME NEW t \in Threads, Wake(t) PROVE MutexInv'
  BY <1>4 DEF Wake
<1>5. ASSUME NEW t \in Threads, Unlock(t) PROVE MutexInv'
  BY <1>5 DEF Unlock
<1>6. ASSUME NEW t \in Threads, Restore(t) PROVE MutexInv'
  BY <1>6 DEF Restore
<1>7. ASSUME NEW t \in Threads, Consistent(t) PROVE MutexInv'
  BY <1>7 DEF Consistent, MadeConsistent
<1>8. ASSUME NEW t \in Threads, Wait(t) PROVE MutexInv'
  BY <1>8 DEF Wait
<1>9. ASSUME NEW t \in Threads, Notify(t) PROVE MutexInv'
  BY <1>9 DEF Notify, NotifyOne
<1>10. ASSUME NEW P \in Processes, Exit(P), pending' = pending PROVE MutexInv'
  BY <1>10, ThreadsOfProcess DEF Exit, OwnerDied
<1>11. ASSUME NEW P \in Processes, Send(P) PROVE MutexInv'
  BY <1>11 DEF Send
<1>12. ASSUME NEW P \in Processes, Deliver(P) PROVE MutexInv'
  BY <1>10, <1>12 DEF Deliver
<1>13. ASSUME NEW P \in Mortal, Kill(P) PROVE MutexInv'
  BY <1>10, <1>13 DEF Kill
<1>14. CASE Shutdown
  BY <1>14 DEF Shutdown, Stored
<1> QED BY <1>1, <1>2, <1>3, <1>4, <1>5, <1>6, <1>7, <1>8, <1>9, <1>11, <1>12, <1>13,
           <1>14 DEF Next, Step

\* The inductive invariant holds in every reachable state.
LEMMA MutexInvHolds == Spec => []MutexInv
  BY MutexInit, MutexStep, PTL DEF Spec

\* The mutex, its condition variable, the masks and the program counters keep
\* their types.
THEOREM TypeCorrect == Spec => []TypeOK
<1>1. MutexInv => TypeOK
  BY DEF MutexInv
<1> QED BY <1>1, MutexInvHolds, PTL

\* No thread holds the mutex, or sleeps in shared_cv_wait, with the signal
\* unblocked: SIGTERM cannot make an owner of the mutex die.
THEOREM HolderBlocksSignal == Spec => []BlockedWhileHeld
<1>1. MutexInv => BlockedWhileHeld
  BY ProcessesAssumption DEF MutexInv, OwnerIsInside, BlockedInside, BlockedWhileHeld, Holds
<1> QED BY <1>1, MutexInvHolds, PTL
-----------------------------------------------------------------------------
\* The saved masks are right before the first call.
LEMMA MaskInit == Init => MaskInv
  BY MutexInit DEF MaskInv, SavedMask, Known, Init

\* Every step keeps them right: sm->old_sigset is overwritten only by the next
\* owner, so those who rely on it by then sleep or have unlocked the mutex.
LEMMA MaskStep == MaskInv /\ [Next]_vars => MaskInv'
<1> SUFFICES ASSUME MaskInv, [Next]_vars PROVE SavedMask'
  BY MutexStep DEF MaskInv
<1> MutexInv'
  BY MutexStep DEF MaskInv
<1> USE ProcessesAssumption DEF MaskInv, SavedMask, Unusable, MutexInv, TypeOK, Mutexes, MutexStates,
     OwnerIsInside, InsideIsOwner, Goto, Locked, Unlocked, Holds, Available
<1>1. CASE UNCHANGED vars
  BY <1>1 DEF vars
<1>2. ASSUME NEW t \in Threads, Block(t) PROVE SavedMask'
  BY <1>2 DEF Block
<1>3. ASSUME NEW t \in Threads, Acquire(t) PROVE SavedMask'
  <2>1. CASE mutex.state = "notrecoverable"
    BY <1>3, <2>1 DEF Acquire
  <2>2. CASE mutex.state # "notrecoverable"
    BY <1>3, <2>2 DEF Acquire, Stored, Known
  <2> QED BY <2>1, <2>2
<1>4. ASSUME NEW t \in Threads, Wake(t) PROVE SavedMask'
  BY <1>4 DEF Wake
<1>5. ASSUME NEW t \in Threads, Unlock(t) PROVE SavedMask'
  BY <1>5 DEF Unlock
<1>6. ASSUME NEW t \in Threads, Restore(t) PROVE SavedMask'
  BY <1>6 DEF Restore
<1>7. ASSUME NEW t \in Threads, Consistent(t) PROVE SavedMask'
  BY <1>7 DEF Consistent, MadeConsistent
<1>8. ASSUME NEW t \in Threads, Wait(t) PROVE SavedMask'
  BY <1>8 DEF Wait
<1>9. ASSUME NEW t \in Threads, Notify(t) PROVE SavedMask'
  BY <1>9 DEF Notify
<1>10. ASSUME NEW P \in Processes, Exit(P) PROVE SavedMask'
  BY <1>10, ThreadsOfProcess DEF Exit, OwnerDied
<1>11. ASSUME NEW P \in Processes, Send(P) PROVE SavedMask'
  BY <1>11 DEF Send
<1>12. ASSUME NEW P \in Processes, Deliver(P) PROVE SavedMask'
  BY <1>10, <1>12 DEF Deliver
<1>13. ASSUME NEW P \in Mortal, Kill(P) PROVE SavedMask'
  BY <1>10, <1>13 DEF Kill
<1>14. CASE Shutdown
  BY <1>14 DEF Shutdown, Stored, Known
<1> QED BY <1>1, <1>2, <1>3, <1>4, <1>5, <1>6, <1>7, <1>8, <1>9, <1>11, <1>12, <1>13,
           <1>14 DEF Next, Step

\* After shared_mutex_unlock a thread has the mask it called shared_mutex_lock
\* with, unless somebody else locked the mutex before the mask was read back from
\* the shared memory; then it has a mask that somebody came with.
THEOREM MaskIsRestored == Spec => []MaskRestored
<1>1. MaskInv => MaskRestored
  BY DEF MaskInv, SavedMask, Known, MaskRestored, Unusable
<1> QED BY <1>1, MaskInit, MaskStep, PTL DEF Spec
=============================================================================
