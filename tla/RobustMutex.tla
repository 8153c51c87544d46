---------------------------- MODULE RobustMutex ----------------------------
(***************************************************************************)
(* The pthread objects below shared_mutex.c and shared_cv.c, modelled from *)
(* how src/ uses them: a mutex that is PTHREAD_PROCESS_SHARED,             *)
(* PTHREAD_MUTEX_ROBUST and PTHREAD_MUTEX_ERRORCHECK                       *)
(* (shared_mutex.c:112-129), and a process-shared condition variable.      *)
(*                                                                         *)
(* A mutex is a record.  m.owner is the thread that holds it, or NoThread. *)
(* m.state is what the next acquisition reports: "consistent" for success, *)
(* "ownerdead" for EOWNERDEAD (the mutex IS acquired) and "notrecoverable" *)
(* for ENOTRECOVERABLE (the mutex is NOT acquired, for ever).              *)
(* A condition variable is the set of the threads that sleep on it.  A     *)
(* thread leaves it when it is notified, and then competes for the mutex.  *)
(* Platforms without robust mutexes (the #else branches for MacOS) are not *)
(* modelled.                                                               *)
(***************************************************************************)

CONSTANT NoThread       \* the owner of a mutex that nobody holds

MutexStates == {"consistent", "ownerdead", "notrecoverable"}

Mutexes(T) == [owner : T \cup {NoThread}, state : MutexStates]

\* pthread_mutex_init
NewMutex == [owner |-> NoThread, state |-> "consistent"]

\* A pthread_mutex_lock, or the reacquisition at the end of a
\* pthread_cond_wait, can return only when nobody holds the mutex.
Available(m) == m.owner = NoThread

\* The mutex after thread t's acquisition returned m.state.
Locked(m, t) == IF m.state = "notrecoverable" THEN m ELSE [m EXCEPT !.owner = t]

Holds(m, t) == m.owner = t

\* pthread_mutex_unlock: EPERM and no change unless t is the owner; an owner
\* that got EOWNERDEAD and did not repair the mutex leaves it unusable.
Unlocked(m, t) ==
    IF ~Holds(m, t) THEN m
    ELSE [owner |-> NoThread,
          state |-> IF m.state = "ownerdead" THEN "notrecoverable" ELSE m.state]

\* pthread_mutex_consistent, called by an owner that got EOWNERDEAD
MadeConsistent(m) == [m EXCEPT !.state = "consistent"]

\* The kernel releases a mutex whose owner is among the threads S that died.
OwnerDied(m, S) ==
    IF m.owner \in S THEN [owner |-> NoThread, state |-> "ownerdead"] ELSE m

\* pthread_cond_signal: the possible sets of sleepers after one of them,
\* if there is any, was woken.
NotifyOne(sleepers) ==
    IF sleepers = {} THEN {{}} ELSE {sleepers \ {t} : t \in sleepers}
=============================================================================
