------------------------- MODULE SharedBarrierProofs -------------------------
(***************************************************************************)
(* BarrierSafety, and that sd_barrier implements Rounds, for every number  *)
(* of processes, every number of calls and every combination of deaths,    *)
(* spurious wakeups and a shutdown.                                        *)
(***************************************************************************)
EXTENDS SharedBarrier, FiniteSetTheorems, TLAPS

\* nofprocesses is a positive number.
LEMMA NofProcessesType == NofProcesses \in Nat \ {0}
<1>1. Cardinality(Procs) \in Nat
  BY ProcsAssumption, FS_CardinalityType
<1>2. Cardinality(Procs) # 0
  BY ProcsAssumption, FS_EmptySet
<1> QED BY <1>1, <1>2 DEF NofProcesses

USE NofProcessesType DEF Threads

\* The type invariant holds in the state that sd_setup leaves behind.
LEMMA InitType == Init => TypeOK
<1> SUFFICES ASSUME Init PROVE TypeOK
  OBVIOUS
<1>1. mutex \in Mutexes(Threads)
  BY DEF Init, NewMutex, Mutexes, MutexStates
<1>2. sync_count \in -1 .. NofProcesses - 1
  BY DEF Init
<1>3. pc \in [Threads -> PCs] /\ ok \in [Threads -> BOOLEAN]
  BY DEF Init, PCs
<1>4. sleepers \subseteq Procs /\ terminating \in BOOLEAN
  BY DEF Init
<1>5. /\ spurious \in Nat /\ gen \in Nat /\ invoked \in [Procs -> Nat]
      /\ arrived \in [Procs -> Nat] /\ passed \in [Procs -> Nat]
  BY DEF Init
<1> QED BY <1>1, <1>2, <1>3, <1>4, <1>5 DEF TypeOK

\* Every step of a process, of the creator and of the environment keeps it.
LEMMA NextType == TypeOK /\ [Next]_vars => TypeOK'
<1> SUFFICES ASSUME TypeOK, [Next]_vars PROVE TypeOK'
  OBVIOUS
<1> USE ProcsAssumption, BoundsAssumption DEF TypeOK, PCs, Mutexes, MutexStates,
     header, history, Goto, SetOk, Locked, Unlocked, Holds
<1>1. CASE UNCHANGED vars
  BY <1>1 DEF vars
<1>2. ASSUME NEW p \in Procs, Call(p) PROVE TypeOK'
  BY <1>2 DEF Call
<1>3. ASSUME NEW p \in Procs, Lock(p) PROVE TypeOK'
  BY <1>3 DEF Lock
<1>4. ASSUME NEW p \in Procs, Repair(p) PROVE TypeOK'
  BY <1>4 DEF Repair, MadeConsistent
<1>5. ASSUME NEW p \in Procs, Arrive(p) PROVE TypeOK'
  BY <1>5 DEF Arrive, Counted
<1>6. ASSUME NEW p \in Procs, ArriveTooLate(p) PROVE TypeOK'
  BY <1>6 DEF ArriveTooLate
<1>7. ASSUME NEW p \in Procs, Wait(p) PROVE TypeOK'
  BY <1>7 DEF Wait
<1>8. ASSUME NEW p \in Procs, Leave(p) PROVE TypeOK'
  BY <1>8 DEF Leave
<1>9. ASSUME NEW p \in Procs, Wake(p) PROVE TypeOK'
  BY <1>9 DEF Wake
<1>10. ASSUME NEW p \in Procs, Unlock(p) PROVE TypeOK'
  BY <1>10 DEF Unlock
<1>11. ASSUME NEW p \in Procs, Spurious(p) PROVE TypeOK'
  BY <1>11 DEF Spurious
<1>12. CASE ShutdownCall
  BY <1>12 DEF ShutdownCall
<1>13. CASE ShutdownStep
  BY <1>13 DEF ShutdownStep, ShutdownLock, ShutdownNotify, ShutdownUnlock
<1>14. ASSUME NEW p \in Mortal, Die(p) PROVE TypeOK'
  BY <1>14 DEF Die, OwnerDied
<1>15. CASE Finished
  BY <1>1, <1>15 DEF Finished
<1> QED
  BY <1>1, <1>2, <1>3, <1>4, <1>5, <1>6, <1>7, <1>8, <1>9, <1>10, <1>11, <1>12,
     <1>13, <1>14, <1>15 DEF Next, Step

\* The shared header and the locals of sd_barrier keep their types.
THEOREM TypeCorrect == Spec => []TypeOK
  BY InitType, NextType, PTL DEF Spec

\* At the end of a round nobody is counted in the next one.
LEMMA NobodyWaits ==
  ASSUME BarrierInv, sync_count = 0, NEW q \in Procs
  PROVE  arrived[q] = gen
<1>1. IsFiniteSet(Waiting) /\ Cardinality(Waiting) = 0
  BY ProcsAssumption, FS_Subset DEF BarrierInv, CounterIsRight, Waiting
<1>2. Waiting = {}
  BY <1>1, FS_EmptySet
<1> QED BY <1>2 DEF Waiting, BarrierInv, CounterIsRight

\* Who works on the header owns the mutex, after every step too.
LEMMA ExclusionStep == BarrierInv /\ [Next]_vars => Exclusion'
<1> SUFFICES ASSUME BarrierInv, [Next]_vars PROVE Exclusion'
  OBVIOUS
<1> TypeOK'
  BY NextType DEF BarrierInv
<1> USE ProcsAssumption, BoundsAssumption DEF BarrierInv, TypeOK, PCs, Mutexes, MutexStates,
     header, history, Goto, SetOk, Locked, Unlocked, Holds, Available, Exclusion
<1>1. CASE UNCHANGED vars
  BY <1>1 DEF vars
<1>2. ASSUME NEW p \in Procs, Call(p) PROVE Exclusion'
  BY <1>2 DEF Call
<1>3. ASSUME NEW p \in Procs, Lock(p) PROVE Exclusion'
  <2>1. CASE mutex.state = "consistent" /\ ~terminating
    <3>1. ok' = [ok EXCEPT ![p] = TRUE] /\ pc' = [pc EXCEPT ![p] = "arrive"]
      BY <1>3, <2>1 DEF Lock
    <3>2. mutex' = [mutex EXCEPT !.owner = p] /\ terminating' = terminating
      BY <1>3, <2>1 DEF Lock
    <3> QED BY <1>3, <2>1, <3>1, <3>2 DEF Lock
  <2>2. CASE mutex.state = "consistent" /\ terminating
    BY <1>3, <2>2 DEF Lock
  <2>3. CASE mutex.state = "ownerdead"
    <3>1. ok' = [ok EXCEPT ![p] = FALSE] /\ pc' = [pc EXCEPT ![p] = "repair"]
      BY <1>3, <2>3 DEF Lock
    <3>2. mutex' = [mutex EXCEPT !.owner = p] /\ terminating' = terminating
      BY <1>3, <2>3 DEF Lock
    <3> QED BY <1>3, <2>3, <3>1, <3>2 DEF Lock
  <2>4. CASE mutex.state = "notrecoverable"
    BY <1>3, <2>4 DEF Lock
  <2> QED BY <2>1, <2>2, <2>3, <2>4
<1>4. ASSUME NEW p \in Procs, Repair(p) PROVE Exclusion'
  BY <1>4 DEF Repair, MadeConsistent
<1>5. ASSUME NEW p \in Procs, Arrive(p) PROVE Exclusion'
  BY <1>5 DEF Arrive, Counted
<1>6. ASSUME NEW p \in Procs, ArriveTooLate(p) PROVE Exclusion'
  BY <1>6 DEF ArriveTooLate
<1>7. ASSUME NEW p \in Procs, Wait(p) PROVE Exclusion'
  BY <1>7 DEF Wait, MustWait
<1>8. ASSUME NEW p \in Procs, Leave(p) PROVE Exclusion'
  BY <1>8 DEF Leave, MustWait
<1>9. ASSUME NEW p \in Procs, Wake(p) PROVE Exclusion'
  <2>1. CASE mutex.state = "consistent" /\ ~terminating
    <3>1. ok' = [ok EXCEPT ![p] = TRUE] /\ pc' = [pc EXCEPT ![p] = "loop"]
      BY <1>9, <2>1 DEF Wake
    <3>2. mutex' = [mutex EXCEPT !.owner = p] /\ terminating' = terminating
      BY <1>9, <2>1 DEF Wake
    <3> QED BY <1>9, <2>1, <3>1, <3>2 DEF Wake
  <2>2. CASE mutex.state = "consistent" /\ terminating
    BY <1>9, <2>2 DEF Wake
  <2>3. CASE mutex.state = "ownerdead"
    <3>1. ok' = [ok EXCEPT ![p] = FALSE] /\ pc' = [pc EXCEPT ![p] = "loop"]
      BY <1>9, <2>3 DEF Wake
    <3>2. mutex' = [mutex EXCEPT !.owner = p] /\ terminating' = terminating
      BY <1>9, <2>3 DEF Wake
    <3> QED BY <1>9, <2>3, <3>1, <3>2 DEF Wake
  <2>4. CASE mutex.state = "notrecoverable"
    BY <1>9, <2>4 DEF Wake
  <2> QED BY <2>1, <2>2, <2>3, <2>4
<1>10. ASSUME NEW p \in Procs, Unlock(p) PROVE Exclusion'
  BY <1>10 DEF Unlock
<1>11. ASSUME NEW p \in Procs, Spurious(p) PROVE Exclusion'
  BY <1>11 DEF Spurious
<1>12. CASE ShutdownCall
  BY <1>12 DEF ShutdownCall
<1>13. CASE ShutdownStep
  BY <1>13 DEF ShutdownStep, ShutdownLock, ShutdownNotify, ShutdownUnlock
<1>14. ASSUME NEW p \in Mortal, Die(p) PROVE Exclusion'
  BY <1>14 DEF Die, OwnerDied
<1>15. CASE Finished
  BY <1>1, <1>15 DEF Finished
<1> QED
  BY <1>1, <1>2, <1>3, <1>4, <1>5, <1>6, <1>7, <1>8, <1>9, <1>10, <1>11, <1>12, <1>13, <1>14, <1>15
  DEF Next, Step

\* sync_count keeps counting the processes of the current round.
LEMMA CounterStep == BarrierInv /\ [Next]_vars => CounterIsRight'
<1> SUFFICES ASSUME BarrierInv, [Next]_vars PROVE CounterIsRight'
  OBVIOUS
<1> TypeOK'
  BY NextType DEF BarrierInv
<1> USE ProcsAssumption, BoundsAssumption DEF BarrierInv, TypeOK, PCs, Mutexes, MutexStates,
     header, history, Goto, SetOk, Locked, Unlocked, Holds, Available, Exclusion, CounterIsRight, Waiting, CountedOnce
<1>1. CASE UNCHANGED vars
  BY <1>1 DEF vars
<1>2. ASSUME NEW p \in Procs, Call(p) PROVE CounterIsRight'
  BY <1>2 DEF Call
<1>3. ASSUME NEW p \in Procs, Lock(p) PROVE CounterIsRight'
  BY <1>3 DEF Lock
<1>4. ASSUME NEW p \in Procs, Repair(p) PROVE CounterIsRight'
  BY <1>4 DEF Repair, MadeConsistent
<1>5. ASSUME NEW p \in Procs, Arrive(p) PROVE CounterIsRight'
  <2> USE <1>5 DEF Arrive, Counted
  <2>1. p \notin Waiting /\ arrived[p] = gen
    BY DEF Waiting
  <2>2. {q \in Procs : arrived'[q] = gen + 1} = Waiting \cup {p}
    BY <2>1 DEF Waiting
  <2>3. /\ IsFiniteSet(Waiting)
        /\ Cardinality(Waiting \cup {p}) = Cardinality(Waiting) + 1
    <3>1. IsFiniteSet(Procs) /\ Waiting \subseteq Procs
      BY DEF Waiting
    <3>2. IsFiniteSet(Waiting)
      BY ONLY <3>1, FS_Subset
    <3> QED BY ONLY <2>1, <3>2, FS_AddElement
  <2>4. Cardinality(Waiting \cup {p}) = NofProcesses - sync_count'
    BY <2>3
  <2>5. CASE sync_count' # 0
    <3>1. Waiting' = Waiting \cup {p}
      BY <2>2, <2>5 DEF Waiting
    <3>2. Cardinality(Waiting') = NofProcesses - sync_count'
      BY <2>4, <3>1
    <3> QED BY <2>5, <3>2
  <2>6. CASE sync_count' = 0
    <3>1. Waiting \cup {p} = Procs
      <4>1. Cardinality(Waiting \cup {p}) = Cardinality(Procs)
        BY <2>4, <2>6 DEF NofProcesses
      <4>2. Waiting \cup {p} \in SUBSET Procs
        BY DEF Waiting
      <4> QED BY <4>1, <4>2, FS_Subset
    <3>2. \A q \in Procs : arrived'[q] = gen'
      BY <2>2, <2>6, <3>1
    <3>3. Waiting' = {}
      BY <3>2 DEF Waiting
    <3> QED BY <2>6, <3>2, <3>3, FS_EmptySet
  <2> QED BY <2>5, <2>6
<1>6. ASSUME NEW p \in Procs, ArriveTooLate(p) PROVE CounterIsRight'
  BY <1>6 DEF ArriveTooLate
<1>7. ASSUME NEW p \in Procs, Wait(p) PROVE CounterIsRight'
  BY <1>7 DEF Wait, MustWait
<1>8. ASSUME NEW p \in Procs, Leave(p) PROVE CounterIsRight'
  BY <1>8 DEF Leave, MustWait
<1>9. ASSUME NEW p \in Procs, Wake(p) PROVE CounterIsRight'
  BY <1>9 DEF Wake
<1>10. ASSUME NEW p \in Procs, Unlock(p) PROVE CounterIsRight'
  BY <1>10 DEF Unlock
<1>11. ASSUME NEW p \in Procs, Spurious(p) PROVE CounterIsRight'
  BY <1>11 DEF Spurious
<1>12. CASE ShutdownCall
  BY <1>12 DEF ShutdownCall
<1>13. CASE ShutdownStep
  <2>1. arrived' = arrived /\ gen' = gen /\ sync_count' = sync_count
    BY <1>13 DEF ShutdownStep, ShutdownLock, ShutdownNotify, ShutdownUnlock
  <2> QED BY <2>1
<1>14. ASSUME NEW p \in Mortal, Die(p) PROVE CounterIsRight'
  BY <1>14 DEF Die, OwnerDied
<1>15. CASE Finished
  BY <1>1, <1>15 DEF Finished
<1> QED
  BY <1>1, <1>2, <1>3, <1>4, <1>5, <1>6, <1>7, <1>8, <1>9, <1>10, <1>11, <1>12, <1>13, <1>14, <1>15
  DEF Next, Step

\* Nobody is counted twice in a round.
LEMMA CountedOnceStep == BarrierInv /\ [Next]_vars => CountedOnce'
<1> SUFFICES ASSUME BarrierInv, [Next]_vars PROVE CountedOnce'
  OBVIOUS
<1> TypeOK'
  BY NextType DEF BarrierInv
<1> USE ProcsAssumption, BoundsAssumption DEF BarrierInv, TypeOK, PCs, Mutexes, MutexStates,
     header, history, Goto, SetOk, Locked, Unlocked, Holds, Available, Exclusion, CounterIsRight, CountedOnce
<1>1. CASE UNCHANGED vars
  BY <1>1 DEF vars
<1>2. ASSUME NEW p \in Procs, Call(p) PROVE CountedOnce'
  BY <1>2 DEF Call
<1>3. ASSUME NEW p \in Procs, Lock(p) PROVE CountedOnce'
  BY <1>3 DEF Lock
<1>4. ASSUME NEW p \in Procs, Repair(p) PROVE CountedOnce'
  BY <1>4 DEF Repair, MadeConsistent
<1>5. ASSUME NEW p \in Procs, Arrive(p) PROVE CountedOnce'
  BY <1>5 DEF Arrive, Counted
<1>6. ASSUME NEW p \in Procs, ArriveTooLate(p) PROVE CountedOnce'
  BY <1>6 DEF ArriveTooLate
<1>7. ASSUME NEW p \in Procs, Wait(p) PROVE CountedOnce'
  BY <1>7 DEF Wait, MustWait
<1>8. ASSUME NEW p \in Procs, Leave(p) PROVE CountedOnce'
  BY <1>8, NobodyWaits DEF Leave, MustWait
<1>9. ASSUME NEW p \in Procs, Wake(p) PROVE CountedOnce'
  BY <1>9 DEF Wake
<1>10. ASSUME NEW p \in Procs, Unlock(p) PROVE CountedOnce'
  BY <1>10 DEF Unlock
<1>11. ASSUME NEW p \in Procs, Spurious(p) PROVE CountedOnce'
  BY <1>11 DEF Spurious
<1>12. CASE ShutdownCall
  BY <1>12 DEF ShutdownCall
<1>13. CASE ShutdownStep
  BY <1>13 DEF ShutdownStep, ShutdownLock, ShutdownNotify, ShutdownUnlock
<1>14. ASSUME NEW p \in Mortal, Die(p) PROVE CountedOnce'
  BY <1>14 DEF Die, OwnerDied
<1>15. CASE Finished
  BY <1>1, <1>15 DEF Finished
<1> QED
  BY <1>1, <1>2, <1>3, <1>4, <1>5, <1>6, <1>7, <1>8, <1>9, <1>10, <1>11, <1>12, <1>13, <1>14, <1>15
  DEF Next, Step

\* Nobody gets through a round that is not complete.
LEMMA PassedStep == BarrierInv /\ [Next]_vars => PassedBehind'
<1> SUFFICES ASSUME BarrierInv, [Next]_vars PROVE PassedBehind'
  OBVIOUS
<1> TypeOK'
  BY NextType DEF BarrierInv
<1> USE ProcsAssumption, BoundsAssumption DEF BarrierInv, TypeOK, PCs, Mutexes, MutexStates,
     header, history, Goto, SetOk, Locked, Unlocked, Holds, Available, Exclusion, CounterIsRight,
     CountedOnce, PassedBehind
<1>1. CASE UNCHANGED vars
  BY <1>1 DEF vars
<1>2. ASSUME NEW p \in Procs, Call(p) PROVE PassedBehind'
  BY <1>2 DEF Call
<1>3. ASSUME NEW p \in Procs, Lock(p) PROVE PassedBehind'
  BY <1>3 DEF Lock
<1>4. ASSUME NEW p \in Procs, Repair(p) PROVE PassedBehind'
  BY <1>4 DEF Repair, MadeConsistent
<1>5. ASSUME NEW p \in Procs, Arrive(p) PROVE PassedBehind'
  BY <1>5 DEF Arrive, Counted
<1>6. ASSUME NEW p \in Procs, ArriveTooLate(p) PROVE PassedBehind'
  BY <1>6 DEF ArriveTooLate
<1>7. ASSUME NEW p \in Procs, Wait(p) PROVE PassedBehind'
  BY <1>7 DEF Wait, MustWait
<1>8. ASSUME NEW p \in Procs, Leave(p) PROVE PassedBehind'
  <2>1. CASE ok[p] /\ sync_count >= 0
    BY <1>8, <2>1, NobodyWaits DEF Leave, MustWait
  <2>2. CASE ~ok[p] \/ sync_count < 0
    <3>0. (ok[p] /\ sync_count >= 0) = FALSE
      BY <2>2
    <3>1. ok' = [ok EXCEPT ![p] = FALSE] /\ pc' = [pc EXCEPT ![p] = "unlock"]
      BY <1>8, <3>0, Zenon DEF Leave
    <3>2. gen' = gen /\ arrived' = arrived /\ passed' = passed
      BY <1>8 DEF Leave
    <3> QED BY <3>1, <3>2
  <2> QED BY <2>1, <2>2
<1>9. ASSUME NEW p \in Procs, Wake(p) PROVE PassedBehind'
  BY <1>9 DEF Wake
<1>10. ASSUME NEW p \in Procs, Unlock(p) PROVE PassedBehind'
  BY <1>10 DEF Unlock
<1>11. ASSUME NEW p \in Procs, Spurious(p) PROVE PassedBehind'
  BY <1>11 DEF Spurious
<1>12. CASE ShutdownCall
  BY <1>12 DEF ShutdownCall
<1>13. CASE ShutdownStep
  BY <1>13 DEF ShutdownStep, ShutdownLock, ShutdownNotify, ShutdownUnlock
<1>14. ASSUME NEW p \in Mortal, Die(p) PROVE PassedBehind'
  BY <1>14 DEF Die, OwnerDied
<1>15. CASE Finished
  BY <1>1, <1>15 DEF Finished
<1> QED
  BY <1>1, <1>2, <1>3, <1>4, <1>5, <1>6, <1>7, <1>8, <1>9, <1>10, <1>11, <1>12, <1>13, <1>14, <1>15
  DEF Next, Step

\* The barrier's invariant holds after sd_setup.
LEMMA InitInv == Init => BarrierInv
<1> SUFFICES ASSUME Init PROVE BarrierInv
  OBVIOUS
<1>1. TypeOK
  BY InitType
<1>2. Waiting = {}
  BY DEF Init, Waiting
<1>3. Cardinality(Waiting) = 0
  BY <1>2, FS_EmptySet
<1>4. Exclusion /\ CountedOnce /\ PassedBehind
  BY DEF Init, NewMutex, Exclusion, CountedOnce, PassedBehind
<1>5. CounterIsRight
  BY <1>3 DEF Init, CounterIsRight
<1> QED BY <1>1, <1>4, <1>5 DEF BarrierInv

\* Every step keeps the barrier's invariant.
LEMMA NextInv == BarrierInv /\ [Next]_vars => BarrierInv'
  BY NextType, ExclusionStep, CounterStep, CountedOnceStep, PassedStep DEF BarrierInv

\* The strengthening of BarrierSafety is an invariant of sd_barrier.
THEOREM InvCorrect == Spec => []BarrierInv
  BY InitInv, NextInv, PTL DEF Spec

\* No process returns true from its k-th sd_barrier before all processes of
\* the domain were counted in a k-th one.
THEOREM BarrierIsSafe == Spec => []BarrierSafety
<1>1. BarrierInv => BarrierSafety
  BY DEF BarrierInv, TypeOK, CounterIsRight, PassedBehind, BarrierSafety
<1> QED BY InvCorrect, <1>1, PTL

\* Who is about to return true owns a usable mutex, and the barrier works.
SuccessIsEarned ==
    \A p \in Procs : pc[p] = "unlock" /\ ok[p] =>
        Holds(mutex, p) /\ mutex.state = "consistent" /\ sync_count >= 0

\* Nobody else disturbs the header before the mutex is released.
LEMMA EarnedStep == BarrierInv /\ SuccessIsEarned /\ [Next]_vars => SuccessIsEarned'
<1> SUFFICES ASSUME BarrierInv, SuccessIsEarned, [Next]_vars PROVE SuccessIsEarned'
  OBVIOUS
<1> TypeOK'
  BY NextType DEF BarrierInv
<1> USE ProcsAssumption, BoundsAssumption DEF BarrierInv, TypeOK, PCs, Mutexes, MutexStates,
     header, history, Goto, SetOk, Locked, Unlocked, Holds, Available, Exclusion, SuccessIsEarned
<1>1. CASE UNCHANGED vars
  BY <1>1 DEF vars
<1>2. ASSUME NEW p \in Procs, Call(p) PROVE SuccessIsEarned'
  BY <1>2 DEF Call
<1>3. ASSUME NEW p \in Procs, Lock(p) PROVE SuccessIsEarned'
  <2>1. \A q \in Procs : q # p => pc'[q] = pc[q] /\ ok'[q] = ok[q] /\ ~(pc[q] = "unlock" /\ ok[q])
    BY <1>3 DEF Lock
  <2>2. CASE mutex.state = "consistent" /\ ~terminating
    BY <1>3, <2>1, <2>2 DEF Lock
  <2>3. CASE ~(mutex.state = "consistent" /\ ~terminating)
    <3>1. (mutex.state = "consistent" /\ ~terminating) = FALSE
      BY <2>3
    <3>2. ok' = [ok EXCEPT ![p] = FALSE]
      BY <1>3, <3>1, Zenon DEF Lock
    <3> QED BY <2>1, <3>2
  <2> QED BY <2>2, <2>3
<1>4. ASSUME NEW p \in Procs, Repair(p) PROVE SuccessIsEarned'
  BY <1>4 DEF Repair, MadeConsistent
<1>5. ASSUME NEW p \in Procs, Arrive(p) PROVE SuccessIsEarned'
  BY <1>5 DEF Arrive, Counted
<1>6. ASSUME NEW p \in Procs, ArriveTooLate(p) PROVE SuccessIsEarned'
  BY <1>6 DEF ArriveTooLate
<1>7. ASSUME NEW p \in Procs, Wait(p) PROVE SuccessIsEarned'
  BY <1>7 DEF Wait, MustWait
<1>8. ASSUME NEW p \in Procs, Leave(p) PROVE SuccessIsEarned'
  BY <1>8 DEF Leave, MustWait
<1>9. ASSUME NEW p \in Procs, Wake(p) PROVE SuccessIsEarned'
  BY <1>9 DEF Wake
<1>10. ASSUME NEW p \in Procs, Unlock(p) PROVE SuccessIsEarned'
  BY <1>10 DEF Unlock
<1>11. ASSUME NEW p \in Procs, Spurious(p) PROVE SuccessIsEarned'
  BY <1>11 DEF Spurious
<1>12. CASE ShutdownCall
  BY <1>12 DEF ShutdownCall
<1>13. CASE ShutdownStep
  BY <1>13 DEF ShutdownStep, ShutdownLock, ShutdownNotify, ShutdownUnlock
<1>14. ASSUME NEW p \in Mortal, Die(p) PROVE SuccessIsEarned'
  BY <1>14 DEF Die, OwnerDied
<1>15. CASE Finished
  BY <1>1, <1>15 DEF Finished
<1> QED
  BY <1>1, <1>2, <1>3, <1>4, <1>5, <1>6, <1>7, <1>8, <1>9, <1>10, <1>11, <1>12, <1>13, <1>14, <1>15
  DEF Next, Step

\* Only the last step of a successful sd_barrier changes `passed', and who
\* takes it finds the barrier in order.
LEMMA PassedOnlyInOrder ==
  ASSUME SuccessIsEarned, [Next]_vars, Broken, TypeOK
  PROVE  passed' = passed
<1> USE DEF header, history
<1>1. ASSUME NEW p \in Procs, Unlock(p) PROVE passed' = passed
  <2>1. ~(Holds(mutex, p) /\ ok[p])
    BY <1>1 DEF Unlock, SuccessIsEarned, TypeOK, Broken
  <2> QED BY <1>1, <2>1 DEF Unlock
<1>2. ASSUME NEW p \in Procs, Call(p) \/ Lock(p) \/ Repair(p) \/ Arrive(p) \/ ArriveTooLate(p)
      PROVE  passed' = passed
  BY <1>2 DEF Call, Lock, Repair, Arrive, ArriveTooLate
<1>3. ASSUME NEW p \in Procs, Wait(p) \/ Leave(p) \/ Wake(p) \/ Spurious(p) PROVE passed' = passed
  BY <1>3 DEF Wait, Leave, Wake, Spurious
<1>4. CASE ShutdownCall \/ ShutdownStep \/ \E p \in Mortal : Die(p)
  BY <1>4 DEF ShutdownCall, ShutdownStep, ShutdownLock, ShutdownNotify, ShutdownUnlock, Die
<1>5. CASE Finished \/ UNCHANGED vars
  BY <1>5 DEF Finished, vars
<1> QED BY <1>1, <1>2, <1>3, <1>4, <1>5 DEF Next, Step

\* A process that died inside sd_barrier makes it fail for everybody: from
\* then on no call returns true.
THEOREM FailureIsFinal == Spec => NoSuccessAfterDeath
<1>1. Init => BarrierInv /\ SuccessIsEarned
  BY InitInv DEF Init, SuccessIsEarned
<1>2. BarrierInv /\ SuccessIsEarned /\ [Next]_vars => (BarrierInv /\ SuccessIsEarned)'
  BY NextInv, EarnedStep
<1>3. BarrierInv /\ SuccessIsEarned /\ [Next]_vars =>
        [Broken => passed' = passed]_vars
  BY PassedOnlyInOrder DEF BarrierInv
<1> QED BY <1>1, <1>2, <1>3, PTL DEF Spec, NoSuccessAfterDeath
-----------------------------------------------------------------------------
\* Who is not inside has passed all rounds it was counted in, unless its call
\* failed, and then no later one succeeds.
NobodySkips ==
    \A p \in Procs :
        /\ passed[p] # arrived[p] =>
             \/ pc[p] \in {"loop", "sleep", "dead"} \/ (pc[p] = "unlock" /\ ok[p])
             \/ terminating \/ Broken
        /\ pc[p] = "arrive" => sync_count < 0 \/ passed[p] = arrived[p]
        /\ pc[p] \in {"loop", "sleep"} \/ (pc[p] = "unlock" /\ ok[p]) => passed[p] + 1 = arrived[p]

\* A barrier that is broken stays broken: it is repaired by giving it up.
LEMMA BrokenStays == BarrierInv /\ [Next]_vars /\ Broken => Broken'
<1> SUFFICES ASSUME BarrierInv, [Next]_vars, Broken PROVE Broken'
  OBVIOUS
<1> USE ProcsAssumption, BoundsAssumption DEF BarrierInv, TypeOK, PCs, Mutexes, MutexStates,
     header, history, Goto, SetOk, Locked, Unlocked, Holds, Available, Exclusion, Broken
<1>1. CASE UNCHANGED vars
  BY <1>1 DEF vars
<1>2. ASSUME NEW p \in Procs, Call(p) PROVE Broken'
  BY <1>2 DEF Call
<1>3. ASSUME NEW p \in Procs, Lock(p) PROVE Broken'
  BY <1>3 DEF Lock
<1>4. ASSUME NEW p \in Procs, Repair(p) PROVE Broken'
  BY <1>4 DEF Repair, MadeConsistent
<1>5. ASSUME NEW p \in Procs, Arrive(p) PROVE Broken'
  BY <1>5 DEF Arrive, Counted
<1>6. ASSUME NEW p \in Procs, ArriveTooLate(p) PROVE Broken'
  BY <1>6 DEF ArriveTooLate
<1>7. ASSUME NEW p \in Procs, Wait(p) PROVE Broken'
  BY <1>7 DEF Wait, MustWait
<1>8. ASSUME NEW p \in Procs, Leave(p) PROVE Broken'
  BY <1>8 DEF Leave, MustWait
<1>9. ASSUME NEW p \in Procs, Wake(p) PROVE Broken'
  BY <1>9 DEF Wake
<1>10. ASSUME NEW p \in Procs, Unlock(p) PROVE Broken'
  BY <1>10 DEF Unlock
<1>11. ASSUME NEW p \in Procs, Spurious(p) PROVE Broken'
  BY <1>11 DEF Spurious
<1>12. CASE ShutdownCall
  BY <1>12 DEF ShutdownCall
<1>13. CASE ShutdownStep
  BY <1>13 DEF ShutdownStep, ShutdownLock, ShutdownNotify, ShutdownUnlock
<1>14. ASSUME NEW p \in Mortal, Die(p) PROVE Broken'
  BY <1>14 DEF Die, OwnerDied
<1>15. CASE Finished
  BY <1>1, <1>15 DEF Finished
<1> QED
  BY <1>1, <1>2, <1>3, <1>4, <1>5, <1>6, <1>7, <1>8, <1>9, <1>10, <1>11, <1>12, <1>13, <1>14, <1>15
  DEF Next, Step

\* Nobody skips a round, after every step too.
LEMMA SkipsStep == BarrierInv /\ SuccessIsEarned /\ NobodySkips /\ [Next]_vars => NobodySkips'
<1> SUFFICES ASSUME BarrierInv, SuccessIsEarned, NobodySkips, [Next]_vars PROVE NobodySkips'
  OBVIOUS
<1> TypeOK'
  BY NextType DEF BarrierInv
<1> Broken => Broken'
  BY BrokenStays
<1> USE ProcsAssumption, BoundsAssumption DEF BarrierInv, TypeOK, PCs, Mutexes, MutexStates,
     header, history, Goto, SetOk, Locked, Unlocked, Holds, Available, Exclusion, SuccessIsEarned,
     NobodySkips, Broken
<1>1. CASE UNCHANGED vars
  BY <1>1 DEF vars
<1>2. ASSUME NEW p \in Procs, Call(p) PROVE NobodySkips'
  BY <1>2 DEF Call
<1>3. ASSUME NEW p \in Procs, Lock(p) PROVE NobodySkips'
  BY <1>3 DEF Lock
<1>4. ASSUME NEW p \in Procs, Repair(p) PROVE NobodySkips'
  BY <1>4 DEF Repair, MadeConsistent
<1>5. ASSUME NEW p \in Procs, Arrive(p) PROVE NobodySkips'
  BY <1>5 DEF Arrive, Counted
<1>6. ASSUME NEW p \in Procs, ArriveTooLate(p) PROVE NobodySkips'
  BY <1>6 DEF ArriveTooLate
<1>7. ASSUME NEW p \in Procs, Wait(p) PROVE NobodySkips'
  BY <1>7 DEF Wait, MustWait
<1>8. ASSUME NEW p \in Procs, Leave(p) PROVE NobodySkips'
  BY <1>8 DEF Leave, MustWait
<1>9. ASSUME NEW p \in Procs, Wake(p) PROVE NobodySkips'
  BY <1>9 DEF Wake
<1>10. ASSUME NEW p \in Procs, Unlock(p) PROVE NobodySkips'
  BY <1>10 DEF Unlock
<1>11. ASSUME NEW p \in Procs, Spurious(p) PROVE NobodySkips'
  BY <1>11 DEF Spurious
<1>12. CASE ShutdownCall
  BY <1>12 DEF ShutdownCall
<1>13. CASE ShutdownStep
  BY <1>13 DEF ShutdownStep, ShutdownLock, ShutdownNotify, ShutdownUnlock
<1>14. ASSUME NEW p \in Mortal, Die(p) PROVE NobodySkips'
  BY <1>14 DEF Die, OwnerDied
<1>15. CASE Finished
  BY <1>1, <1>15 DEF Finished
<1> QED
  BY <1>1, <1>2, <1>3, <1>4, <1>5, <1>6, <1>7, <1>8, <1>9, <1>10, <1>11, <1>12, <1>13, <1>14, <1>15
  DEF Next, Step

\* Whoever is counted enters a round of the abstract barrier: the last one of
\* a round completes it, as everybody else is inside.
LEMMA ArriveIsEnter ==
  ASSUME BarrierInv, NobodySkips, TypeOK', NEW p \in Procs, Arrive(p)
  PROVE  Abstract!Enter(p)
<1>1. /\ Holds(mutex, p) /\ mutex.state = "consistent" /\ sync_count >= 0
      /\ arrived[p] = gen /\ passed[p] = gen
  BY DEF Arrive, BarrierInv, TypeOK, Exclusion, CountedOnce, NobodySkips
<1>2. /\ arrived' = [arrived EXCEPT ![p] = @ + 1] /\ passed' = passed /\ mutex' = mutex
      /\ sync_count' = Counted(sync_count) /\ gen' = IF sync_count' = 0 THEN gen + 1 ELSE gen
  BY DEF Arrive
<1>3. /\ arrived \in [Procs -> Nat] /\ gen \in Nat /\ sync_count \in -1 .. NofProcesses - 1
      /\ sync_count' \in 0 .. NofProcesses - 1
      /\ \A q \in Procs : arrived[q] \in {gen, gen + 1}
      /\ Cardinality(Waiting) = IF sync_count = 0 THEN 0 ELSE NofProcesses - sync_count
  BY <1>1, <1>2 DEF BarrierInv, TypeOK, CounterIsRight, Counted
<1>4. p \notin Waiting /\ IsFiniteSet(Waiting) /\ Waiting \cup {p} \subseteq Procs
  <2>1. p \notin Waiting /\ Waiting \subseteq Procs
    BY <1>1, <1>3 DEF Waiting
  <2> QED BY <2>1, ProcsAssumption, FS_Subset
<1>5. Cardinality(Waiting \cup {p}) = NofProcesses - sync_count'
  <2>1. Cardinality(Waiting \cup {p}) = Cardinality(Waiting) + 1
    BY ONLY <1>4, FS_AddElement
  <2> QED BY <1>1, <1>2, <1>3, <2>1 DEF Counted
<1>6. {q \in Procs : arrived'[q] = gen + 1} = Waiting \cup {p}
  BY <1>1, <1>2, <1>3 DEF Waiting
<1>7. Broken = FALSE /\ Broken' = FALSE
  BY <1>1, <1>2, <1>3 DEF Broken
<1>8. CASE sync_count' = 0
  <2>1. Waiting \cup {p} = Procs
    <3>1. Cardinality(Waiting \cup {p}) = Cardinality(Procs)
      BY <1>3, <1>5, <1>8 DEF NofProcesses
    <3> QED BY ONLY <1>4, <3>1, ProcsAssumption, FS_Subset
  <2>2. gen' = gen + 1 /\ \A q \in Procs : arrived'[q] = gen + 1
    BY <1>2, <1>6, <1>8, <2>1
  <2>3. Waiting' = {}
    BY <1>3, <2>2 DEF Waiting
  <2> QED BY <1>1, <1>2, <1>4, <1>7, <2>1, <2>2, <2>3 DEF Abstract!Enter
<1>9. CASE sync_count' # 0
  <2>1. Waiting \cup {p} # Procs
    <3>1. Cardinality(Waiting \cup {p}) # Cardinality(Procs)
      BY <1>3, <1>5, <1>9 DEF NofProcesses
    <3> QED BY <3>1
  <2>2. gen' = gen
    BY <1>2, <1>9
  <2>3. Waiting' = Waiting \cup {p}
    BY <1>6, <2>2 DEF Waiting
  <2> QED BY <1>1, <1>2, <1>4, <1>7, <2>1, <2>2, <2>3 DEF Abstract!Enter
<1> QED BY <1>8, <1>9

\* Who returns true passes the last complete round of the abstract barrier;
\* who returns false changes none of it, or breaks it.
LEMMA UnlockIsPass ==
  ASSUME BarrierInv, SuccessIsEarned, NobodySkips, NEW p \in Procs, Unlock(p), Broken => Broken'
  PROVE  Abstract!Pass(p) \/ Abstract!Break \/ UNCHANGED Abstract!rvars
<1>1. /\ arrived' = arrived /\ gen' = gen /\ sync_count' = sync_count
      /\ mutex' = Unlocked(mutex, p)
      /\ passed' = IF Holds(mutex, p) /\ ok[p] THEN [passed EXCEPT ![p] = @ + 1] ELSE passed
  BY DEF Unlock
<1>2. Waiting' = Waiting
  BY <1>1 DEF Waiting
<1>3. CASE Holds(mutex, p) /\ ok[p]
  <2>1. mutex.state = "consistent" /\ sync_count >= 0 /\ passed[p] + 1 = arrived[p] /\ arrived[p] <= gen
    BY <1>3 DEF Unlock, SuccessIsEarned, NobodySkips, BarrierInv, PassedBehind
  <2>2. passed[p] + 1 = gen /\ p \notin Waiting
    BY <2>1 DEF BarrierInv, TypeOK, CounterIsRight, Waiting
  <2>3. mutex'.state = "consistent"
    BY <1>1, <1>3, <2>1 DEF Unlocked
  <2>4. Broken = FALSE /\ Broken' = FALSE
    BY <1>1, <2>1, <2>3 DEF Broken, BarrierInv, TypeOK
  <2> QED BY <1>1, <1>2, <1>3, <2>2, <2>4 DEF Abstract!Pass
<1>4. CASE ~(Holds(mutex, p) /\ ok[p])
  <2>1. passed' = passed
    BY <1>1, <1>4
  <2>2. (Broken' = TRUE /\ ~Broken) \/ Broken' = Broken
    BY DEF Broken
  <2> QED BY <1>1, <1>2, <2>1, <2>2 DEF Abstract!Break, Abstract!rvars
<1> QED BY <1>3, <1>4

\* Any other step is not seen, or it breaks the barrier.
LEMMA OthersStutter ==
  ASSUME arrived' = arrived, gen' = gen, passed' = passed, Broken => Broken'
  PROVE  Abstract!Break \/ UNCHANGED Abstract!rvars
<1>1. Waiting' = Waiting
  BY DEF Waiting
<1>2. (Broken' = TRUE /\ ~Broken) \/ Broken' = Broken
  BY DEF Broken
<1> QED BY <1>1, <1>2 DEF Abstract!Break, Abstract!rvars

\* Every step of sd_barrier and around it is a step of the rounds or none.
LEMMA RoundsStep ==
  ASSUME BarrierInv, SuccessIsEarned, NobodySkips, [Next]_vars
  PROVE  [Abstract!Break \/ \E p \in Procs : Abstract!Enter(p) \/ Abstract!Pass(p)]_(Abstract!rvars)
<1> DEFINE Goal == [Abstract!Break \/ \E p \in Procs : Abstract!Enter(p) \/ Abstract!Pass(p)]_(Abstract!rvars)
<1>0. (Broken => Broken') /\ TypeOK'
  BY BrokenStays, NextType DEF BarrierInv
<1>1. ASSUME NEW p \in Procs, Arrive(p) PROVE Goal
  BY <1>0, <1>1, ArriveIsEnter
<1>2. ASSUME NEW p \in Procs, Unlock(p) PROVE Goal
  BY <1>0, <1>2, UnlockIsPass
<1>3. ASSUME arrived' = arrived /\ gen' = gen /\ passed' = passed PROVE Goal
  BY <1>0, <1>3, OthersStutter
<1> HIDE DEF Goal
<1>4. ASSUME NEW p \in Procs, Call(p) \/ Lock(p) \/ Repair(p) \/ ArriveTooLate(p) PROVE Goal
  BY <1>3, <1>4 DEF Call, Lock, Repair, ArriveTooLate, history
<1>5. ASSUME NEW p \in Procs, Wait(p) \/ Leave(p) \/ Wake(p) \/ Spurious(p) PROVE Goal
  BY <1>3, <1>5 DEF Wait, Leave, Wake, Spurious, history
<1>6. ASSUME ShutdownCall \/ ShutdownStep \/ \E p \in Mortal : Die(p) PROVE Goal
  BY <1>3, <1>6 DEF ShutdownCall, ShutdownStep, ShutdownLock, ShutdownNotify, ShutdownUnlock, Die, history
<1>7. ASSUME Finished \/ UNCHANGED vars PROVE Goal
  BY <1>3, <1>7 DEF Finished, vars, history
<1>8. Goal
  BY <1>1, <1>2, <1>4, <1>5, <1>6, <1>7 DEF Next, Step
<1> QED BY <1>8 DEF Goal

\* sd_barrier implements rounds that everybody enters and passes in order, for
\* any number of processes and calls, with deaths, shutdown and spurious
\* wakeups at any time.
THEOREM BarrierImplementsRounds == Spec => ImplementsRounds
<1> DEFINE Inv == BarrierInv /\ SuccessIsEarned /\ NobodySkips
<1>1. Init => Inv
  <2>1. Init => NobodySkips
    BY DEF Init, NobodySkips
  <2> QED BY <2>1, InitInv DEF Init, SuccessIsEarned
<1>2. Inv /\ [Next]_vars => Inv'
  BY NextInv, EarnedStep, SkipsStep
<1>3. Init => Abstract!NoRound
  <2> SUFFICES ASSUME Init PROVE Abstract!NoRound
    OBVIOUS
  <2>1. Waiting = {} /\ Broken = FALSE
    BY DEF Init, Waiting, Broken, NewMutex
  <2> QED BY <2>1 DEF Init, Abstract!NoRound
<1>4. Inv /\ [Next]_vars =>
        [Abstract!Break \/ \E p \in Procs : Abstract!Enter(p) \/ Abstract!Pass(p)]_(Abstract!rvars)
  BY RoundsStep
<1> QED BY <1>1, <1>2, <1>3, <1>4, PTL DEF Spec, ImplementsRounds, Abstract!RoundsSpec
=============================================================================
