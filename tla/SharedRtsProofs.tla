--------------------------- MODULE SharedRtsProofs ---------------------------
(***************************************************************************)
(* ChildsAreKnown and GroupIsReaped for every number of workers, whichever *)
(* of them fail, whether fork fails, waitpid is interrupted or a child's   *)
(* exec comes before setpgid.                                              *)
(***************************************************************************)
EXTENDS SharedRts, FiniteSetTheorems, TLAPS

\* The variables of shared_rts_run and the states of the workers have their types.
TypeOK ==
    /\ pc \in {"fork", "setpgid", "wait", "shutdown", "kill", "free", "done", "assertion failed"}
    /\ rank \in 1 .. N + 1 /\ childs_left \in Int
    /\ aborted \in BOOLEAN /\ killed \in BOOLEAN /\ result \in BOOLEAN
    /\ terminating \in BOOLEAN /\ freed \in BOOLEAN /\ interrupted \in BOOLEAN
    /\ state \in [Ranks -> {"none", "forked", "running", "critical", "asleep", "zombie", "gone"}]
    /\ pid \in [Ranks -> Pids \cup {0}] /\ childs \in [Ranks -> Pids \cup {0}]
    /\ failed \in [Ranks -> BOOLEAN] /\ exec_done \in [Ranks -> BOOLEAN]
    /\ in_group \in [Ranks -> BOOLEAN] /\ sigterm \subseteq Ranks

Gone == {r \in Ranks : state[r] = "gone"}

\* The counter goes with the children that are reaped.
CountsChildren == childs_left = N - Cardinality(Gone)

\* Two children that were forked have different pids, and childs has the pids
\* of those that were put down and not yet reaped.
PidsAreKnown ==
    /\ \A r \in Ranks : r < rank => pid[r] # 0
    /\ \A r, q \in Ranks : pid[r] = pid[q] /\ pid[r] # 0 => r = q
    /\ \A r \in Ranks : r < rank => childs[r] = IF r \in Gone THEN 0 ELSE pid[r]
    /\ pc = "setpgid" => pid[rank] # 0
    /\ pc # "assertion failed"

\* The loop that forks has not met a rank that is still to come, and the loop
\* that waits begins after the last one.
LoopsAreInOrder ==
    /\ \A r \in Ranks : in_group[r] => r < rank
    /\ pc \in {"fork", "setpgid"} => rank <= N /\ ~aborted /\ Gone = {}
    /\ pc \in {"wait", "shutdown", "kill"} => rank = N + 1

\* What the master has seen of a failure, and what it has to show for it.
FailureIsSeen ==
    /\ \A r \in Gone : failed[r] => aborted
    /\ result => pc = "done" /\ ~aborted

\* Behind the loop that waits, unless it was never reached or was interrupted.
ReapedBehindLoop ==
    /\ freed => pc = "done"
    /\ pc \in {"free", "done"} /\ rank = N + 1 /\ ~interrupted => \A r \in Ranks : in_group[r] => r \in Gone
    /\ pc \in {"free", "done"} /\ rank <= N => aborted

\* The inductive invariant of shared_rts_run
RtsInv ==
    TypeOK /\ CountsChildren /\ PidsAreKnown /\ LoopsAreInOrder /\ FailureIsSeen /\ ReapedBehindLoop
-----------------------------------------------------------------------------
\* The invariant holds when the domain has been set up.
LEMMA RtsInit == Init => RtsInv
<1> SUFFICES ASSUME Init PROVE RtsInv
  OBVIOUS
<1> USE DEF Init
<1>1. TypeOK
  <2>1. rank \in 1 .. N + 1 /\ childs_left \in Int
    BY NAssumption
  <2> QED BY <2>1 DEF TypeOK
<1>2. Gone = {}
  BY DEF Gone
<1>3. CountsChildren
  <2>1. Cardinality(Gone) = 0
    BY <1>2, FS_EmptySet
  <2>2. childs_left = N - Cardinality(Gone)
    BY <2>1, NAssumption
  <2> QED BY <2>2 DEF CountsChildren
<1>4. LoopsAreInOrder /\ FailureIsSeen /\ ReapedBehindLoop
  BY <1>2, NAssumption DEF LoopsAreInOrder, FailureIsSeen, ReapedBehindLoop
<1>5. PidsAreKnown
  BY <1>2, NAssumption DEF PidsAreKnown, Ranks
<1> QED BY <1>1, <1>3, <1>4, <1>5 DEF RtsInv

\* What the proofs need of the number of reaped children.
LEMMA GoneIsFinite == IsFiniteSet(Ranks) /\ IsFiniteSet(Gone) /\ Cardinality(Gone) \in Nat /\ Cardinality(Ranks) = N
<1>1. IsFiniteSet(Ranks) /\ Cardinality(Ranks) = N
  BY NAssumption, FS_Interval DEF Ranks
<1>2. IsFiniteSet(Gone)
  BY <1>1, FS_Subset DEF Gone
<1> QED BY <1>1, <1>2, FS_CardinalityType

\* A step that reaps nobody, and leaves the counter alone, keeps it right.
LEMMA CountKept ==
  ASSUME CountsChildren, Gone' = Gone, childs_left' = childs_left
  PROVE  CountsChildren'
  BY DEF CountsChildren

\* A step that reaps nobody and neither forks nor puts a pid down keeps the pids.
LEMMA PidsKept ==
  ASSUME PidsAreKnown, Gone' = Gone, UNCHANGED <<rank, pid, childs>>,
         pc' # "assertion failed", pc' = "setpgid" => pc = "setpgid"
  PROVE  PidsAreKnown'
  BY DEF PidsAreKnown

\* When the counter is down to 0 all children are reaped.
LEMMA AllGone == ASSUME CountsChildren, childs_left = 0 PROVE Gone = Ranks
<1>1. Cardinality(Gone) = N
  BY GoneIsFinite, NAssumption DEF CountsChildren
<1> QED BY <1>1, GoneIsFinite, FS_Subset DEF Gone

\* A worker that was not reaped changes its state, and still is not reaped.
LEMMA WorkerStep ==
  ASSUME RtsInv, NEW r \in Ranks, NEW s \in {"forked", "running", "critical", "asleep", "zombie"}, NEW f \in BOOLEAN,
         state[r] # "gone", Become(r, s, f), exec_done' \in [Ranks -> BOOLEAN]
  PROVE  RtsInv'
<1> USE DEF Become, RtsInv, loop, domain
<1>1. TypeOK'
  <2>1. state' \in [Ranks -> {"none", "forked", "running", "critical", "asleep", "zombie", "gone"}]
    BY DEF TypeOK
  <2>2. failed' \in [Ranks -> BOOLEAN]
    BY DEF TypeOK
  <2> QED BY <2>1, <2>2 DEF TypeOK
<1>2. Gone' = Gone
  BY DEF Gone, TypeOK
<1>3. CountsChildren'
  BY <1>2, CountKept
<1>4. LoopsAreInOrder'
  BY <1>2 DEF LoopsAreInOrder
<1>5. FailureIsSeen'
  BY <1>2 DEF FailureIsSeen, Gone, TypeOK
<1>6. ReapedBehindLoop'
  BY <1>2 DEF ReapedBehindLoop
<1>7. PidsAreKnown'
  BY <1>2, PidsKept DEF PidsAreKnown
<1> QED BY <1>1, <1>3, <1>4, <1>5, <1>6, <1>7

\* The pid of a child that was not reaped is found at its rank.
LEMMA PidIsFound ==
  ASSUME RtsInv, rank = N + 1, NEW r \in Ranks, r \notin Gone, NEW k \in 1 .. N + 1, Found(pid[r], k)
  PROVE  k = r
<1> USE NAssumption DEF RtsInv
<1>0. \A q \in Ranks : q < rank
  BY DEF Ranks
<1>1. childs[r] = pid[r] /\ pid[r] # 0
  BY <1>0 DEF PidsAreKnown
<1>2. k <= N
  <2> SUFFICES ASSUME k = N + 1 PROVE FALSE
    OBVIOUS
  <2>1. r \in 1 .. k - 1
    BY DEF Ranks
  <2> QED BY <1>1, <2>1 DEF Found
<1>3. k \in Ranks /\ childs[k] = pid[r]
  BY <1>2 DEF Found, Ranks
<1>4. k \notin Gone /\ pid[k] = pid[r]
  BY <1>0, <1>1, <1>3 DEF PidsAreKnown
<1> QED BY <1>1, <1>3, <1>4 DEF PidsAreKnown

\* The master reaps a child: it is found, and one less is left.
LEMMA WaitStep == ASSUME RtsInv, NEW r \in Ranks, Wait(r) PROVE RtsInv'
<1> USE DEF RtsInv, domain
<1>1. r \notin Gone /\ rank = N + 1
  BY DEF Wait, Gone, LoopsAreInOrder
<1>2. /\ childs' = [childs EXCEPT ![r] = 0]
      /\ childs_left' = childs_left - 1
      /\ aborted' = (aborted \/ failed[r])
      /\ pc' \in {"shutdown", "wait"}
  <2>1. PICK k \in 1 .. N + 1 :
          /\ Found(pid[r], k)
          /\ \/ k > N
             \/ /\ childs' = [childs EXCEPT ![k] = 0]
                /\ childs_left' = childs_left - 1
                /\ aborted' = (aborted \/ failed[r])
                /\ pc' = IF MustAbort(r, childs_left - 1) THEN "shutdown" ELSE "wait"
    BY Zenon DEF Wait
  <2>2. k = r
    BY <1>1, <2>1, PidIsFound
  <2>3. ~(k > N)
    BY <2>2, NAssumption DEF Ranks
  <2> QED BY <2>1, <2>2, <2>3
<1>3. /\ pc = "wait" /\ state' = [state EXCEPT ![r] = "gone"]
      /\ UNCHANGED <<rank, killed, interrupted, result, terminating, freed, pid, failed, exec_done, in_group, sigterm>>
  BY DEF Wait
<1>4. TypeOK'
  <2>1. childs' \in [Ranks -> Pids \cup {0}]
    <3>1. childs \in [Ranks -> Pids \cup {0}]
      BY DEF TypeOK
    <3> QED BY ONLY <1>2, <3>1
  <2>4. childs_left' \in Int
    <3>1. childs_left \in Int
      BY DEF TypeOK
    <3> QED BY ONLY <1>2, <3>1
  <2>2. state' \in [Ranks -> {"none", "forked", "running", "critical", "asleep", "zombie", "gone"}]
    BY <1>3 DEF TypeOK
  <2>3. aborted' \in BOOLEAN
    BY <1>2 DEF TypeOK
  <2> QED BY <1>2, <1>3, <2>1, <2>2, <2>3, <2>4 DEF TypeOK
<1>5. Gone' = Gone \cup {r}
  BY <1>3 DEF Gone, TypeOK
<1>6. Cardinality(Gone') = Cardinality(Gone) + 1
  BY <1>1, <1>5, GoneIsFinite, FS_AddElement
<1>7. CountsChildren'
  BY <1>2, <1>6, GoneIsFinite, NAssumption DEF CountsChildren
<1>8. PidsAreKnown'
  BY <1>2, <1>3, <1>5 DEF PidsAreKnown, TypeOK
<1>9. LoopsAreInOrder'
  BY <1>1, <1>2, <1>3 DEF LoopsAreInOrder
<1>10. FailureIsSeen'
  BY <1>2, <1>3, <1>5 DEF FailureIsSeen, TypeOK
<1>11. ReapedBehindLoop'
  BY <1>2, <1>3 DEF ReapedBehindLoop
<1> QED BY <1>4, <1>7, <1>8, <1>9, <1>10, <1>11

\* Every step of the master and of the workers keeps the invariant.
LEMMA RtsStep == RtsInv /\ [Next]_vars => RtsInv'
<1> SUFFICES ASSUME RtsInv, [Next]_vars PROVE RtsInv'
  OBVIOUS
<1> USE NAssumption DEF RtsInv, domain, loop, workers
<1>1. CASE UNCHANGED vars
  <2>1. Gone' = Gone /\ childs_left' = childs_left
    BY <1>1 DEF vars, Gone
  <2>2. CountsChildren'
    BY <2>1, CountKept
  <2>3. PidsAreKnown'
    BY <1>1, <2>1, PidsKept DEF vars, PidsAreKnown
  <2> QED BY <1>1, <2>1, <2>2, <2>3 DEF vars, TypeOK, LoopsAreInOrder, FailureIsSeen, ReapedBehindLoop
<1>2. CASE Fork
  <2> USE <1>2 DEF Fork
  <2>1. rank \in Ranks /\ Gone = {}
    BY DEF LoopsAreInOrder, TypeOK, Ranks
  <2>2. Gone' = Gone
    BY <2>1 DEF TypeOK, Gone
  <2>3. CountsChildren'
    BY <2>2, CountKept
  <2>4. TypeOK'
    BY <2>1 DEF TypeOK
  <2>5. PidsAreKnown'
    <3>1. PICK p \in Pids : (\A r \in Ranks : pid[r] # p) /\ pid' = [pid EXCEPT ![rank] = p]
      OBVIOUS
    <3>2. p # 0 /\ rank \notin {r \in Ranks : r < rank}
      BY <2>1 DEF Ranks
    <3> QED BY <2>1, <2>2, <3>1, <3>2 DEF PidsAreKnown, TypeOK
  <2>6. LoopsAreInOrder'
    BY <2>2 DEF LoopsAreInOrder
  <2>7. FailureIsSeen' /\ ReapedBehindLoop'
    BY <2>1, <2>2 DEF FailureIsSeen, ReapedBehindLoop
  <2> QED BY <2>3, <2>4, <2>5, <2>6, <2>7
<1>3. CASE Setpgid
  <2> USE <1>3 DEF Setpgid
  <2>1. rank \in Ranks /\ rank + 1 \in 1 .. N + 1
    BY DEF LoopsAreInOrder, TypeOK, Ranks
  <2>2. Gone' = Gone
    BY DEF Gone
  <2>3. CountsChildren'
    BY <2>2, CountKept
  <2>4. in_group' \in [Ranks -> BOOLEAN]
    BY DEF TypeOK
  <2>5. TypeOK'
    BY <2>1, <2>4 DEF TypeOK
  <2>6. LoopsAreInOrder'
    <3>1. ASSUME NEW r \in Ranks, in_group'[r] PROVE r < rank'
      BY <2>1, <3>1 DEF LoopsAreInOrder, TypeOK, Ranks
    <3>2. pc' \in {"fork", "setpgid"} => rank' <= N /\ ~aborted' /\ Gone' = {}
      BY <2>1, <2>2 DEF LoopsAreInOrder, TypeOK
    <3>3. pc' \in {"wait", "shutdown", "kill"} => rank' = N + 1
      BY <2>1 DEF LoopsAreInOrder, TypeOK
    <3> QED BY <3>1, <3>2, <3>3 DEF LoopsAreInOrder
  <2>7. FailureIsSeen' /\ ReapedBehindLoop'
    BY <2>2 DEF FailureIsSeen, ReapedBehindLoop, TypeOK
  <2>8. PidsAreKnown'
    <3>1. \A r \in Ranks : r < rank + 1 => r < rank \/ r = rank
      BY <2>1 DEF Ranks
    <3>2. Gone = {}
      BY DEF LoopsAreInOrder
    <3> QED BY <2>1, <2>2, <3>1, <3>2 DEF PidsAreKnown, TypeOK
  <2> QED BY <2>3, <2>5, <2>6, <2>7, <2>8
<1>4. CASE WaitDone
  <2> USE <1>4 DEF WaitDone, LoopEnds
  <2>1. Gone' = Gone
    BY DEF Gone
  <2>2. CountsChildren'
    BY <2>1, CountKept
  <2>3. TypeOK' /\ LoopsAreInOrder' /\ FailureIsSeen'
    BY <2>1 DEF TypeOK, LoopsAreInOrder, FailureIsSeen
  <2>4. ASSUME NEW r \in Ranks, in_group[r] PROVE r \in Gone
    <3>1. CASE childs_left = 0
      BY <3>1, AllGone
    <3>2. CASE Group = {}
      BY <3>2, <2>4 DEF Group, Gone
    <3> QED BY <3>1, <3>2
  <2>5. ReapedBehindLoop'
    BY <2>1, <2>4 DEF ReapedBehindLoop, LoopsAreInOrder
  <2>6. PidsAreKnown'
    BY <2>1, PidsKept
  <2> QED BY <2>2, <2>3, <2>5, <2>6
<1>5. CASE Shutdown
  <2> USE <1>5 DEF Shutdown
  <2>1. Gone' = Gone
    BY DEF Gone
  <2>2. CountsChildren'
    BY <2>1, CountKept
  <2>3. PidsAreKnown'
    BY <2>1, PidsKept
  <2> QED BY <2>1, <2>2, <2>3 DEF TypeOK, LoopsAreInOrder, FailureIsSeen, ReapedBehindLoop
<1>6. CASE Kill
  <2> USE <1>6 DEF Kill
  <2>1. Gone' = Gone
    BY DEF Gone
  <2>2. CountsChildren'
    BY <2>1, CountKept
  <2>3. TypeOK'
    BY DEF TypeOK, KillGroup, Group
  <2>4. PidsAreKnown'
    BY <2>1, PidsKept
  <2> QED BY <2>1, <2>2, <2>3, <2>4 DEF LoopsAreInOrder, FailureIsSeen, ReapedBehindLoop
<1>7. CASE Free
  <2> USE <1>7 DEF Free
  <2>1. Gone' = Gone
    BY DEF Gone
  <2>2. CountsChildren'
    BY <2>1, CountKept
  <2>3. TypeOK'
    BY DEF TypeOK
  <2>4. PidsAreKnown'
    BY <2>1, PidsKept
  <2> QED BY <2>1, <2>2, <2>3, <2>4 DEF LoopsAreInOrder, FailureIsSeen, ReapedBehindLoop
<1>8. CASE ForkFails
  <2> USE <1>8 DEF ForkFails
  <2>1. Gone' = Gone /\ Gone = {} /\ rank <= N /\ ~result
    BY DEF Gone, LoopsAreInOrder, FailureIsSeen
  <2>2. CountsChildren'
    BY <2>1, CountKept
  <2>3. TypeOK'
    BY DEF TypeOK, KillGroup, Group
  <2>4. PidsAreKnown'
    BY <2>1, PidsKept
  <2> QED BY <2>1, <2>2, <2>3, <2>4 DEF TypeOK, LoopsAreInOrder, FailureIsSeen, ReapedBehindLoop
<1>9. CASE Interrupted
  <2> USE <1>9 DEF Interrupted
  <2>1. Gone' = Gone
    BY DEF Gone
  <2>2. CountsChildren'
    BY <2>1, CountKept
  <2>3. PidsAreKnown'
    BY <2>1, PidsKept
  <2> QED BY <2>1, <2>2, <2>3 DEF TypeOK, LoopsAreInOrder, FailureIsSeen, ReapedBehindLoop
<1>10. CASE Finished
  BY <1>1, <1>10 DEF Finished
<1>11. ASSUME NEW r \in Ranks, Exec(r) PROVE RtsInv'
  BY <1>11, WorkerStep DEF Exec, TypeOK
<1>12. ASSUME NEW r \in Ranks, ExecFails(r) PROVE RtsInv'
  BY <1>12, WorkerStep DEF ExecFails, TypeOK
<1>13. ASSUME NEW r \in Ranks, Enter(r) PROVE RtsInv'
  BY <1>13, WorkerStep DEF Enter, TypeOK
<1>14. ASSUME NEW r \in Ranks, Leave(r) PROVE RtsInv'
  BY <1>14, WorkerStep DEF Leave, TypeOK
<1>15. ASSUME NEW r \in Ranks, Sleep(r) PROVE RtsInv'
  BY <1>15, WorkerStep DEF Sleep, TypeOK
<1>16. ASSUME NEW r \in Ranks, Wake(r) PROVE RtsInv'
  BY <1>16, WorkerStep DEF Wake, TypeOK
<1>17. ASSUME NEW r \in Ranks, Crash(r) PROVE RtsInv'
  BY <1>17, WorkerStep DEF Crash, Alive, TypeOK
<1>18. ASSUME NEW r \in Ranks, Exit(r) PROVE RtsInv'
  BY <1>18, WorkerStep DEF Exit, TypeOK
<1>19. ASSUME NEW r \in Ranks, Terminate(r) PROVE RtsInv'
  BY <1>19, WorkerStep DEF Terminate, TypeOK
<1> QED BY <1>1, <1>2, <1>3, <1>4, <1>5, <1>6, <1>7, <1>8, <1>9, <1>10, <1>11, <1>12,
           <1>13, <1>14, <1>15, <1>16, <1>17, <1>18, <1>19, WaitStep DEF Next, Master

\* The inductive invariant holds in every reachable state.
LEMMA RtsInvHolds == Spec => []RtsInv
  BY RtsInit, RtsStep, PTL DEF Spec

\* Every child that waitpid returns is found in childs, which has exactly those
\* that are not reaped, and childs_left counts them, for any number of them.
THEOREM ChildsAreFound == Spec => []ChildsAreKnown
<1>1. RtsInv => ChildsAreKnown
  <2> SUFFICES ASSUME RtsInv, rank = N + 1
               PROVE  /\ \A r \in Ranks : childs[r] = IF state[r] = "gone" THEN 0 ELSE pid[r]
                      /\ childs_left = Cardinality({r \in Ranks : childs[r] # 0})
    BY DEF RtsInv, ChildsAreKnown, PidsAreKnown
  <2>1. \A r \in Ranks : r < rank
    BY NAssumption DEF Ranks
  <2>2. \A r \in Ranks : childs[r] = IF state[r] = "gone" THEN 0 ELSE pid[r]
    BY <2>1 DEF RtsInv, PidsAreKnown, Gone
  <2>3. {r \in Ranks : childs[r] # 0} = Ranks \ Gone
    BY <2>1, <2>2 DEF RtsInv, PidsAreKnown, Gone
  <2>4. Gone \subseteq Ranks
    BY DEF Gone
  <2>5. Cardinality(Ranks \ Gone) = N - Cardinality(Gone)
    <3>1. Cardinality(Ranks \ Gone) = Cardinality(Ranks) - Cardinality(Ranks \cap Gone)
      BY GoneIsFinite, FS_Difference
    <3>2. Ranks \cap Gone = Gone
      BY <2>4
    <3> QED BY <3>1, <3>2, GoneIsFinite
  <2> QED BY <2>2, <2>3, <2>5 DEF RtsInv, CountsChildren
<1> QED BY <1>1, RtsInvHolds, PTL

\* The domain is freed only after every worker of the process group was reaped,
\* unless a fork failed or waitpid was interrupted, and success is reported only
\* if no fork and no reaped worker failed.
THEOREM FreedAfterGroup == Spec => []GroupIsReaped
<1>1. RtsInv => GroupIsReaped
  <2> SUFFICES ASSUME RtsInv, freed
               PROVE  /\ ForkFailed \/ interrupted \/ \A r \in Ranks : in_group[r] => r \in Gone
                      /\ result => ~ForkFailed /\ \A r \in Gone : ~failed[r]
    BY DEF GroupIsReaped, Gone
  <2>1. pc = "done" /\ (rank = N + 1 \/ rank <= N)
    BY NAssumption DEF RtsInv, ReapedBehindLoop, TypeOK
  <2> QED BY <2>1 DEF RtsInv, ReapedBehindLoop, FailureIsSeen, ForkFailed
<1> QED BY <1>1, RtsInvHolds, PTL
=============================================================================
