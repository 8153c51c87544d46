----------------------------- MODULE PipeProofs -----------------------------
(***************************************************************************)
(* Children and the pipes by which their parent is connected to them.      *)
(* EndsAreProtected of pconnect for any number of pipes, commands, forks   *)
(* and descriptors, in whatever order pipes are shared, cut and hung up    *)
(* and their descriptors given to later pipes.  NoWaitingChildForgotten of *)
(* the preforked service for any number of processes and connections.      *)
(***************************************************************************)
EXTENDS Pconnect, PreforkedService, FiniteSetTheorems, WellFoundedInduction, TLAPS

\* The descriptors, the pipe ends and the children have their types.
TypeOK ==
    /\ table \in [Fds -> Pipes \cup {None}] /\ pipes \subseteq Fds /\ cloexec \subseteq Fds
    /\ handler \in BOOLEAN /\ fd \in [Pipes -> Fds \cup {None}]
    /\ use \in [Pipes -> {"none", "open", "shared", "cut", "over"}]
    /\ wait \in Pipes \cup {None}
    /\ state \in [Children -> {"none", "forked", "running", "zombie", "reaped"}]
    /\ ends \in [Children -> SUBSET (Pipes \X BOOLEAN)]
    /\ input \in [Pipes -> Pipes \cup {None}] /\ shared \subseteq Pipes

\* A descriptor belongs to pipe k just as long as the pipe end is in use, and
\* then it is pipe_con->fd.
TableIsRight ==
    /\ \A k \in Pipes : use[k] \in {"open", "shared"} => fd[k] \in Fds /\ table[fd[k]] = k
    /\ \A g \in Fds : table[g] # None => use[table[g]] \in {"open", "shared"} /\ fd[table[g]] = g

\* The fd_set, FD_CLOEXEC and the history of pshare
SetIsRight == pipes = {g \in Fds : table[g] # None /\ use[table[g]] = "open"}
OpenIsCloexec == pipes \subseteq cloexec
SharedIsRight == \A k \in Pipes : use[k] = "shared" => k \in shared

\* What a command has before and after exec: an end without FD_CLOEXEC is
\* shared, or the one that it closes itself, and so is what it is connected to.
CommandsAreSafe == \A k \in Pipes :
    /\ state[k] = "forked" =>
         /\ input[k] # None => input[k] \in shared \ {k}
         /\ \A e \in ends[k] : ~e[2] => e[1] \in shared \cup {k}
    /\ state[k] = "running" => \A e \in ends[k] : e[1] \in shared \ {k}

ForksAreSafe == handler => \A c \in Children : \A e \in ends[c] : e[1] \in shared \cup {c}

\* The inductive invariant of the module
PipesInv == /\ TypeOK /\ TableIsRight /\ SetIsRight /\ OpenIsCloexec /\ SharedIsRight
            /\ CommandsAreSafe /\ ForksAreSafe
-----------------------------------------------------------------------------
\* A set of descriptor numbers that is not empty has a lowest one.
LEMMA LowestExists == ASSUME NEW S \in SUBSET Nat, S # {} PROVE Lowest(S) \in S
<1>1. PICK x \in S : \A y \in S : ~ (<<y, x>> \in OpToRel(<, Nat))
  BY NatLessThanWellFounded, WFMin
<1>2. \A y \in S : ~(y < x)
  BY <1>1 DEF OpToRel
<1>3. \E g \in S : \A m \in S : g <= m
  BY <1>2
<1> QED BY <1>3 DEF Lowest

\* pipe() gives the parent a descriptor that was free.
LEMMA ParentSideIsFree ==
  ASSUME Cardinality(Free) >= 2, NEW mode PROVE ParentSide(mode) \in Free
<1> DEFINE low == Lowest(Free)
<1>1. Free \subseteq Nat
  BY DisjointAssumption DEF Free
<1>2. Free # {}
  BY FS_EmptySet
<1>3. low \in Free
  BY <1>1, <1>2, LowestExists
<1>4. Free \ {low} # {}
  <2>1. ASSUME Free = {low} PROVE FALSE
    BY <2>1, FS_Singleton
  <2> QED BY <1>3, <2>1
<1>5. Lowest(Free \ {low}) \in Free \ {low}
  BY <1>1, <1>4, LowestExists
<1> QED BY <1>3, <1>5 DEF ParentSide

\* What a child gets from the parent when it is forked: nothing but shared
\* ends without FD_CLOEXEC, and with the handler nothing but shared ends.
LEMMA InheritedIsSafe ==
  ASSUME PipesInv
  PROVE  /\ Inherited \subseteq Pipes \X BOOLEAN
         /\ \A e \in Inherited : ~e[2] \/ handler => e[1] \in shared
<1> SUFFICES ASSUME NEW g \in SurvivesFork
             PROVE  /\ <<table[g], g \in cloexec>> \in Pipes \X BOOLEAN
                    /\ g \notin cloexec \/ handler => table[g] \in shared
  BY DEF Inherited
<1>1. g \in Fds /\ table[g] \in Pipes /\ (handler => g \notin pipes)
  BY DEF SurvivesFork, PipesInv, TypeOK
<1>2. ASSUME g \notin cloexec \/ handler PROVE table[g] \in shared
  <2>1. g \notin pipes
    BY <1>1, <1>2 DEF PipesInv, OpenIsCloexec
  <2>2. use[table[g]] = "shared"
    BY <1>1, <2>1, DisjointAssumption DEF PipesInv, SetIsRight, TableIsRight, Children
  <2> QED BY <1>1, <2>2 DEF PipesInv, SharedIsRight
<1>3. (g \in cloexec) \in BOOLEAN
  OBVIOUS
<1>4. <<table[g], g \in cloexec>> \in Pipes \X BOOLEAN
  BY <1>1, <1>3
<1> QED BY <1>2, <1>4

\* The invariant holds before the first call, whether or not the handler could
\* be registered.
LEMMA PipesInit == Init => PipesInv
<1> SUFFICES ASSUME Init PROVE PipesInv
  OBVIOUS
<1> USE DEF Init
<1>1. TypeOK
  BY DEF TypeOK
<1>2. TableIsRight /\ SetIsRight /\ OpenIsCloexec /\ SharedIsRight
  BY DEF TableIsRight, SetIsRight, OpenIsCloexec, SharedIsRight
<1>3. CommandsAreSafe /\ ForksAreSafe
  BY DEF CommandsAreSafe, ForksAreSafe, Children
<1> QED BY <1>1, <1>2, <1>3 DEF PipesInv

\* pconnect2 protects its new pipe end, and hands on no other.
LEMMA PconnectStep ==
  ASSUME PipesInv, NEW k \in Pipes, NEW j \in Pipes \cup {None}, NEW mode \in {"read", "write"},
         Pconnect2(k, j, mode)
  PROVE  PipesInv'
<1> DEFINE g == ParentSide(mode)
<1>1. g \in Fds /\ table[g] = None
  BY ParentSideIsFree DEF Pconnect2, Free
<1> HIDE DEF g
<1>2. /\ table' = [table EXCEPT ![g] = k]
      /\ pipes' = pipes \cup {g} /\ cloexec' = cloexec \cup {g}
      /\ fd' = [fd EXCEPT ![k] = g] /\ use' = [use EXCEPT ![k] = "open"]
  BY DEF Pconnect2, g
<1>3. /\ input' = [input EXCEPT ![k] = j]
      /\ state' = [state EXCEPT ![k] = "forked"]
      /\ ends' = [ends EXCEPT ![k] = Inherited \cup {<<k, FALSE>>}]
      /\ handler' = handler /\ wait' = wait /\ shared' = shared
  BY DEF Pconnect2
<1>4. /\ use[k] = "none" /\ k # None /\ k \in Children
      /\ j # None => j \in shared \ {k}
  BY DisjointAssumption DEF Pconnect2, Children, PipesInv, SharedIsRight
<1>5. \A h \in Fds : table[h] # k
  BY <1>4 DEF PipesInv, TableIsRight
<1> DEFINE got == Inherited \cup {<<k, FALSE>>}
<1>g. /\ got \subseteq Pipes \X BOOLEAN
      /\ \A e \in got : ~e[2] \/ handler => e[1] \in shared \cup {k}
  <2>1. <<k, FALSE>> \in Pipes \X BOOLEAN /\ <<k, FALSE>>[1] = k
    OBVIOUS
  <2>2. got \subseteq Pipes \X BOOLEAN
    BY <2>1, InheritedIsSafe
  <2>3. ASSUME NEW e \in got, ~e[2] \/ handler PROVE e[1] \in shared \cup {k}
    <3>1. CASE e = <<k, FALSE>>
      BY <2>1, <3>1
    <3>2. CASE e \in Inherited
      BY <2>3, <3>2, InheritedIsSafe
    <3> QED BY <3>1, <3>2
  <2> QED BY <2>2, <2>3
<1> HIDE DEF got
<1>6. TypeOK'
  <2>1. ends' \in [Children -> SUBSET (Pipes \X BOOLEAN)]
    BY <1>3, <1>g DEF PipesInv, TypeOK, got
  <2> QED BY <1>1, <1>2, <1>3, <2>1 DEF PipesInv, TypeOK
<1>7. TableIsRight'
  <2>1. ASSUME NEW l \in Pipes, use'[l] \in {"open", "shared"} PROVE fd'[l] \in Fds /\ table'[fd'[l]] = l
    <3>1. CASE l = k
      BY <1>1, <1>2, <3>1 DEF PipesInv, TypeOK
    <3>2. CASE l # k
      BY <1>1, <1>2, <2>1, <3>2, DisjointAssumption DEF PipesInv, TypeOK, TableIsRight, Children
    <3> QED BY <3>1, <3>2
  <2>2. ASSUME NEW h \in Fds, table'[h] # None
        PROVE  use'[table'[h]] \in {"open", "shared"} /\ fd'[table'[h]] = h
    <3>1. CASE h = g
      BY <1>1, <1>2, <3>1 DEF PipesInv, TypeOK
    <3>2. CASE h # g
      BY <1>1, <1>2, <1>5, <2>2, <3>2 DEF PipesInv, TypeOK, TableIsRight
    <3> QED BY <3>1, <3>2
  <2> QED BY <2>1, <2>2 DEF TableIsRight
<1>8. SetIsRight'
  BY <1>1, <1>2, <1>4, <1>5 DEF PipesInv, TypeOK, SetIsRight
<1>9. OpenIsCloexec' /\ SharedIsRight'
  BY <1>2, <1>3, <1>4 DEF PipesInv, TypeOK, OpenIsCloexec, SharedIsRight
<1>10. CommandsAreSafe'
  <2>1. \A e \in ends'[k] : ~e[2] => e[1] \in shared \cup {k}
    BY <1>3, <1>4, <1>g DEF PipesInv, TypeOK, got
  <2>2. \A l \in Pipes \ {k} : state'[l] = state[l] /\ ends'[l] = ends[l] /\ input'[l] = input[l]
    BY <1>3 DEF PipesInv, TypeOK, Children
  <2>3. state'[k] = "forked" /\ input'[k] = j
    BY <1>3, <1>4 DEF PipesInv, TypeOK
  <2>4. ASSUME NEW l \in Pipes
        PROVE  /\ state'[l] = "forked" =>
                    /\ input'[l] # None => input'[l] \in shared \ {l}
                    /\ \A e \in ends'[l] : ~e[2] => e[1] \in shared \cup {l}
               /\ state'[l] = "running" => \A e \in ends'[l] : e[1] \in shared \ {l}
    <3>1. CASE l = k
      BY <1>4, <2>1, <2>3, <3>1
    <3>2. CASE l # k
      BY <2>2, <3>2 DEF PipesInv, CommandsAreSafe
    <3> QED BY <3>1, <3>2
  <2> QED BY <1>3, <2>4 DEF CommandsAreSafe
<1>11. ForksAreSafe'
  <2>1. handler => \A e \in ends'[k] : e[1] \in shared \cup {k}
    BY <1>3, <1>4, <1>g DEF PipesInv, TypeOK, got
  <2>2. \A c \in Children \ {k} : ends'[c] = ends[c]
    BY <1>3 DEF PipesInv, TypeOK
  <2> QED BY <1>3, <2>1, <2>2 DEF PipesInv, ForksAreSafe
<1> QED BY <1>6, <1>7, <1>8, <1>9, <1>10, <1>11 DEF PipesInv

\* The child of pconnect2 closes its own end, keeps what it was told to be
\* connected to, and loses the rest by FD_CLOEXEC.
LEMMA ExecStep == ASSUME PipesInv, NEW k \in Pipes, Exec(k) PROVE PipesInv'
<1> DEFINE rest == ends[k] \ {<<k, FALSE>>}
           others == IF input[k] = None THEN rest
                     ELSE (rest \ {<<input[k], b>> : b \in BOOLEAN}) \cup {<<input[k], FALSE>>}
           left == {e \in others : ~e[2]}
<1>1. k \in Children /\ ends[k] \subseteq Pipes \X BOOLEAN /\ input[k] \in Pipes \cup {None}
  BY DEF Children, PipesInv, TypeOK
<1>2. state[k] = "forked" /\ state' = [state EXCEPT ![k] = "running"] /\ ends' = [ends EXCEPT ![k] = left]
  BY DEF Exec
<1>3. UNCHANGED <<table, pipes, cloexec, handler, fd, use, wait, input, shared>>
  BY DEF Exec
<1>4. left \subseteq Pipes \X BOOLEAN
  <2>1. CASE input[k] = None
    BY <1>1, <2>1
  <2>2. CASE input[k] # None
    <3>1. <<input[k], FALSE>> \in Pipes \X BOOLEAN
      BY <1>1, <2>2
    <3> QED BY <1>1, <2>2, <3>1
  <2> QED BY <2>1, <2>2
<1>5. ASSUME NEW e \in left PROVE e[1] \in shared \ {k}
  <2>1. CASE input[k] # None /\ e = <<input[k], FALSE>>
    BY <1>2, <2>1 DEF PipesInv, CommandsAreSafe
  <2>2. CASE e \in rest /\ ~e[2]
    <3>1. e[1] \in shared \cup {k}
      BY <1>2, <2>2 DEF PipesInv, CommandsAreSafe
    <3>2. e = <<e[1], FALSE>>
      <4>1. e \in Pipes \X BOOLEAN
        BY <1>1, <2>2
      <4>2. e = <<e[1], e[2]>> /\ e[2] \in BOOLEAN
        BY <4>1
      <4> QED BY <2>2, <4>2
    <3>3. e[1] # k
      BY <2>2, <3>2
    <3> QED BY <3>1, <3>3
  <2> QED BY <1>1, <2>1, <2>2
<1> HIDE DEF left
<1>6. TypeOK'
  BY <1>1, <1>2, <1>3, <1>4 DEF PipesInv, TypeOK
<1>7. TableIsRight' /\ SetIsRight' /\ OpenIsCloexec' /\ SharedIsRight'
  BY <1>3 DEF PipesInv, TableIsRight, SetIsRight, OpenIsCloexec, SharedIsRight
<1>8. state'[k] = "running" /\ ends'[k] = left
  BY <1>1, <1>2 DEF PipesInv, TypeOK
<1>9. \A c \in Children \ {k} : state'[c] = state[c] /\ ends'[c] = ends[c]
  BY <1>2 DEF PipesInv, TypeOK
<1>10. CommandsAreSafe'
  BY <1>3, <1>5, <1>8, <1>9 DEF PipesInv, CommandsAreSafe, Children
<1>11. ForksAreSafe'
  BY <1>3, <1>5, <1>8, <1>9 DEF PipesInv, ForksAreSafe
<1> QED BY <1>6, <1>7, <1>10, <1>11 DEF PipesInv

\* Any other fork hands on what it must not, at most if the handler is missing.
LEMMA ForkStep == ASSUME PipesInv, NEW c \in Forks, Fork(c) PROVE PipesInv'
<1>1. /\ state' = [state EXCEPT ![c] = "running"] /\ ends' = [ends EXCEPT ![c] = Inherited]
      /\ UNCHANGED <<table, pipes, cloexec, handler, fd, use, wait, input, shared>>
  BY DEF Fork
<1>2. c \in Children /\ c \notin Pipes
  BY DisjointAssumption DEF Children
<1>3. TypeOK'
  BY <1>1, <1>2, InheritedIsSafe DEF PipesInv, TypeOK
<1>4. TableIsRight' /\ SetIsRight' /\ OpenIsCloexec' /\ SharedIsRight'
  BY <1>1 DEF PipesInv, TableIsRight, SetIsRight, OpenIsCloexec, SharedIsRight
<1>5. /\ \A d \in Children \ {c} : state'[d] = state[d] /\ ends'[d] = ends[d]
      /\ ends'[c] = Inherited
  BY <1>1, <1>2 DEF PipesInv, TypeOK
<1>6. CommandsAreSafe'
  BY <1>1, <1>2, <1>5 DEF PipesInv, CommandsAreSafe, Children
<1>7. ForksAreSafe'
  BY <1>1, <1>2, <1>5, InheritedIsSafe DEF PipesInv, ForksAreSafe
<1> QED BY <1>3, <1>4, <1>6, <1>7 DEF PipesInv

\* A child that ends holds nothing any more.
LEMMA ExitStep == ASSUME PipesInv, NEW c \in Children, Exit(c) PROVE PipesInv'
<1>1. /\ state' = [state EXCEPT ![c] = "zombie"] /\ ends' = [ends EXCEPT ![c] = {}]
      /\ UNCHANGED <<table, pipes, cloexec, handler, fd, use, wait, input, shared>>
  BY DEF Exit
<1>2. TypeOK'
  BY <1>1 DEF PipesInv, TypeOK
<1>3. TableIsRight' /\ SetIsRight' /\ OpenIsCloexec' /\ SharedIsRight'
  BY <1>1 DEF PipesInv, TableIsRight, SetIsRight, OpenIsCloexec, SharedIsRight
<1>4. /\ \A d \in Children \ {c} : state'[d] = state[d] /\ ends'[d] = ends[d]
      /\ state'[c] = "zombie" /\ ends'[c] = {}
  BY <1>1 DEF PipesInv, TypeOK
<1>5. CommandsAreSafe'
  BY <1>1, <1>4 DEF PipesInv, CommandsAreSafe, Children
<1>6. ForksAreSafe'
  BY <1>1, <1>4 DEF PipesInv, ForksAreSafe
<1> QED BY <1>2, <1>3, <1>5, <1>6 DEF PipesInv

\* pshare, phangup, pcut and pwait, which change nothing of the children: what
\* a descriptor is, the set and FD_CLOEXEC change together.
LEMMA ParentStep ==
  ASSUME PipesInv, NEW k \in Pipes, Pshare(k) \/ Phangup(k) \/ Pcut(k) \/ Pwait(k)
  PROVE  PipesInv'
<1> USE DisjointAssumption DEF Children
<1>0. UNCHANGED <<handler, fd, state, ends, input>> /\ shared \subseteq shared'
  BY DEF Pshare, Phangup, Pcut, Pwait
<1>1. k # None /\ \A g \in Fds : table[g] # None => table[g] \in Pipes
  BY DEF PipesInv, TypeOK
<1>2. CASE Pshare(k)
  <2> USE <1>2 DEF Pshare, RemoveFd
  <2>1. fd[k] \in Fds /\ table[fd[k]] = k
    BY DEF PipesInv, TableIsRight
  <2>2. TypeOK' /\ TableIsRight'
    BY DEF PipesInv, TypeOK, TableIsRight
  <2>3. SetIsRight'
    BY <1>1, <2>1 DEF PipesInv, TypeOK, TableIsRight, SetIsRight
  <2>4. OpenIsCloexec' /\ SharedIsRight'
    BY DEF PipesInv, TypeOK, OpenIsCloexec, SharedIsRight
  <2>5. CommandsAreSafe' /\ ForksAreSafe'
    BY <1>0 DEF PipesInv, CommandsAreSafe, ForksAreSafe
  <2> QED BY <2>2, <2>3, <2>4, <2>5 DEF PipesInv
<1>3. CASE Phangup(k)
  <2> USE <1>3 DEF Phangup, HangupSet, RemoveFd
  <2>1. fd[k] \in Fds /\ table[fd[k]] = k
    BY DEF PipesInv, TableIsRight
  <2>2. TypeOK'
    BY <2>1 DEF PipesInv, TypeOK
  <2>3. TableIsRight'
    BY <1>1, <2>1 DEF PipesInv, TypeOK, TableIsRight
  <2>4. SetIsRight'
    BY <1>1, <2>1 DEF PipesInv, TypeOK, TableIsRight, SetIsRight
  <2>5. OpenIsCloexec' /\ SharedIsRight'
    BY DEF PipesInv, TypeOK, OpenIsCloexec, SharedIsRight
  <2>6. CommandsAreSafe' /\ ForksAreSafe'
    BY <1>0 DEF PipesInv, CommandsAreSafe, ForksAreSafe
  <2> QED BY <2>2, <2>3, <2>4, <2>5, <2>6 DEF PipesInv
<1>4. CASE Pcut(k)
  <2> USE <1>4 DEF Pcut
  <2>1. fd[k] \in Fds /\ table[fd[k]] = k
    BY DEF PipesInv, TableIsRight
  <2>2. TypeOK'
    BY <2>1 DEF PipesInv, TypeOK
  <2>3. TableIsRight'
    BY <1>1, <2>1 DEF PipesInv, TypeOK, TableIsRight
  <2>4. SetIsRight'
    BY <1>1, <2>1 DEF PipesInv, TypeOK, TableIsRight, SetIsRight
  <2>5. OpenIsCloexec' /\ SharedIsRight'
    BY DEF PipesInv, TypeOK, OpenIsCloexec, SharedIsRight
  <2>6. CommandsAreSafe' /\ ForksAreSafe'
    BY <1>0 DEF PipesInv, CommandsAreSafe, ForksAreSafe
  <2> QED BY <2>2, <2>3, <2>4, <2>5, <2>6 DEF PipesInv
<1>5. CASE Pwait(k)
  <2> USE <1>5 DEF Pwait
  <2>1. TypeOK'
    BY DEF PipesInv, TypeOK
  <2>2. \A l \in Pipes : use[l] \in {"open", "shared"} \/ use'[l] \in {"open", "shared"} => use'[l] = use[l]
    BY DEF PipesInv, TypeOK
  <2>3. TableIsRight' /\ SetIsRight'
    BY <1>1, <2>2 DEF PipesInv, TableIsRight, SetIsRight
  <2>4. OpenIsCloexec' /\ SharedIsRight'
    BY <2>2 DEF PipesInv, OpenIsCloexec, SharedIsRight
  <2>5. CommandsAreSafe' /\ ForksAreSafe'
    BY <1>0 DEF PipesInv, CommandsAreSafe, ForksAreSafe
  <2> QED BY <2>1, <2>3, <2>4, <2>5 DEF PipesInv
<1> QED BY <1>2, <1>3, <1>4, <1>5

\* Every call of the module and every step of a child keeps the invariant.
LEMMA PipesStep == PipesInv /\ [Next]_vars => PipesInv'
<1> SUFFICES ASSUME PipesInv, [Next]_vars PROVE PipesInv'
  OBVIOUS
<1>1. CASE UNCHANGED vars
  BY <1>1 DEF vars, PipesInv, TypeOK, TableIsRight, SetIsRight, OpenIsCloexec, SharedIsRight,
     CommandsAreSafe, ForksAreSafe
<1>2. ASSUME NEW k \in Pipes, Finish(k) PROVE PipesInv'
  BY <1>2, ExitStep DEF Finish, Children
<1>3. CASE Waited
  <2>1. wait \in Children
    BY <1>3 DEF Waited, PipesInv, TypeOK, Children
  <2>2. TypeOK'
    BY <1>3 DEF Waited, PipesInv, TypeOK
  <2>3. \A c \in Children : state'[c] \in {"forked", "running"} => state'[c] = state[c]
    BY <1>3, <2>1 DEF Waited, PipesInv, TypeOK
  <2>4. CommandsAreSafe'
    BY <1>3, <2>3 DEF Waited, PipesInv, CommandsAreSafe, Children
  <2> QED BY <1>3, <2>2, <2>4 DEF Waited, PipesInv, TableIsRight, SetIsRight, OpenIsCloexec,
             SharedIsRight, ForksAreSafe
<1>4. CASE Interrupted
  BY <1>4 DEF Interrupted, PipesInv, TypeOK, TableIsRight, SetIsRight, OpenIsCloexec, SharedIsRight,
     CommandsAreSafe, ForksAreSafe
<1> QED BY <1>1, <1>2, <1>3, <1>4, PconnectStep, ExecStep, ForkStep, ExitStep, ParentStep DEF Next

\* The set names exactly the pipe ends that are protected, no command holds an
\* end of the parent that was not shared, and, if the handler is registered,
\* no other process does.
THEOREM ProtectionHolds == Spec => []EndsAreProtected
<1>1. PipesInv => EndsAreProtected
  BY DEF PipesInv, SetIsRight, CommandsAreSafe, ForksAreSafe, EndsAreProtected
<1> QED BY <1>1, PipesInit, PipesStep, PTL DEF Spec
-----------------------------------------------------------------------------
(* The preforked service (PreforkedService), whose parent learns of its    *)
(* children by their pipes.  In the first round the slots from i on are    *)
(* empty.  In a later one the slots from i on that poll has reported have  *)
(* no child that waits for a connection, as nobody but the parent puts one *)
(* there.                                                                  *)

ServiceTypes ==
    /\ pc \in {"spawn", "check", "call_poll", "poll", "scan", "kill", "returned"}
    /\ i \in Slots /\ revents \subseteq Slots
    /\ child \in [Slots -> {"none", "forked", "accept", "session", "exited"}]

ServiceInv ==
    /\ ServiceTypes
    /\ pc = "spawn" => \A s \in Slots : s >= i => child[s] = "none"
    /\ pc = "scan" => \A s \in revents : s >= i => PipeClosed(s)

LEMMA ServiceStarts == ServiceInit => ServiceInv
BY ServiceAssumption DEF ServiceInit, ServiceInv, ServiceTypes, Slots

\* spawn_preforked_process is called for an empty slot, or for one whose child
\* does not wait any more.
LEMMA SlotIsFree == ASSUME ServiceInv, MustSpawn PROVE i \in Slots /\ child[i] \in {"none", "session", "exited"}
<1>1. i \in Slots /\ i >= i
  BY ServiceAssumption DEF ServiceInv, ServiceTypes, Slots
<1>2. CASE pc = "spawn"
  BY <1>1, <1>2 DEF ServiceInv
<1>3. CASE pc = "scan" /\ i \in revents
  BY <1>1, <1>3 DEF ServiceInv, PipeClosed
<1> QED BY <1>1, <1>2, <1>3 DEF MustSpawn

\* The loops go on to the next slot, or end.
LEMMA AdvanceIs ==
  ASSUME i \in Slots, NEW from, NEW to, Advance(from, to)
  PROVE  i' \in Slots /\ ((pc' = from /\ i' = i + 1) \/ pc' = to)
BY ServiceAssumption DEF Advance, Slots

LEMMA ServiceStep == ServiceInv /\ [ServiceNext]_pvars => ServiceInv'
<1> SUFFICES ASSUME ServiceInv, [ServiceNext]_pvars PROVE ServiceInv'
  OBVIOUS
<1> DEFINE States == {"none", "forked", "accept", "session", "exited"}
<1>0. /\ pc \in {"spawn", "check", "call_poll", "poll", "scan", "kill", "returned"}
      /\ i \in Slots /\ revents \subseteq Slots /\ child \in [Slots -> States]
      /\ \A s \in Slots : s \in Nat
  BY ServiceAssumption DEF ServiceInv, ServiceTypes, Slots
<1>1. CASE Spawn
  <2>1. MustSpawn /\ child' = [child EXCEPT ![i] = "forked"] /\ revents' = revents
        /\ i' \in Slots /\ ((pc' = pc /\ i' = i + 1) \/ pc' = "check")
    BY <1>0, <1>1, AdvanceIs DEF Spawn
  <2>2. pc \in {"spawn", "scan"}
    BY <2>1 DEF MustSpawn
  <2>3. ServiceTypes'
    BY <1>0, <2>1, <2>2 DEF ServiceTypes
  <2>4. ASSUME pc' = pc, i' = i + 1, NEW s \in Slots, s >= i' PROVE s >= i /\ child'[s] = child[s]
    <3>1. s \in Nat /\ i \in Nat
      BY <1>0
    <3>2. s # i /\ s >= i
      BY <2>4, <3>1
    <3> QED BY <1>0, <2>1, <3>2
  <2>5. pc' = "spawn" => \A s \in Slots : s >= i' => child'[s] = "none"
    BY <2>1, <2>4 DEF ServiceInv
  <2>6. pc' = "scan" => \A s \in revents' : s >= i' => PipeClosed(s)'
    BY <1>0, <2>1, <2>4 DEF ServiceInv, PipeClosed
  <2> QED BY <2>3, <2>5, <2>6 DEF ServiceInv
<1>2. CASE Skip
  <2>1. pc = "scan" /\ child' = child /\ revents' = revents
        /\ i' \in Slots /\ ((pc' = "scan" /\ i' = i + 1) \/ pc' = "check")
    BY <1>0, <1>2, AdvanceIs DEF Skip
  <2>2. ASSUME i' = i + 1, NEW s \in Slots, s >= i' PROVE s >= i
    <3>1. s \in Nat /\ i \in Nat
      BY <1>0
    <3> QED BY <2>2, <3>1
  <2>3. ServiceTypes'
    BY <1>0, <2>1 DEF ServiceTypes
  <2> QED BY <1>0, <2>1, <2>2, <2>3 DEF ServiceInv, PipeClosed
<1>3. CASE Kill
  <2>1. pc = "kill" /\ revents' = revents /\ i' \in Slots /\ pc' \in {"kill", "returned"}
    BY <1>0, <1>3, AdvanceIs DEF Kill
  <2>2. child' \in [Slots -> States]
    BY <1>0, <1>3 DEF Kill
  <2> QED BY <1>0, <2>1, <2>2 DEF ServiceInv, ServiceTypes
<1>4. CASE Poll
  <2>1. i' = i /\ child' = child /\ pc' = "scan" /\ revents' = {s \in Polled : PipeClosed(s)}
    BY <1>4 DEF Poll
  <2>2. \A s \in revents' : PipeClosed(s)' /\ s \in Slots
    BY <2>1 DEF PipeClosed, Polled, Slots
  <2> QED BY <1>0, <2>1, <2>2 DEF ServiceInv, ServiceTypes
<1>5. CASE Check \/ CallPoll \/ SpawnFails \/ Signal
  <2>1. i' = i /\ child' = child /\ revents' = revents
        /\ pc' \in {pc, "kill", "call_poll", "poll", "returned"}
    BY <1>5 DEF Check, CallPoll, SpawnFails, Signal
  <2> QED BY <1>0, <2>1 DEF ServiceInv, ServiceTypes, PipeClosed
<1>6. ASSUME NEW s \in Slots, Child(s) \/ AcceptFails(s) \/ SessionEnds(s) PROVE ServiceInv'
  <2>1. PICK from \in {"forked", "accept", "session"}, to \in {"accept", "session", "exited"} :
          Become(s, from, to) /\ (PipeClosed(s) => to = "exited")
    BY <1>6 DEF Child, SessionEnds, EnterAccept, Accept, AcceptFails, PipeClosed, Become
  <2>2. /\ child[s] = from /\ child' = [child EXCEPT ![s] = to]
        /\ pc' = pc /\ i' = i /\ revents' = revents
    BY <2>1 DEF Become
  <2>3. \A r \in Slots : (child[r] = "none" => child'[r] = "none") /\ (PipeClosed(r) => PipeClosed(r)')
    BY <1>0, <2>1, <2>2 DEF PipeClosed
  <2>4. ServiceTypes'
    BY <1>0, <2>2 DEF ServiceTypes
  <2> QED BY <1>0, <2>2, <2>3, <2>4 DEF ServiceInv
<1>7. CASE Connect \/ UNCHANGED pvars
  BY <1>7 DEF Connect, pvars, ServiceInv, ServiceTypes, PipeClosed
<1> QED BY <1>1, <1>2, <1>3, <1>4, <1>5, <1>6, <1>7 DEF ServiceNext, Parent

\* run_preforked_service: for any number of processes and connections, whenever
\* sessions end, forks fail and a SIGTERM comes, a child that waits in accept
\* keeps its slot.
THEOREM WaitingChildrenAreKept == ServiceSpec => NoWaitingChildForgotten
<1> DEFINE Kept == \A s \in Slots : child'[s] = "forked" => ~(child[s] = "accept")
<1>1. ASSUME ServiceInv, [ServiceNext]_pvars PROVE [Kept]_pvars
  <2>0. child \in [Slots -> {"none", "forked", "accept", "session", "exited"}]
    BY <1>1 DEF ServiceInv, ServiceTypes
  <2>1. CASE Spawn
    <3>1. i \in Slots /\ child[i] # "accept"
      BY <1>1, <2>1, SlotIsFree DEF Spawn
    <3>2. \A s \in Slots : s # i => child'[s] = child[s]
      BY <2>0, <2>1 DEF Spawn
    <3> QED BY <3>1, <3>2
  <2>2. CASE Kill
    <3>1. \A s \in Slots : child'[s] = "forked" => child[s] = "forked"
      BY <2>0, <2>2 DEF Kill
    <3> QED BY <3>1
  <2>3. CASE Skip \/ Check \/ CallPoll \/ Poll \/ SpawnFails \/ Signal \/ Connect
    BY <2>3 DEF Skip, Check, CallPoll, Poll, SpawnFails, Signal, Connect
  <2>4. ASSUME NEW s \in Slots, Child(s) \/ AcceptFails(s) \/ SessionEnds(s) PROVE Kept
    <3>1. \A r \in Slots : child'[r] = "forked" => child[r] = "forked"
      BY <2>0, <2>4 DEF Child, SessionEnds, EnterAccept, Accept, AcceptFails, Become
    <3> QED BY <3>1
  <2> QED BY <1>1, <2>1, <2>2, <2>3, <2>4 DEF ServiceNext, Parent
<1>2. ServiceSpec => []ServiceInv
  BY ServiceStarts, ServiceStep, PTL DEF ServiceSpec
<1> QED BY <1>1, <1>2, PTL DEF ServiceSpec, NoWaitingChildForgotten
=============================================================================
