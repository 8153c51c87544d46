------------------------------ MODULE Pconnect ------------------------------
(***************************************************************************)
(* pconnect.c: pipes between a process and the commands it starts.  The    *)
(* question is who holds which end: a command that reads from a pipe sees  *)
(* its end, and one that writes is stopped, only when nobody else holds    *)
(* the end of the parent, and phangup waits for that.  Pipe k goes to      *)
(* command k.  The parent has one thread; it may also fork processes that  *)
(* never call exec.  Standard input and output are open.                   *)
(***************************************************************************)
EXTENDS Naturals, FiniteSets

CONSTANTS
    Pipes,      \* the pipes that may ever be created, in this order, and their commands
    Forks,      \* the processes that the parent may fork otherwise
    Fds,        \* the numbers of descriptors above standard error
    None

Children == Pipes \cup Forks

ASSUME DisjointAssumption ==
    Pipes \cap Forks = {} /\ None \notin Children \cup Fds /\ Pipes \cup Fds \subseteq Nat

VARIABLES
    table,      \* the parent's descriptors: the pipe whose parent's end it is
    pipes,      \* the fd_set of the module
    cloexec,    \* the descriptors with FD_CLOEXEC
    handler,    \* is child_after_fork_handler registered?
    fd,         \* pipe_con->fd
    use,        \* of a pipe_end: none, open, shared, cut, over
    wait,       \* the pipe whose command the parent waits for in waitpid
    state,      \* of a child: none, forked, running, zombie, reaped
    ends,       \* the parent's ends a child holds, each with its FD_CLOEXEC
    input,      \* the pipe that pconnect2 was told to connect to the command
    shared      \* history: the pipes that pshare was called for

vars == <<table, pipes, cloexec, handler, fd, use, wait, state, ends, input, shared>>

Init ==
    /\ table = [g \in Fds |-> None] /\ pipes = {} /\ cloexec = {} /\ handler \in BOOLEAN
    /\ fd = [k \in Pipes |-> None] /\ use = [k \in Pipes |-> "none"] /\ wait = None
    /\ state = [c \in Children |-> "none"] /\ ends = [c \in Children |-> {}]
    /\ input = [k \in Pipes |-> None] /\ shared = {}

Free == {g \in Fds : table[g] = None}
Lowest(S) == CHOOSE g \in S : \A m \in S : g <= m
-----------------------------------------------------------------------------
\* Wrong on purpose: the handler does nothing.
SurvivesForkAll == {g \in Fds : table[g] # None}

\* child_after_fork_handler: the descriptors that a child has after fork.
SurvivesFork == {g \in Fds : table[g] # None /\ (handler => g \notin pipes)}

Inherited == {<<table[g], g \in cloexec>> : g \in SurvivesFork}

\* remove_fd in a set of descriptors
RemoveFd(g) == pipes \ {g}

\* Where pipe() puts the parent's end: the lower one of the two lowest free
\* descriptors is the one for reading.
ParentSide(mode) ==
    LET low == Lowest(Free) IN IF mode = "read" THEN low ELSE Lowest(Free \ {low})

\* pconnect2, and pconnect if `j' is None; it may fail in pipe or fork, and then
\* changes nothing.  pthread_atfork fails, if it does, with a positive number:
\* nobody notices, see `handler'.
Pconnect2(k, j, mode) ==
    /\ wait = None /\ use[k] = "none" /\ (\A i \in Pipes : i < k => use[i] # "none")
    /\ Cardinality(Free) >= 2
    /\ j # None => use[j] = "shared"
    /\ LET g == ParentSide(mode)
       IN /\ table' = [table EXCEPT ![g] = k]
          /\ pipes' = pipes \cup {g} /\ cloexec' = cloexec \cup {g}
          /\ fd' = [fd EXCEPT ![k] = g] /\ use' = [use EXCEPT ![k] = "open"]
    /\ input' = [input EXCEPT ![k] = j]
    /\ state' = [state EXCEPT ![k] = "forked"]
    /\ ends' = [ends EXCEPT ![k] = Inherited \cup {<<k, FALSE>>}]
    /\ UNCHANGED <<handler, wait, shared>>

\* pconnect2 in the child: its own end of the parent is closed; dup2 makes a
\* copy of fd without FD_CLOEXEC and fd itself is closed; execvp
Exec(k) ==
    LET rest == ends[k] \ {<<k, FALSE>>}
        others == IF input[k] = None THEN rest
                  ELSE (rest \ {<<input[k], b>> : b \in BOOLEAN}) \cup {<<input[k], FALSE>>}
    IN /\ state[k] = "forked" /\ state' = [state EXCEPT ![k] = "running"]
       /\ ends' = [ends EXCEPT ![k] = {e \in others : ~e[2]}]
       /\ UNCHANGED <<table, pipes, cloexec, handler, fd, use, wait, input, shared>>

\* Any other fork of the parent
Fork(c) ==
    /\ wait = None /\ state[c] = "none"
    /\ state' = [state EXCEPT ![c] = "running"] /\ ends' = [ends EXCEPT ![c] = Inherited]
    /\ UNCHANGED <<table, pipes, cloexec, handler, fd, use, wait, input, shared>>
-----------------------------------------------------------------------------
\* share_fd
Pshare(k) ==
    /\ wait = None /\ use[k] = "open" /\ fd[k] \in pipes
    /\ pipes' = RemoveFd(fd[k]) /\ cloexec' = cloexec \ {fd[k]}
    /\ use' = [use EXCEPT ![k] = "shared"] /\ shared' = shared \cup {k}
    /\ UNCHANGED <<table, handler, fd, wait, state, ends, input>>

\* Wrong on purpose: the descriptor stays in the set.
HangupSetKept(k) == pipes

\* phangup: remove_fd
HangupSet(k) == RemoveFd(fd[k])

\* phangup up to waitpid
Phangup(k) ==
    /\ wait = None /\ use[k] \in {"open", "shared"}
    /\ pipes' = HangupSet(k)
    /\ table' = [table EXCEPT ![fd[k]] = None] /\ cloexec' = cloexec \ {fd[k]}
    /\ wait' = k /\ use' = [use EXCEPT ![k] = "over"]
    /\ UNCHANGED <<handler, fd, state, ends, input, shared>>

\* pcut; it refuses a pipe end that is not shared
Pcut(k) ==
    /\ wait = None /\ use[k] = "shared" /\ fd[k] \notin pipes
    /\ table' = [table EXCEPT ![fd[k]] = None]
    /\ use' = [use EXCEPT ![k] = "cut"]
    /\ UNCHANGED <<pipes, cloexec, handler, fd, wait, state, ends, input, shared>>

\* pwait up to waitpid; it refuses a pipe end that looks as if it were not
\* shared, which a cut one does when its descriptor was given to a later pipe
Pwait(k) ==
    /\ wait = None /\ use[k] \in {"shared", "cut"} /\ fd[k] \notin pipes
    /\ wait' = k
    /\ use' = [use EXCEPT ![k] = IF @ = "cut" THEN "over" ELSE @]
    /\ UNCHANGED <<table, pipes, cloexec, handler, fd, state, ends, input, shared>>

\* waitpid returns, or is interrupted or fails as there is no such child
Waited ==
    /\ wait # None /\ state[wait] \in {"zombie", "reaped"}
    /\ state' = [state EXCEPT ![wait] = "reaped"] /\ wait' = None
    /\ UNCHANGED <<table, pipes, cloexec, handler, fd, use, ends, input, shared>>

Interrupted ==
    /\ wait # None /\ wait' = None
    /\ UNCHANGED <<table, pipes, cloexec, handler, fd, use, state, ends, input, shared>>
-----------------------------------------------------------------------------
(* The children                                                            *)

\* Does anybody but the parent's command k itself keep the pipe open?
HeldElsewhere(k) ==
    \/ \E g \in Fds : table[g] = k
    \/ \E c \in Children : \E b \in BOOLEAN : <<k, b>> \in ends[c]

Exit(c) ==
    /\ state[c] \in {"forked", "running"}
    /\ state' = [state EXCEPT ![c] = "zombie"] /\ ends' = [ends EXCEPT ![c] = {}]
    /\ UNCHANGED <<table, pipes, cloexec, handler, fd, use, wait, input, shared>>

\* A command has read the end of its input, or is hit by SIGPIPE
Finish(k) == state[k] = "running" /\ ~HeldElsewhere(k) /\ Exit(k)

Next ==
    \/ \E k \in Pipes, j \in Pipes \cup {None}, mode \in {"read", "write"} : Pconnect2(k, j, mode)
    \/ \E k \in Pipes : \/ Exec(k) \/ Finish(k)
                        \/ Pshare(k) \/ Phangup(k) \/ Pcut(k) \/ Pwait(k)
    \/ \E c \in Forks : Fork(c)
    \/ \E c \in Children : Exit(c)
    \/ Waited \/ Interrupted

Spec == Init /\ [][Next]_vars

\* A child goes on until it has called exec, and a command ends when its pipe
\* does.  No other child needs to end.
FairSpec ==
    /\ Spec
    /\ \A k \in Pipes : WF_vars(Exec(k)) /\ WF_vars(Finish(k))
    /\ WF_vars(Waited)
-----------------------------------------------------------------------------
\* "All pipe ends ... are protected against being inherited through fork or
\* exec.  This protection can be lifted using pshare": a command holds no
\* parent's end but those that were shared, not even its own, and this by
\* FD_CLOEXEC alone if the handler is missing; nor does any process that was
\* forked, thanks to the handler.  The set names what it must close in the
\* child, and never a descriptor that is something else by now.
EndsAreProtected ==
    /\ pipes = {g \in Fds : table[g] # None /\ use[table[g]] = "open"}
    /\ \A k \in Pipes : state[k] = "running" =>
         \A e \in ends[k] : e[1] \in shared \ {k}
    /\ handler => \A c \in Children : \A e \in ends[c] : e[1] \in shared \cup {c}

\* "phangup waits for the forked-off process to terminate": it does not wait
\* forever for a command that waits for the end of the very pipe it was given,
\* whatever other commands and processes were started in the meantime.
HangupReturns == \A k \in Pipes :
    wait = k /\ k \notin shared /\ handler ~> wait # k
=============================================================================
