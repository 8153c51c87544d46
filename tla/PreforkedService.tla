-------------------------- MODULE PreforkedService --------------------------
(***************************************************************************)
(* run_preforked_service of preforked_service.c: a parent that keeps a     *)
(* fixed number of children waiting in accept.  A child tells that it has  *)
(* accepted a connection by closing its end of a pipe; the parent polls    *)
(* the other ends.  SIGTERM sets a flag in whoever gets it, and interrupts *)
(* a poll or an accept that is blocked at that moment (there is no         *)
(* SA_RESTART).                                                            *)
(***************************************************************************)
EXTENDS Naturals

CONSTANTS
    N,               \* number_of_processes
    MaxConnections,  \* bound on the number of connections clients make
    MaxFailures,     \* bound on the number of accepts that fail without a SIGTERM
    MaySignal,       \* whether the parent may get a SIGTERM
    ForkMayFail      \* whether pipe or fork may fail

ASSUME ServiceAssumption ==
    /\ N \in Nat \ {0} /\ MaxConnections \in Nat /\ MaxFailures \in Nat
    /\ MaySignal \in BOOLEAN /\ ForkMayFail \in BOOLEAN

Slots == 1 .. N

VARIABLES
    pc,          \* where the parent is
    i,           \* its loop variable
    terminate,   \* its flag
    revents,     \* the slots whose pipe the last poll found closed
    child,       \* the state of the child whose pid is in child_pid[s]
    connected,   \* how many connections were made
    accepted,    \* how many of them were accepted
    failures     \* how many accepts failed without a SIGTERM

pvars == <<pc, i, terminate, revents, child, connected, accepted, failures>>
clients == <<connected, accepted, failures>>

ServiceInit ==
    /\ pc = "spawn" /\ i = 1 /\ terminate = FALSE /\ revents = {}
    /\ child = [s \in Slots |-> "none"]
    /\ connected = 0 /\ accepted = 0 /\ failures = 0

\* Wrong on purpose: the child closes its end only when it exits.
PipeClosedAtExit(s) == child[s] = "exited"

\* The child's end of the pipe is closed: it runs a session or has exited.
PipeClosed(s) == child[s] \in {"session", "exited"}
\* The child waits for a connection, or is on its way to do so.
Ready(s) == child[s] \in {"forked", "accept"}
-----------------------------------------------------------------------------
(* The parent                                                              *)

Advance(from, to) ==
    IF i < N THEN i' = i + 1 /\ pc' = from ELSE i' = 1 /\ pc' = to

\* Wrong on purpose: every slot is refilled, whatever poll reported.
Refill == pc \in {"spawn", "scan"}

\* The two places where a process is spawned: the first round, and for a slot
\* that poll reported.
MustSpawn == pc = "spawn" \/ (pc = "scan" /\ i \in revents)

\* spawn_preforked_process, called from both loops
Spawn ==
    /\ MustSpawn
    /\ child' = [child EXCEPT ![i] = "forked"]
    /\ Advance(pc, "check")
    /\ UNCHANGED <<terminate, revents, clients>>

SpawnFails ==
    /\ ForkMayFail /\ MustSpawn
    /\ pc' = "returned"
    /\ UNCHANGED <<i, terminate, revents, child, clients>>

\* if (pollfds[i].revents == 0) continue
Skip ==
    /\ pc = "scan" /\ i \notin revents
    /\ Advance("scan", "check")
    /\ UNCHANGED <<terminate, revents, child, clients>>

\* while (!terminate)
Check ==
    /\ pc = "check"
    /\ pc' = IF terminate THEN "kill" ELSE "call_poll"
    /\ UNCHANGED <<i, terminate, revents, child, clients>>

\* The flag was read, the system call comes next.
CallPoll ==
    /\ pc = "call_poll"
    /\ pc' = "poll"
    /\ UNCHANGED <<i, terminate, revents, child, clients>>

\* Wrong on purpose: the last slot is not polled.
AllButLast == 1 .. N - 1

\* The slots whose pipes are polled.
Polled == 1 .. N

\* poll blocks until a pipe is closed
Poll ==
    /\ pc = "poll"
    /\ revents' = {s \in Polled : PipeClosed(s)}
    /\ revents' # {}
    /\ pc' = "scan"
    /\ UNCHANGED <<i, terminate, child, clients>>

\* kill(child_pid[i], SIGTERM): it makes a blocked accept fail, and exit(1)
\* follows; otherwise it sets a flag nobody looks at
Kill ==
    /\ pc = "kill"
    /\ child' = [child EXCEPT ![i] = IF @ = "accept" THEN "exited" ELSE @]
    /\ Advance("kill", "returned")
    /\ UNCHANGED <<terminate, revents, clients>>

\* The parent gets a SIGTERM; a blocked poll returns -1 and the loop ends.
Signal ==
    /\ MaySignal /\ ~terminate /\ pc # "returned"
    /\ terminate' = TRUE
    /\ pc' = IF pc = "poll" THEN "kill" ELSE pc
    /\ UNCHANGED <<i, revents, child, clients>>
-----------------------------------------------------------------------------
(* The children and the clients                                            *)

Connect ==
    /\ connected < MaxConnections
    /\ connected' = connected + 1
    /\ UNCHANGED <<pc, i, terminate, revents, child, accepted, failures>>

Become(s, from, to) ==
    /\ child[s] = from
    /\ child' = [child EXCEPT ![s] = to]
    /\ UNCHANGED <<pc, i, terminate, revents, connected>>

EnterAccept(s) == Become(s, "forked", "accept") /\ UNCHANGED <<accepted, failures>>

Accept(s) ==
    /\ accepted < connected /\ accepted' = accepted + 1
    /\ Become(s, "accept", "session") /\ UNCHANGED failures

\* if (fd < 0) exit(1): accept fails for want of descriptors or memory, or by
\* another signal.  The connections that wait remain for the others.
AcceptFails(s) ==
    /\ failures < MaxFailures /\ failures' = failures + 1
    /\ Become(s, "accept", "exited") /\ UNCHANGED accepted

SessionEnds(s) == Become(s, "session", "exited") /\ UNCHANGED <<accepted, failures>>

Parent == Spawn \/ Skip \/ Check \/ CallPoll \/ Poll \/ Kill
Child(s) == EnterAccept(s) \/ Accept(s)

ServiceNext ==
    \/ Parent \/ SpawnFails \/ Signal \/ Connect
    \/ \E s \in Slots : Child(s) \/ AcceptFails(s) \/ SessionEnds(s)

ServiceSpec == ServiceInit /\ [][ServiceNext]_pvars

\* The parent and the children go on when they can.  Clients need not connect,
\* sessions need not end and nobody is obliged to send a signal.
FairService ==
    /\ ServiceSpec
    /\ WF_pvars(Parent) /\ \A s \in Slots : WF_pvars(Child(s))
-----------------------------------------------------------------------------
\* "there will be always number_of_processes processes ready to accept a
\* connection": a slot whose child got busy or exited is filled again as long
\* as the service runs.
SlotIsRefilled ==
    \A s \in Slots : PipeClosed(s) ~> Ready(s) \/ pc \in {"kill", "returned"}

\* Every connection is accepted while the service runs, however many come at
\* once and however long the sessions take, if accept does not fail for ever.
EveryConnectionAccepted ==
    \A k \in 1 .. MaxConnections :
        connected >= k ~> accepted >= k \/ terminate \/ pc = "returned"

\* No child is replaced while it still waits in accept: otherwise it would
\* never be sent the SIGTERM, and more than N children would wait.
NoWaitingChildForgotten ==
    [][\A s \in Slots : child'[s] = "forked" => ~(child[s] = "accept")]_pvars

\* "If the main process gets a SIGTERM signal, this will be distributed to all
\* children": the parent leaves its loop.  It does not hold for a signal between
\* Check and CallPoll.  No run checks it.
SigtermEndsService == terminate ~> pc = "returned"
=============================================================================
