----------------------------- MODULE UdpSession -----------------------------
(***************************************************************************)
(* udp_session.c: one thread serves many UDP sessions with poll.  A packet *)
(* to the main socket starts a session with a socket of its own.  The      *)
(* packets written to a session are numbered 1, 2, ...; its output queue   *)
(* holds for each of them how often it was sent and how often it timed     *)
(* out.  The handlers are the user's: they read exactly once, as the       *)
(* documentation expects, touch no link that is gone, and may write to,    *)
(* and close, any link that exists.  Datagrams arrive at any time, in      *)
(* answer to something or not: what the network loses is never answered.   *)
(***************************************************************************)
EXTENDS Lists

CONSTANTS
    Sessions,   \* the sessions that may ever be started
    Retries,    \* the values of max_retries
    MaxFirst,   \* bound on the datagrams to the main socket
    MaxSends,   \* bound on the datagrams to each session
    MaxWrites   \* bound on the calls of write_to_udp_link per session

ASSUME BoundsAssumption ==
    Retries \subseteq Nat /\ MaxFirst \in Nat /\ MaxSends \in Nat /\ MaxWrites \in Nat

VARIABLES
    \* struct udp_multiplexor
    pc,           \* setup, poll, dispatch, returned, aborted (by an assertion)
    max_retries,
    mainfd,       \* is mpx.socket open?
    list,         \* the links from head to tail
    jobs,         \* what is still to be done of the last poll's revents, in order
    \* struct udp_connection; a started session is initialized
    closed, oq,
    \* the network
    first, firsts, \* datagrams waiting at the main socket, and sent to it so far
    inbox, arrived, \* the same for the socket of each session
    \* history
    wrote,        \* calls of write_to_udp_link so far
    sent,         \* the packets sent, in order
    broken,       \* has an operation on the socket failed?
    closes        \* calls of the close handler so far

net == <<first, firsts, inbox, arrived>>
vars == <<pc, max_retries, mainfd, list, jobs, closed, oq, net, wrote, sent, broken, closes>>

Main == <<"main">>
Linked(s) == Contains(list, s)
Packet(n) == [nr |-> n, attempts |-> 0, timeouts |-> 0]
Waiting(s) == oq[s] # << >> /\ oq[s][1].attempts > 0

\* run_udp_service up to its loop
Init ==
    /\ pc = "setup" /\ max_retries \in Retries /\ mainfd = TRUE /\ list = << >> /\ jobs = << >>
    /\ closed = [s \in Sessions |-> FALSE] /\ oq = [s \in Sessions |-> << >>]
    /\ first = 0 /\ firsts = 0
    /\ inbox = [s \in Sessions |-> 0] /\ arrived = [s \in Sessions |-> 0]
    /\ wrote = [s \in Sessions |-> 0] /\ sent = [s \in Sessions |-> << >>]
    /\ broken = [s \in Sessions |-> FALSE] /\ closes = [s \in Sessions |-> 0]
-----------------------------------------------------------------------------
\* remove_link for the links in S (discard_oq is left to the caller)
Unlink(S) ==
    /\ list' = Only(list, Sessions \ S)
    /\ closes' = [s \in Sessions |-> closes[s] + IF s \in S THEN 1 ELSE 0]

\* discard_oq_head
DiscardHead(q) == IF q = << >> THEN q ELSE Tail(q)

\* Wrong on purpose: a link that is closing loses its first packet, sent or not.
WeededQueueEager(s) ==
    IF oq[s] = << >> \/ (oq[s][1].attempts < max_retries /\ ~closed[s]) THEN oq[s]
    ELSE IF oq[s][1].attempts >= max_retries THEN << >> ELSE Tail(oq[s])

\* Wrong on purpose: a packet that was sent keeps a closed link alive.
WeededQueueKept(s) ==
    IF oq[s] # << >> /\ oq[s][1].attempts >= max_retries THEN << >> ELSE oq[s]

\* setup_polls: what becomes of the output queue of s.  A link gives up when
\* its first packet was sent often enough, and nothing is sent again by a
\* link that is closing.
WeededQueue(s) ==
    CASE oq[s] # << >> /\ oq[s][1].attempts >= max_retries -> << >>
      [] Waiting(s) /\ oq[s][1].attempts < max_retries /\ closed[s] -> DiscardHead(oq[s])
      [] OTHER -> oq[s]

GivesUp(s) == Linked(s) /\ oq[s] # << >> /\ oq[s][1].attempts >= max_retries

\* setup_polls, first half; the main socket never leaves pollfds
Setup ==
    /\ pc = "setup" /\ pc' = "poll"
    /\ oq' = [s \in Sessions |-> IF Linked(s) THEN WeededQueue(s) ELSE oq[s]]
    /\ closed' = [s \in Sessions |-> closed[s] \/ GivesUp(s)]
    /\ Unlink({s \in Sessions : Linked(s) /\ closed'[s] /\ oq'[s] = << >>})
    /\ UNCHANGED <<max_retries, mainfd, jobs, net, wrote, sent, broken>>

\* Wrong on purpose: POLLOUT is requested while a packet waits for its answer.
AsksForOutputAlways(s) == oq[s] # << >>

\* The events that setup_polls asks for: POLLIN of a link that is not closed,
\* POLLOUT for the first attempt or when the last one timed out.
AsksForInput(s) == ~closed[s]
AsksForOutput(s) == oq[s] # << >> /\ oq[s][1].timeouts = oq[s][1].attempts

\* The events of the links that are there, in the order of pollfds; a socket
\* for datagrams has room for the next one.
LinkEvents == Only(JobsOf(list),
    {In(s) : s \in {d \in Sessions : AsksForInput(d) /\ inbox[d] > 0}}
    \cup {Out(s) : s \in {d \in Sessions : AsksForOutput(d)}})

\* A main socket that was closed is reported in every round.
Events == (IF first > 0 \/ ~mainfd THEN <<Main>> ELSE << >>) \o LinkEvents

\* poll returns with events
Poll ==
    /\ pc = "poll" /\ pc' = "dispatch"
    /\ Events # << >> /\ jobs' = Events
    /\ UNCHANGED <<max_retries, mainfd, list, closed, oq, net, wrote, sent, broken, closes>>

\* poll returns without events, which it may if some open link waits for an
\* answer
Timeout ==
    /\ pc = "poll" /\ pc' = "setup" /\ Events = << >>
    /\ \E s \in Sessions : Linked(s) /\ ~closed[s] /\ Waiting(s)
    /\ oq' = [s \in Sessions |->
         IF /\ Linked(s) /\ oq[s] # << >> /\ oq[s][1].timeouts < oq[s][1].attempts
            /\ AsksForOutput(s)
         THEN [oq[s] EXCEPT ![1].timeouts = @ + 1] ELSE oq[s]]
    /\ UNCHANGED <<max_retries, mainfd, list, jobs, closed, net, wrote, sent, broken, closes>>

\* poll fails, or the memory is exhausted in setup_polls or add_connection:
\* run_udp_service returns and leaves everything as it is
GiveUp ==
    /\ pc = "poll" \/ (pc = "dispatch" /\ Head(jobs) = Main)
    /\ pc' = "returned"
    /\ UNCHANGED <<max_retries, mainfd, list, jobs, closed, oq, net, wrote, sent, broken, closes>>

\* The next event of the loop over pollfds; the loop ends with the last one.
Dispatch(j) ==
    /\ pc = "dispatch" /\ Head(jobs) = j
    /\ jobs' = Tail(jobs)
    /\ pc' = IF jobs' = << >> THEN "setup" ELSE "dispatch"

\* write_to_udp_link for each of the links in W, which have the queues `queue'
WriteToUdpLink(W, queue) ==
    /\ \A s \in W : wrote[s] < MaxWrites
    /\ oq' = [s \in Sessions |-> IF s \in W THEN Append(queue[s], Packet(wrote[s] + 1)) ELSE queue[s]]
    /\ wrote' = [s \in Sessions |-> wrote[s] + IF s \in W THEN 1 ELSE 0]

\* close_udp_link for each of the links in X
CloseUdpLink(X, shut) == closed' = [s \in Sessions |-> shut[s] \/ s \in X]

\* What a handler does after its read: packets for the links in W, the end
\* of those in X.  `queue' and `shut' are the state after the read.
Handler(live, queue, shut) == \E W, X \in SUBSET live :
    WriteToUdpLink(W, queue) /\ CloseUdpLink(X, shut)

\* add_connection: the handler reads the datagram, and the session gets a
\* socket that is connected to the sender
AddConnection(s) ==
    /\ Dispatch(Main) /\ mainfd /\ first > 0
    /\ ~Linked(s) /\ closes[s] = 0
    /\ first' = first - 1
    /\ list' = Append(list, s)
    /\ Handler({d \in Sessions : Linked(d)} \cup {s}, oq, closed)
    /\ UNCHANGED <<max_retries, mainfd, firsts, inbox, arrived, sent, broken, closes>>

\* add_connection when recvfrom, socket or connect fails: the link is removed
\* and freed by read_from_udp_link, which closes the main socket as it is the
\* descriptor of the link so far, and the assertion at the end looks at the
\* freed link
AddConnectionFails ==
    /\ \/ Dispatch(Main)
       \/ pc = "dispatch" /\ Head(jobs) = Main /\ pc' = "aborted" /\ jobs' = << >>
    /\ mainfd' = FALSE
    /\ first' = 0
    /\ UNCHANGED <<max_retries, list, closed, oq, firsts, inbox, arrived, wrote, sent, broken, closes>>

\* The link after POLLIN: its first packet, if sent, is taken as confirmed.
Confirmed(s) == IF Waiting(s) THEN [oq EXCEPT ![s] = DiscardHead(@)] ELSE oq

\* read_from_udp_link, when it succeeds, or returns 0 for a link that was
\* closed in this round
ReadFromUdpLink(s) == inbox' = IF closed[s] THEN inbox ELSE [inbox EXCEPT ![s] = @ - 1]

\* The input handler when its read does not fail
Input(s) ==
    /\ Dispatch(In(s))
    /\ ReadFromUdpLink(s)
    /\ Handler({d \in Sessions : Linked(d)}, Confirmed(s), closed)
    /\ UNCHANGED <<max_retries, mainfd, list, first, firsts, arrived, sent, broken, closes>>

\* read_from_udp_link, when it fails, removes a link without pending output.
RemovedAtFailure(s) == IF Confirmed(s)[s] = << >> THEN {s} ELSE {}

\* The input handler when its read fails
InputFails(s) ==
    /\ Dispatch(In(s)) /\ ~closed[s]
    /\ broken' = [broken EXCEPT ![s] = TRUE]
    /\ Unlink(RemovedAtFailure(s))
    /\ Handler({d \in Sessions : Linked(d)} \ RemovedAtFailure(s), Confirmed(s), [closed EXCEPT ![s] = TRUE])
    /\ UNCHANGED <<max_retries, mainfd, net, sent>>

\* Wrong on purpose: the last packet of the queue is sent first.
AfterSendLast(q) == SubSeq(q, 1, Len(q) - 1)

\* write_to_socket keeps a packet for another attempt only if it is the last.
AfterSend(q) == IF Len(q) > 1 THEN DiscardHead(q) ELSE [q EXCEPT ![1].attempts = @ + 1]

\* write_to_socket
Output(s) ==
    /\ Dispatch(Out(s))
    /\ sent' = [sent EXCEPT ![s] = Append(@, oq[s][1].nr)]
    /\ oq' = [oq EXCEPT ![s] = AfterSend(@)]
    /\ UNCHANGED <<max_retries, mainfd, list, closed, net, wrote, broken, closes>>

\* write_to_socket when send fails
OutputFails(s) ==
    /\ Dispatch(Out(s))
    /\ broken' = [broken EXCEPT ![s] = TRUE]
    /\ oq' = [oq EXCEPT ![s] = << >>]
    /\ Unlink({s})
    /\ UNCHANGED <<max_retries, mainfd, closed, net, wrote, sent>>
-----------------------------------------------------------------------------
(* The network                                                             *)

ArriveFirst ==
    /\ mainfd /\ firsts < MaxFirst
    /\ first' = first + 1 /\ firsts' = firsts + 1
    /\ UNCHANGED <<pc, max_retries, mainfd, list, jobs, closed, oq, inbox, arrived, wrote, sent, broken, closes>>

Arrive(s) ==
    /\ Linked(s) /\ arrived[s] < MaxSends
    /\ inbox' = [inbox EXCEPT ![s] = @ + 1] /\ arrived' = [arrived EXCEPT ![s] = @ + 1]
    /\ UNCHANGED <<pc, max_retries, mainfd, list, jobs, closed, oq, first, firsts, wrote, sent, broken, closes>>

Handle == \/ AddConnectionFails
          \/ \E s \in Sessions : \/ AddConnection(s) \/ Input(s) \/ InputFails(s)
                                 \/ Output(s) \/ OutputFails(s)

Next == \/ Setup \/ Poll \/ Timeout \/ GiveUp \/ Handle
        \/ ArriveFirst \/ \E s \in Sessions : Arrive(s)

Spec == Init /\ [][Next]_vars

\* The thread goes on when it can, and poll does not wait forever with a
\* timeout.  Nobody needs to send anything.
FairSpec ==
    /\ Spec
    /\ WF_vars(Setup) /\ WF_vars(Poll) /\ WF_vars(Timeout) /\ WF_vars(Handle)
-----------------------------------------------------------------------------
Over == pc \in {"returned", "aborted"}

\* Every event that is still to be handled belongs to a link that exists, and
\* one for output to a link with a packet that is due: write_to_socket looks
\* at link->oqhead without a test although the handler called just before may
\* have removed the link, and a packet taken as confirmed leaves the queue.
DispatchIsSafe ==
    \A k \in 1 .. Len(jobs) : jobs[k] # Main =>
        /\ Linked(jobs[k][2])
        /\ jobs[k][1] = "out" => oq[jobs[k][2]] # << >>

\* The packets of a session go out in the order they were written, none is
\* skipped, and what is still queued follows what was sent.
SentInOrder == \A s \in Sessions :
    /\ \A k \in 1 .. Len(sent[s]) : sent[s][k] - (IF k = 1 THEN 0 ELSE sent[s][k - 1]) \in {0, 1}
    /\ oq[s] # << >> =>
         oq[s][1].nr = (IF sent[s] = << >> THEN 1 ELSE Last(sent[s]) + IF Waiting(s) THEN 0 ELSE 1)

\* "Pending output packets will be sent": a session that was closed is not
\* removed before all its packets were sent, unless its socket failed or one
\* of them was sent max_retries times.
PendingOutputIsSent == \A s \in Sessions :
    closes[s] > 0 /\ ~broken[s] =>
        \/ wrote[s] = (IF sent[s] = << >> THEN 0 ELSE Last(sent[s]))
        \/ \E n \in 1 .. wrote[s] :
             Cardinality({k \in 1 .. Len(sent[s]) : sent[s][k] = n}) >= max_retries

\* "As soon a connection is no longer in use, close_handler will be invoked":
\* a session that was closed, or that failed, leaves the list in the end.
ClosedLinkIsRemoved ==
    \A s \in Sessions : Linked(s) /\ closed[s] ~> ~Linked(s) \/ Over

\* "These packets are retransmitted up to max_retries times if no response
\* comes within the timeperiod": a packet that waits for its answer does not
\* wait forever, it is sent again, answered, or the session is given up.  It does
\* not hold: Timeout counts only where AsksForOutput.  No run checks it.
PacketIsSentAgain == \A s \in Sessions, n \in 1 .. MaxWrites, k \in 1 .. 3 :
    Linked(s) /\ Waiting(s) /\ oq[s][1].nr = n /\ Len(sent[s]) = k
        ~> Len(sent[s]) > k \/ ~(Linked(s) /\ Waiting(s) /\ oq[s][1].nr = n) \/ Over
=============================================================================
