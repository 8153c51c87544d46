----------------------------- MODULE Multiplexor -----------------------------
(***************************************************************************)
(* multiplexor.c: one thread serves many network connections with poll.    *)
(* A connection c is linked into the list while it is open; its output     *)
(* queue holds the sizes of what is still to be written of each packet.    *)
(* The handlers are the user's: the input handler reads exactly once, and  *)
(* both it and the open handler may write packets to, and close, any link  *)
(* that exists.  Peers connect, send, and hang up at any time, and any     *)
(* read or write may fail.                                                 *)
(***************************************************************************)
EXTENDS Lists

CONSTANTS
    Conns,      \* the connections that may ever be made
    MaxSends,   \* bound on the packets a peer sends
    MaxWrites,  \* bound on the calls of write_to_link per connection
    MaxLen      \* bound on the length of a packet

ASSUME BoundsAssumption ==
    MaxSends \in Nat /\ MaxWrites \in Nat /\ MaxLen \in Nat \ {0}

VARIABLES
    \* struct multiplexor and its connections
    pc,         \* setup, poll, dispatch, returned
    socketok,
    list,       \* the links from head to tail
    count,      \* number of connections
    eof, oq,    \* link->eof and the output queue of each link
    jobs,       \* what is still to be done of the last poll's revents, in order
    \* the peers
    peer,       \* none, waiting (to be accepted), open, closed
    inbox, sent,  \* packets not yet read, packets sent so far
    \* history
    wrote,      \* calls of write_to_link so far
    closes,     \* calls of the close handler so far
    broken      \* the links for which a write has failed

peers == <<peer, inbox, sent>>
vars == <<pc, socketok, list, count, eof, oq, jobs, peers, wrote, closes, broken>>

Accept == <<"accept">>
Linked(c) == Contains(list, c)

Init ==
    /\ pc = "setup" /\ socketok = TRUE /\ list = << >> /\ count = 0 /\ jobs = << >>
    /\ eof = [c \in Conns |-> FALSE] /\ oq = [c \in Conns |-> << >>]
    /\ peer = [c \in Conns |-> "none"]
    /\ inbox = [c \in Conns |-> 0] /\ sent = [c \in Conns |-> 0]
    /\ wrote = [c \in Conns |-> 0] /\ closes = [c \in Conns |-> 0]
    /\ broken = {}
-----------------------------------------------------------------------------
\* remove_link for the links in S: the close handler is called, and the link
\* is freed, its output queue is not
Unlink(S) ==
    /\ list' = Only(list, Conns \ S)
    /\ count' = count - Cardinality(S)
    /\ closes' = [c \in Conns |-> closes[c] + IF c \in S THEN 1 ELSE 0]

\* Wrong on purpose: links that were closed go without their output.
WeedAllClosed == {c \in Conns : Linked(c) /\ eof[c]}

\* Wrong on purpose: nothing is weeded out.
WeedNothing == {}

\* The links that setup_polls weeds out.
Weeded == {c \in Conns : Linked(c) /\ eof[c] /\ oq[c] = << >>}

\* setup_polls, first half, and the end of the main loop
Setup ==
    /\ pc = "setup"
    /\ Unlink(Weeded)
    /\ pc' = IF list' = << >> /\ ~socketok THEN "returned" ELSE "poll"
    /\ UNCHANGED <<socketok, eof, oq, jobs, peers, wrote, broken>>

\* The events that setup_polls asks for and that are there
Ready(writable) ==
    {In(c) : c \in {d \in Conns : ~eof[d] /\ (inbox[d] > 0 \/ peer[d] = "closed")}}
    \cup {Out(c) : c \in {d \in writable : oq[d] # << >>}}

\* poll returns; `writable' are the connections whose peer has room
Poll ==
    /\ pc = "poll"
    /\ \E writable \in SUBSET Conns :
         jobs' = (IF socketok /\ \E c \in Conns : peer[c] = "waiting" THEN <<Accept>> ELSE << >>)
                 \o Only(JobsOf(list), Ready(writable))
    /\ jobs' # << >>
    /\ pc' = "dispatch"
    /\ UNCHANGED <<socketok, list, count, eof, oq, peers, wrote, closes, broken>>

\* The next event of the loop over pollfds; the loop ends with the last one.
Dispatch(j) ==
    /\ pc = "dispatch" /\ Head(jobs) = j
    /\ jobs' = Tail(jobs)
    /\ pc' = IF jobs' = << >> THEN "setup" ELSE "dispatch"

\* write_to_link for the links in W: one more packet in their queues
WriteToLink(W, len) ==
    /\ \A d \in W : wrote[d] < MaxWrites
    /\ oq' = [d \in Conns |-> IF d \in W THEN Append(oq[d], len) ELSE oq[d]]
    /\ wrote' = [d \in Conns |-> wrote[d] + IF d \in W THEN 1 ELSE 0]

\* close_link for the links in X, and the same flag set by read_from_link
CloseLink(X) == eof' = [d \in Conns |-> eof[d] \/ d \in X]

\* add_connection, and the open handler
AddConnection(c) ==
    /\ Dispatch(Accept) /\ peer[c] = "waiting"
    /\ peer' = [peer EXCEPT ![c] = "open"]
    /\ list' = Append(list, c) /\ count' = count + 1
    /\ \E W, X \in SUBSET ({c} \cup {d \in Conns : Linked(d)}), len \in 1 .. MaxLen :
         WriteToLink(W, len) /\ CloseLink(X)
    /\ UNCHANGED <<socketok, inbox, sent, closes, broken>>

\* accept fails: no more connections
AcceptFails ==
    /\ Dispatch(Accept)
    /\ socketok' = FALSE
    /\ UNCHANGED <<list, count, eof, oq, peers, wrote, closes, broken>>

\* poll fails, or the memory is exhausted in setup_polls or add_connection:
\* run_multiplexor returns and leaves everything as it is
GiveUp ==
    /\ pc = "poll" \/ (pc = "dispatch" /\ Head(jobs) = Accept)
    /\ pc' = "returned"
    /\ UNCHANGED <<socketok, list, count, eof, oq, jobs, peers, wrote, closes, broken>>

\* Wrong on purpose: a link is freed although output is pending.
DropAtEof(c) == TRUE

\* read_from_link frees the link at the end of the input
DropAtOnce(c) == oq[c] = << >>

\* The input handler of c: read_from_link, which may fail, then write_to_link
\* for the links in W and close_link for those in X.
Input(c) ==
    /\ Dispatch(In(c))
    /\ \E fails \in BOOLEAN :
       LET atEnd == ~eof[c] /\ (inbox[c] = 0 \/ fails)
           gone == IF atEnd /\ DropAtOnce(c) THEN {c} ELSE {}
           live == {d \in Conns : Linked(d)} \ gone
       IN /\ Unlink(gone)
          /\ inbox' = IF eof[c] \/ atEnd THEN inbox ELSE [inbox EXCEPT ![c] = @ - 1]
          /\ \E W, X \in SUBSET live, len \in 1 .. MaxLen :
               WriteToLink(W, len) /\ CloseLink(IF atEnd THEN X \cup {c} ELSE X)
    /\ UNCHANGED <<socketok, peer, sent, broken>>

\* write_to_socket: some of the first packet is written
Output(c) ==
    /\ Dispatch(Out(c))
    /\ \E n \in 1 .. Head(oq[c]) :
         oq' = [oq EXCEPT ![c] = IF n = Head(@) THEN Tail(@) ELSE <<Head(@) - n>> \o Tail(@)]
    /\ Unlink(IF oq'[c] = << >> /\ eof[c] THEN {c} ELSE {})
    /\ UNCHANGED <<socketok, eof, peers, wrote, broken>>

\* write_to_socket: write fails, for whatever reason
OutputFails(c) ==
    /\ Dispatch(Out(c))
    /\ Unlink({c})
    /\ broken' = broken \cup {c}
    /\ UNCHANGED <<socketok, eof, oq, peers, wrote>>
-----------------------------------------------------------------------------
(* The peers                                                               *)

Peer(c) ==
    /\ \/ /\ peer[c] = "none" /\ peer' = [peer EXCEPT ![c] = "waiting"]
          /\ UNCHANGED <<inbox, sent>>
       \/ /\ peer[c] = "open" /\ sent[c] < MaxSends
          /\ sent' = [sent EXCEPT ![c] = @ + 1]
          /\ inbox' = [inbox EXCEPT ![c] = @ + 1] /\ UNCHANGED peer
       \/ /\ peer[c] = "open" /\ peer' = [peer EXCEPT ![c] = "closed"]
          /\ UNCHANGED <<inbox, sent>>
    /\ UNCHANGED <<pc, socketok, list, count, eof, oq, jobs, wrote, closes, broken>>

Handle == \/ AcceptFails
          \/ \E c \in Conns : AddConnection(c) \/ Input(c) \/ Output(c) \/ OutputFails(c)

Next == Setup \/ Poll \/ Handle \/ GiveUp \/ \E c \in Conns : Peer(c)

PollFor(c) == Poll /\ Contains(jobs', Out(c))

Spec == Init /\ [][Next]_vars

\* The thread goes on when it can, and a peer to which there is output has
\* room for it again and again.  Peers need neither connect, send nor hang up.
FairSpec ==
    /\ Spec
    /\ WF_vars(Setup) /\ WF_vars(Poll) /\ WF_vars(Handle)
    /\ \A c \in Conns : SF_vars(PollFor(c))
-----------------------------------------------------------------------------
\* Every event that is still to be handled belongs to a link that exists, and
\* one for output to a link with something to write: the pointers in pollcs
\* stay valid although handlers free links and close others in the same round.
\* pollfds, which is sized by count, has room for the links of the list.
DispatchIsSafe ==
    /\ count = Len(list) /\ IsInjective(list)
    /\ \A k \in 1 .. Len(jobs) : jobs[k] # Accept =>
         /\ Linked(jobs[k][2])
         /\ jobs[k][1] = "out" => oq[jobs[k][2]] # << >>

\* "just the pending list of response packets will be handled": whoever closes a
\* link, and whenever its input ends, it is not removed with output pending, be it
\* the first packet or one that waits behind others, unless a write to it failed.
PendingOutputIsKept ==
    \A c \in Conns : closes[c] > 0 /\ oq[c] # << >> => c \in broken

\* A link that was closed, from either side, is removed in the end, unless the
\* multiplexor gives up altogether.
ClosedLinkIsRemoved ==
    \A c \in Conns : Linked(c) /\ eof[c] ~> ~Linked(c) \/ pc = "returned"

\* "The output buffer ... is ... subsequently owned by this module and freed
\* when it is no longer needed": a removed link leaves no buffers behind.
\* It does not hold when write fails.  No run checks it.
BuffersAreFreed == \A c \in Conns : closes[c] > 0 => oq[c] = << >>
=============================================================================
