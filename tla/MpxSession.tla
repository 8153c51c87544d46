----------------------------- MODULE MpxSession -----------------------------
(***************************************************************************)
(* mpx_session.c on top of multiplexor.c and sliding_buffer.c: a service   *)
(* whose requests are what a regular expression matches.  One session and  *)
(* its link (sessions share nothing but the multiplexor, see Multiplexor). *)
(* The client's bytes arrive in portions nobody controls and are kept in a *)
(* sliding buffer until they make a request.  The request handler is the   *)
(* user's: it scans the captures, and may print and close the session.     *)
(***************************************************************************)
EXTENDS Matcher

CONSTANTS
    Threshold,  \* THRESHOLD of sliding_buffer.c
    MinSpace,   \* the room asked for before a read
    MaxPackets  \* bound on the packets written and not yet sent

ASSUME SessionBounds == Threshold \in Nat \ {0} /\ MinSpace \in Nat \ {0} /\ MaxPackets \in Nat

VARIABLES
    stream, regexp,  \* the client's bytes and the service's pattern
    taken,      \* bytes read so far
    link,       \* none, open, closed (link->eof is set), removed
    session,    \* link->handle is set
    packets,    \* packets in the output queue of the link
    buffer,     \* s->buffer: the bytes sa.s, its room sa.a, and offset
    control,    \* poll, or loop (inside the input handler); aborted by an assertion;
                \* wild: a session that was freed is used
    partial,    \* may pcre_exec return a partial match?
    handled     \* the requests and captures the handler got; `from' is history,
                \* the position of a request in the stream

svars == <<stream, regexp, taken, link, session, packets, buffer, control, partial, handled>>

Rest == Len(buffer.s) - buffer.offset

\* Where the k-th request ends, and all that were handled so far
EndOf(k) == handled[k].from + Len(handled[k].text)
Done == IF handled = << >> THEN 0 ELSE EndOf(Len(handled))

SessionInit ==
    /\ stream \in Streams /\ regexp \in Patterns /\ taken = 0
    /\ link = "none" /\ session = FALSE /\ packets = 0
    /\ buffer = [s |-> << >>, a |-> 0, offset |-> 0]
    /\ control = "poll" /\ partial = TRUE /\ handled = << >>
-----------------------------------------------------------------------------
\* The user's handlers may print (mpx_session_printf) and call close_session.
MayPrint == packets' \in {packets, packets + 1} /\ packets' <= MaxPackets
MayClose(now) == link' \in {now, "closed"}

\* mpx_open_handler, with the user's open handler
Open ==
    /\ link = "none"
    /\ \/ session' = TRUE /\ MayClose("open") /\ MayPrint
       \/ session' = FALSE /\ link' = "closed" /\ packets' = 0   \* out of memory
    /\ UNCHANGED <<stream, regexp, taken, buffer, control, partial, handled>>

\* Wrong on purpose: the offset is kept when the contents move.
ShiftOnly(b) == [b EXCEPT !.s = SubSeq(b.s, b.offset + 1, Len(b.s))]

Shifted(b) == [b EXCEPT !.s = SubSeq(b.s, b.offset + 1, Len(b.s)), !.offset = 0]

\* sliding_buffer_ready: the contents may be moved, or the buffer grows
Compacted(b) ==
    IF Len(b.s) = b.offset \/ (b.offset >= Threshold /\ Len(b.s) - b.offset <= Threshold)
    THEN Shifted(b) ELSE b
MustGrow(b) == b.a - Len(b.s) + b.offset < MinSpace
BufferReady(b) ==
    CASE b.a - Len(b.s) >= MinSpace -> b
      [] b.a - Len(b.s) < MinSpace /\ MustGrow(b) -> [b EXCEPT !.a = Len(b.s) + MinSpace]
      [] OTHER -> Shifted(b)

\* mpx_input_handler up to its loop: bytes arrive
SessionInput ==
    /\ control = "poll" /\ link = "open"
    /\ LET b == BufferReady(Compacted(buffer))
       IN \E n \in 1 .. Len(stream) :
            /\ n <= b.a - Len(b.s) /\ taken + n <= Len(stream)
            /\ buffer' = [b EXCEPT !.s = @ \o SubSeq(stream, taken + 1, taken + n)]
            /\ taken' = taken + n
    /\ partial' = TRUE /\ control' = "loop"
    /\ UNCHANGED <<stream, regexp, link, session, packets, handled>>

\* sliding_buffer_ready fails
InputNoMemory ==
    /\ control = "poll" /\ link = "open"
    /\ Compacted(buffer).a - Len(Compacted(buffer).s) < MinSpace /\ MustGrow(Compacted(buffer))
    /\ buffer' = Compacted(buffer) /\ link' = "closed"
    /\ UNCHANGED <<stream, regexp, taken, session, packets, control, partial, handled>>

\* mpx_input_handler when the stream has ended or was cut off by an error
\* (nbytes <= 0).  Without pending output read_from_link removes the link, and
\* mpx_close_handler frees the session, which the input handler goes on to use.
InputEnds ==
    /\ control = "poll" /\ link = "open" /\ taken = Len(stream)
    /\ buffer' = BufferReady(Compacted(buffer)) /\ partial' = FALSE
    /\ \/ packets > 0 /\ link' = "closed" /\ control' = "loop" /\ UNCHANGED session
       \/ packets = 0 /\ link' = "removed" /\ session' = FALSE /\ control' \in {"poll", "wild"}
    /\ UNCHANGED <<stream, regexp, taken, packets, handled>>
-----------------------------------------------------------------------------
\* Wrong on purpose: taken from the beginning of the buffer, not of the request.
CaptureOfBuffer(cap) == SubSeq(buffer.s, cap[1] - buffer.offset + 1, cap[2] - buffer.offset)

\* mpx_session_scan: a capture that is set
Capture(cap) == SubSeq(buffer.s, cap[1] + 1, cap[2])

\* ... the captures in the order of the parameters.  `start' is relative to
\* the request.
Captures(m) == [k \in 1 .. m.count |->
    LET start == m.caps[k][1] - buffer.offset IN IF start = -1 THEN << >> ELSE Capture(m.caps[k])]
ScanAborts(m) == \E k \in 1 .. m.count : m.caps[k][1] - buffer.offset < -1

\* Wrong on purpose: one request per packet.
AfterRequestPoll == "poll"

\* The loop goes on after a request.
AfterRequest == "loop"

\* The loop of mpx_input_handler: a request that matches, which the user's
\* request handler scans
Request ==
    /\ control = "loop" /\ Rest > 0
    /\ \E m \in {PcreExec(regexp, buffer.s, buffer.offset, partial)} :
         /\ m.kind = "match"
         /\ IF ScanAborts(m) THEN control' = "aborted" /\ UNCHANGED <<link, packets, buffer, handled>>
            ELSE /\ handled' = Append(handled,
                      [from |-> Done, text |-> SubSeq(buffer.s, buffer.offset + 1, m.end),
                       caps |-> Captures(m)])
                 /\ buffer' = [buffer EXCEPT !.offset = m.end]
                 /\ MayClose(link) /\ MayPrint
                 /\ control' = AfterRequest
    /\ UNCHANGED <<stream, regexp, taken, session, partial>>

\* The loop ends: the rest, if any, is the beginning of a request, or the
\* session is closed as it is not
LoopEnds ==
    /\ control = "loop" /\ control' = "poll"
    /\ \/ Rest = 0 /\ UNCHANGED link
       \/ Rest > 0 /\ \E m \in {PcreExec(regexp, buffer.s, buffer.offset, partial)} :
            \/ m.kind = "partial" /\ UNCHANGED link
            \/ m.kind = "nomatch" /\ link' = "closed"
    /\ UNCHANGED <<stream, regexp, taken, session, packets, buffer, partial, handled>>
-----------------------------------------------------------------------------
\* multiplexor.c: a packet is written, or the write fails; a closed link goes
\* with its last packet, or by setup_polls.  mpx_close_handler calls the
\* hangup handler and frees the session.
RemoveLink == link' = "removed" /\ session' = FALSE

LinkOutput ==
    /\ control = "poll" /\ link \in {"open", "closed"}
    /\ \/ packets > 0 /\ packets' = packets - 1
          /\ IF packets' = 0 /\ link = "closed" THEN RemoveLink ELSE UNCHANGED <<link, session>>
       \/ packets > 0 /\ packets' = 0 /\ RemoveLink
       \/ packets = 0 /\ link = "closed" /\ RemoveLink /\ UNCHANGED packets
    /\ UNCHANGED <<stream, regexp, taken, buffer, control, partial, handled>>

SessionNext == Open \/ SessionInput \/ InputNoMemory \/ InputEnds \/ Request \/ LoopEnds \/ LinkOutput

SessionSpec == SessionInit /\ [][SessionNext]_svars
-----------------------------------------------------------------------------
\* The record of the stream at a position: what matches there in the whole stream
RecordAt(from) == LET m == PcreExec(regexp, stream, from, FALSE) IN
    [from |-> from, text |-> SubSeq(stream, from + 1, m.end),
     caps |-> [j \in 1 .. m.count |->
        IF m.caps[j][1] = -1 THEN << >> ELSE SubSeq(stream, m.caps[j][1] + 1, m.caps[j][2])]]

\* "rhandler for every input record that matches regexp": whatever packets the
\* bytes arrive in, and wherever the buffer slides, the handler gets the
\* records of the stream and their captures, each where the one before ends.
RequestsAreRight == \A k \in 1 .. Len(handled) :
    /\ handled[k].from = IF k = 1 THEN 0 ELSE EndOf(k - 1)
    /\ PcreExec(regexp, stream, handled[k].from, FALSE).kind = "match"
    /\ handled[k] = RecordAt(handled[k].from)

\* The buffer holds what was read and not yet handled, inside its room.
BufferHoldsTheRest ==
    /\ buffer.offset <= Len(buffer.s) /\ Len(buffer.s) <= buffer.a
    /\ SubSeq(buffer.s, buffer.offset + 1, Len(buffer.s)) = SubSeq(stream, Done + 1, taken)

\* When the input handler returns no complete request waits in the buffer:
\* nothing would wake it up before more input arrives.
NoRequestLeftBehind ==
    control = "poll" /\ session /\ Rest > 0 =>
        PcreExec(regexp, buffer.s, buffer.offset, TRUE).kind # "match"

\* "assert(start >= 0 && len <= s->request_len)": the captures of a request
\* can be scanned, wherever in the buffer it begins.  It does not hold for one
\* that is not set in a later request.  No run checks it.
CapturesCanBeScanned == control # "aborted"
=============================================================================
