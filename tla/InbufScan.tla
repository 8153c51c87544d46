------------------------------ MODULE InbufScan ------------------------------
(***************************************************************************)
(* inbuf.c, inbuf_readline.c, inbuf_sareadline.c and inbuf_scan.c: an      *)
(* input buffer is filled by read in portions nobody controls; lines are   *)
(* collected character by character, and a regular expression is tried on  *)
(* one portion after the other until it matches or fails.  The stream ends *)
(* by its end or by an error that persists.                                *)
(***************************************************************************)
EXTENDS Matcher

CONSTANTS
    HasCallouts(_), MaxRead,  \* see InputStream
    MaxFill,    \* ibuf->buf.a, the room for one filling
    High        \* the characters that are negative as a char

ASSUME InbufBounds == MaxRead \in Nat /\ MaxFill \in Nat \ {0}

VARIABLES
    source,     \* what comes from the descriptor
    ibuf,       \* the inbuf: its filling s, pos, and how much was taken from the source
    call,       \* idle, scan or line (inside a call), aborted (by an assertion)
    regex,      \* the pattern of the call
    input,      \* handle->input, or the line so far
    result,     \* of the last call
    begun,      \* history: the position in the source when the call began
    runs        \* history: runs of the loop so far in this call

ivars == <<source, ibuf, call, regex, input, result, begun, runs>>

Left(ib) == Len(ib.s) - ib.pos
Unread(ib) == SubSeq(ib.s, ib.pos + 1, Len(ib.s))
Consumed == ibuf.taken - Left(ibuf)
NoPattern == << >>

InbufInit ==
    /\ source \in Streams /\ ibuf = [s |-> << >>, pos |-> 0, taken |-> 0]
    /\ call = "idle" /\ regex = NoPattern /\ input = << >>
    /\ result = [op |-> "none", value |-> << >>] /\ begun = 0 /\ runs = 0

Return(ib, op, value) ==
    /\ ibuf' = ib /\ call' = "idle" /\ regex' = NoPattern /\ input' = << >>
    /\ result' = [op |-> op, value |-> value] /\ begun' = ib.taken - Left(ib) /\ runs' = 0
    /\ UNCHANGED source

\* inbuf_read: the buffers after its first half, which fills an exhausted
\* buffer with what read delivers, or leaves it at the end of the stream
Filled(ib) ==
    IF ib.pos < Len(ib.s) \/ ib.taken = Len(source) THEN {ib}
    ELSE {[s |-> SubSeq(source, ib.taken + 1, ib.taken + n), pos |-> 0, taken |-> ib.taken + n] :
          n \in {k \in 1 .. MaxFill : ib.taken + k <= Len(source)}}

\* inbuf_read
Read == \E size \in 1 .. MaxRead, ib \in Filled(ibuf) :
    LET n == IF size < Left(ib) THEN size ELSE Left(ib)
    IN call = "idle" /\ Return([ib EXCEPT !.pos = @ + n], "read", SubSeq(Unread(ib), 1, n))

\* inbuf_getchar: a character, or nothing if it returns a negative value
CharOf(ib) == IF Left(ib) = 0 \/ Head(Unread(ib)) \in High THEN << >> ELSE <<Head(Unread(ib))>>
Advanced(ib) == IF Left(ib) = 0 THEN ib ELSE [ib EXCEPT !.pos = @ + 1]

Getchar == \E ib \in Filled(ibuf) : call = "idle" /\ Return(Advanced(ib), "char", CharOf(ib))

\* inbuf_back
Back ==
    /\ call = "idle"
    /\ IF ibuf.pos = 0 THEN Return(ibuf, "noback", << >>)
       ELSE Return([ibuf EXCEPT !.pos = @ - 1], "back", << >>)
-----------------------------------------------------------------------------
Call(op, q) ==
    /\ call = "idle" /\ call' = op /\ regex' = q
    /\ UNCHANGED <<source, ibuf, input, result, begun, runs>>

\* The loop of inbuf_sareadline, and of inbuf_readline: the next character.
\* The former returns false at the end of the stream, the latter what it has.
NextOfLine(ib) ==
    LET ch == CharOf(ib)
    IN \/ ch = << >> /\ Return(Advanced(ib), "lastline", input)
       \/ ch = <<"\n">> /\ Return(Advanced(ib), "line", input)
       \/ /\ ch \notin {<< >>, <<"\n">>}
          /\ input' = input \o ch /\ ibuf' = Advanced(ib)
          /\ runs' = runs + 1 /\ UNCHANGED <<source, call, regex, result, begun>>

\* inbuf_readline and inbuf_sareadline
Line == call = "line" /\ \E ib \in Filled(ibuf) : NextOfLine(ib)

\* malloc, realloc or stralloc_... fail within a call, which returns 0, false or -1
OutOfMemory == call \in {"line", "scan"} /\ Return(ibuf, "nomemory", << >>)

\* inbuf_scan_prepare fails, as the pattern does not compile, or
\* inbuf_scan_study, which only scans with callouts need: -1 is returned
\* before anything was read
NotYetRun == call = "scan" /\ input = << >> /\ runs = 0
PrepareFails == NotYetRun /\ Return(ibuf, "nomemory", << >>)
StudyFails == NotYetRun /\ HasCallouts(regex) /\ Return(ibuf, "nomemory", << >>)
-----------------------------------------------------------------------------
\* inbuf_scan_exec: the buffers after the look for more input, a getchar that
\* is taken back if it returned no negative value
Looked == IF Left(ibuf) > 0 THEN {ibuf}
          ELSE {IF CharOf(ib) = << >> THEN Advanced(ib) ELSE ib : ib \in Filled(ibuf)}

\* Wrong on purpose: what the match did not use is gone.
AfterMatchAll(ib, end) == [ib EXCEPT !.pos = Len(ib.s)]

\* ibuf->pos += pos - offset; offset is the length of the earlier portions
AfterMatch(ib, end) == [ib EXCEPT !.pos = @ + end - Len(input)]

\* inbuf_scan: the captures, an empty string for one that is not set
Captured(m, inp) == [k \in 1 .. m.count |->
    IF m.caps[k][1] = -1 THEN << >> ELSE SubSeq(inp, m.caps[k][1] + 1, m.caps[k][2])]

\* pcre_callout_handler: what it notes of the callouts of a run.  reset_handler
\* drops the notes of the run before.
Recorded(m, inp) == [k \in 1 .. Len(m.calls) |->
    IF m.calls[k][1] = -1 THEN << >> ELSE SubSeq(inp, m.calls[k][1] + 1, m.calls[k][2])]

\* inbuf_scan_with_callouts: the callouts are delivered after the match, up to
\* one that returns a negative value
Delivered(ib, calls) ==
    \/ Return(ib, "scan", calls)
    \/ \E k \in 1 .. Len(calls) : Return(ib, "stopped", SubSeq(calls, 1, k))

\* Wrong on purpose: a partial match is asked for at the end of the stream, too.
PartialAlways(eof) == TRUE

\* if (!eof) options |= PCRE_PARTIAL_HARD | PCRE_NOTEOL
Partial(eof) == ~eof

\* One run of the loop in inbuf_scan_exec up to pcre_exec and, at its end,
\* the delivery of captures or callouts.  If nothing was ever added, input->s
\* is a null pointer, which pcre_exec refuses whatever the pattern is.
RunExec(ib) == \E inp \in {input \o Unread(ib)} :
    \E m \in {PcreExec(regex, inp, 0, Partial(Left(ib) = 0))} :
       \/ /\ m.kind = "match" /\ inp # << >> /\ Len(input) <= m.end /\ m.end <= Len(input) + Left(ib)
          /\ \/ ~HasCallouts(regex) /\ Return(AfterMatch(ib, m.end), "scan", Captured(m, inp))
             \/ HasCallouts(regex) /\ Delivered(AfterMatch(ib, m.end), Recorded(m, inp))
       \/ \* assert(pos >= offset && pos - offset <= left)
          /\ m.kind = "match" /\ inp # << >> /\ ~(Len(input) <= m.end /\ m.end <= Len(input) + Left(ib))
          /\ call' = "aborted" /\ UNCHANGED <<source, ibuf, regex, input, result, begun, runs>>
       \/ (m.kind = "nomatch" \/ inp = << >>) /\ Return(ib, "failed", << >>)
       \/ /\ m.kind = "partial"
          /\ input' = inp /\ ibuf' = [ib EXCEPT !.pos = Len(ib.s)]
          /\ runs' = runs + 1 /\ UNCHANGED <<source, call, regex, result, begun>>

ScanStep == call = "scan" /\ \E ib \in Looked : RunExec(ib)

InbufNext ==
    \/ Read \/ Getchar \/ Back \/ Call("line", NoPattern) \/ Line
    \/ OutOfMemory \/ PrepareFails \/ StudyFails
    \/ \E q \in Patterns : Call("scan", q)
    \/ ScanStep

InbufSpec == InbufInit /\ [][InbufNext]_ivars
-----------------------------------------------------------------------------
\* The caller sees what was consumed before the call until it returns.
Abstract == INSTANCE InputStream
    WITH stream <- source, at <- IF call = "idle" THEN Consumed ELSE begun

\* Whatever portions the stream arrives in, every operation delivers what it
\* would deliver if the whole stream were there at once, and consumes as much:
\* a scan over several portions gives back what it has read too far, callouts
\* of earlier runs are not delivered, and no character is lost or seen twice.
ImplementsStream == Abstract!StreamSpec

\* A loop goes on only if its last run has brought more of the stream, so
\* every call returns: a partial match at the end does not wait for more.
EveryRunBringsInput == runs <= Len(input)

\* "assert(pos >= offset && pos - offset <= left)": a match ends in the
\* portion that was added last.  It does not hold for (\d+)(?:\.(\d+))? on "1.".
\* No run checks it.
MatchEndsInLastPortion == call # "aborted"
=============================================================================
