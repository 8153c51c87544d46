----------------------------- MODULE InputStream -----------------------------
(***************************************************************************)
(* What inbuf, inbuf_readline and inbuf_scan promise to their caller: a    *)
(* stream of characters that is consumed from its beginning, whatever      *)
(* portions it arrives in.  Nothing of this is about buffers.              *)
(***************************************************************************)
EXTENDS Matcher

CONSTANTS
    HasCallouts(_),  \* whether a pattern is scanned with callouts
    MaxRead          \* bound on the size passed to inbuf_read

VARIABLES stream, at, result

svars == <<stream, at, result>>

Start == stream \in Streams /\ at = 0 /\ result = [op |-> "none", value |-> << >>]

Rest == SubSeq(stream, at + 1, Len(stream))

\* n characters are consumed by an operation that delivers `value'
Consume(n, op, value) ==
    /\ at' = at + n /\ result' = [op |-> op, value |-> value]
    /\ UNCHANGED stream

ReadSome == \E size \in 1 .. MaxRead : \E n \in 1 .. size :
    n <= Len(Rest) /\ Consume(n, "read", SubSeq(Rest, 1, n))

AtEnd == Rest = << >> /\ (Consume(0, "read", << >>) \/ Consume(0, "char", << >>))

GetChar == Rest # << >> /\ Consume(1, "char", <<Head(Rest)>>)

\* The last character that was read may be read again.
PutBack ==
    \/ at > 0 /\ Consume(-1, "back", << >>)
    \/ (result.op \in {"read", "char"} => result.value = << >>) /\ Consume(0, "noback", << >>)

\* A line ends with its terminator, which is not delivered, or with the stream.
GetLine == \E n \in 0 .. Len(Rest) :
    /\ \A k \in 1 .. n : Rest[k] # "\n"
    /\ \/ n < Len(Rest) /\ Rest[n + 1] = "\n" /\ Consume(n + 1, "line", SubSeq(Rest, 1, n))
       \/ n = Len(Rest) /\ Consume(n, "lastline", Rest)

\* A scan sees all that will ever arrive.  Captures are delivered, or the
\* callouts in their order until one of them wants no more; a scan that fails
\* consumes an unspecified part of the stream.  At the end of the stream a
\* scan fails even if its pattern matches the empty string.
Scan(q) == \E m \in {PcreExec(q, Rest, 0, FALSE)} :
    LET Texts(pairs, n) == [k \in 1 .. n |->
            IF pairs[k][1] = -1 THEN << >> ELSE SubSeq(Rest, pairs[k][1] + 1, pairs[k][2])] IN
       \/ /\ m.kind = "match" /\ Rest # << >> /\ ~HasCallouts(q)
          /\ Consume(m.end, "scan", Texts(m.caps, m.count))
       \/ /\ m.kind = "match" /\ Rest # << >> /\ HasCallouts(q)
          /\ \/ Consume(m.end, "scan", Texts(m.calls, Len(m.calls)))
             \/ \E k \in 1 .. Len(m.calls) : Consume(m.end, "stopped", Texts(m.calls, k))
       \/ (m.kind = "nomatch" \/ Rest = << >>) /\ \E n \in 0 .. Len(Rest) : Consume(n, "failed", << >>)

\* An operation that needs memory fails, or a pattern does not compile.
NoMemory == \E n \in 0 .. Len(Rest) : Consume(n, "nomemory", << >>)

Serve == \/ ReadSome \/ AtEnd \/ GetChar \/ PutBack \/ GetLine \/ NoMemory
         \/ \E q \in Patterns : Scan(q)

StreamSpec == Start /\ [][Serve]_svars
=============================================================================
