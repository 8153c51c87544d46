------------------------------- MODULE Matcher -------------------------------
(***************************************************************************)
(* What mpx_session.c and inbuf_scan.c rely on of pcre_exec when they give *)
(* it a stream portion by portion.  The matcher is a parameter: a match    *)
(* has its end, count captures and the captures noted by callouts, each a  *)
(* pair of positions that are -1 if it is not set.  Pcre is one such       *)
(* matcher.                                                                *)
(***************************************************************************)
EXTENDS Integers, Sequences

CONSTANTS
    Chars,      \* the characters
    Streams,    \* the streams, sequences of characters
    Patterns,   \* the patterns
    PcreExec(_, _, _, _)    \* pcre_exec for a pattern, a subject, an offset, and
                            \* whether PCRE_PARTIAL_HARD is given

ASSUME StreamsAssumption == Streams \subseteq Seq(Chars)

\* The pair c is the pair e in a subject that begins d later.
SamePair(c, e, d) == IF e[1] = -1 THEN c[1] = -1 ELSE c[1] = e[1] - d /\ c[2] = e[2] - d

\* The results m and w are the same, m for a subject that begins d later.
SameMatch(m, w, d) ==
    /\ m.kind = w.kind
    /\ w.kind = "match" =>
         /\ m.end = w.end - d /\ m.count = w.count /\ Len(m.calls) = Len(w.calls)
         /\ \A k \in 1 .. w.count : SamePair(m.caps[k], w.caps[k], d)
         /\ \A k \in 1 .. Len(w.calls) : SamePair(m.calls[k], w.calls[k], d)

PairWithin(c, from, end) == c[1] = -1 \/ (c[1] \in from .. end /\ c[2] \in c[1] .. end)

\* A match that begins at `from' lies in the first n characters, with its captures.
LiesWithin(m, from, n) ==
    m.kind = "match" =>
        /\ m.end \in from .. n /\ m.count \in Nat /\ Len(m.calls) \in Nat
        /\ \A k \in 1 .. m.count : PairWithin(m.caps[k], from, m.end)
        /\ \A k \in 1 .. Len(m.calls) : PairWithin(m.calls[k], from, m.end)

\* PCRE_ANCHORED, for subjects that are pieces of a stream: the result does not
\* depend on what precedes the offset; a partial match is returned only if it is
\* asked for, and if it is, any other result remains the result when more
\* follows.  A pattern that looks behind its beginning, or asks for the end of
\* what has arrived, is not covered.
ASSUME Matching ==
    \A t \in Streams, q \in Patterns : \A n \in 0 .. Len(t) : \A from \in 0 .. n, hard \in BOOLEAN :
        LET m == PcreExec(q, SubSeq(t, 1, n), from, hard) IN
          /\ LiesWithin(m, from, n)
          /\ m.kind \in {"match", "nomatch"} \cup IF hard THEN {"partial"} ELSE {}
          /\ \A b \in 0 .. from : SameMatch(PcreExec(q, SubSeq(t, b + 1, n), from - b, hard), m, b)
          /\ hard /\ from < n /\ m.kind # "partial" =>
               \A l \in n .. Len(t), h \in BOOLEAN : PcreExec(q, SubSeq(t, 1, l), from, h) = m
=============================================================================
