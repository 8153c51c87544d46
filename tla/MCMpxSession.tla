---------------------------- MODULE MCMpxSession ----------------------------
(* Streams of up to 3 requests, complete or not, and two patterns for TLC.  *)
EXTENDS MpxSession, Pcre

Pieces == {<<"d", "n">>, <<"d", "d", "n">>, <<"g", "d", "n">>, <<"d">>, <<"x">>}
AllStreams == UNION {{a, a \o b, a \o b \o c} : a, b, c \in Pieces}

Digits == Plus(Chr({"d"}))
\* (?:(g))?(\d+)\n
Command == [captures |-> 2, pattern |-> Cat(Opt(Cap(1, Chr({"g"}))), Cat(Cap(2, Digits), Chr({"n"})))]
\* (\d+|g|\n)
Token == [captures |-> 1, pattern |-> Cap(1, Alt(Digits, Chr({"g", "n"})))]
AllPatterns == {Command, Token}
ExecOf(q, s, from, hard) == Exec(q.pattern, q.captures, s, from, hard)
=============================================================================
