---------------------------- MODULE MCInbufScan ----------------------------
(* All streams of up to 4 characters, the longer ones that begin with a     *)
(* digit, and three patterns for TLC.                                       *)
EXTENDS InbufScan, Pcre

AllChars == {"1", ".", "\n"}
AllStreams == UNION {[1 .. n -> AllChars] : n \in 0 .. 4} \cup {s \in [1 .. 5 -> AllChars] : s[1] = "1"}

Digits == Plus(Chr({"1"}))
\* (\d+)(?:\.(\d+))?
Number == [captures |-> 2, callouts |-> FALSE,
           pattern |-> Cat(Cap(1, Digits), Opt(Cat(Chr({"."}), Cap(2, Digits))))]
\* (?:(1)\.)?([^\n]*)\n
TaggedLine == [captures |-> 2, callouts |-> FALSE,
               pattern |-> Cat(Opt(Cat(Cap(1, Chr({"1"})), Chr({"."}))),
                               Cat(Cap(2, Star(Chr(AllChars \ {"\n"}))), Chr({"\n"})))]
\* (1*)(?C)(?:\.(1*)(?C))*\n
Fields == LET Field(n) == Cat(Cap(n, Star(Chr({"1"}))), Callout)
          IN [captures |-> 2, callouts |-> TRUE,
              pattern |-> Cat(Field(1), Cat(Star(Cat(Chr({"."}), Field(2))), Chr({"\n"})))]

AllPatterns == {Number, TaggedLine, Fields}
ExecOf(q, s, from, hard) == Exec(q.pattern, q.captures, s, from, hard)
CalloutsIn(q) == q.callouts
=============================================================================
