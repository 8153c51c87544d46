-------------------------------- MODULE Pcre --------------------------------
(***************************************************************************)
(* What the library relies on of pcre_exec: anchored, backtracking         *)
(* matching with captures, callouts and hard partial matching.  A pattern  *)
(* is a tree of the nodes below; a subject is a sequence of symbols.       *)
(***************************************************************************)
EXTENDS Integers, Sequences

Chr(S) == [op |-> "chr", set |-> S]
Cat(l, r) == [op |-> "cat", l |-> l, r |-> r]
Alt(l, r) == [op |-> "alt", l |-> l, r |-> r]
Empty == [op |-> "empty"]
Opt(r) == Alt(r, Empty)
Star(r) == [op |-> "star", r |-> r]
Plus(r) == Cat(r, Star(r))
Cap(n, r) == [op |-> "cap", n |-> n, r |-> r]
Callout == [op |-> "callout"]
End == [op |-> "eos"]

Unset == <<-1, -1>>

\* A state of the matcher: the position in the subject, ovector without its
\* first pair, the last capture and the captures noted by callouts so far.
Fails(st) == [kind |-> "nomatch", calls |-> st.calls]

\* The member of a singleton; a set binds a value that TLC is to compute once.
The(S) == CHOOSE x \in S : TRUE

RECURSIVE Run(_, _, _, _, _)
\* Match the list of nodes `todo' from the state st on, the greedy choice
\* first.  With `hard', looking beyond the end of the subject ends the whole
\* match as soon as something was inspected (PCRE_PARTIAL_HARD).
Run(todo, s, from, hard, st) ==
    IF todo = << >> THEN [kind |-> "match", end |-> st.pos, caps |-> st.caps, calls |-> st.calls]
    ELSE LET r == Head(todo)
             rest == Tail(todo)
             Go(nodes, state) == Run(nodes \o rest, s, from, hard, state)
             First(a, b) == The({IF res.kind = "nomatch" THEN Go(b, [st EXCEPT !.calls = res.calls])
                                 ELSE res : res \in {Go(a, st)}})
         IN CASE r.op = "chr" ->
                   IF st.pos >= Len(s)
                   THEN IF hard /\ st.pos > from THEN [kind |-> "partial"] ELSE Fails(st)
                   ELSE IF s[st.pos + 1] \in r.set
                        THEN Go(<< >>, [st EXCEPT !.pos = @ + 1]) ELSE Fails(st)
              [] r.op = "eos" -> IF st.pos = Len(s) THEN Go(<< >>, st) ELSE Fails(st)
              [] r.op = "cat" -> Go(<<r.l, r.r>>, st)
              [] r.op = "alt" -> First(<<r.l>>, <<r.r>>)
              [] r.op = "star" -> First(<<r.r, r>>, << >>)
              [] r.op = "empty" -> Go(<< >>, st)
              [] r.op = "cap" -> Go(<<r.r, [op |-> "end", n |-> r.n, start |-> st.pos]>>, st)
              [] r.op = "end" -> Go(<< >>, [st EXCEPT !.caps[r.n] = <<r.start, st.pos>>,
                                                      !.last = <<r.start, st.pos>>])
              [] r.op = "callout" -> Go(<< >>, [st EXCEPT !.calls = Append(@, st.last)])

\* pcre_exec on the subject s from the offset `from' for a pattern with n
\* captures.  `count' is its result minus one: trailing captures that are
\* unset are not counted.
Exec(pattern, n, s, from, hard) ==
    LET start == [pos |-> from, caps |-> [k \in 1 .. n |-> Unset], last |-> Unset, calls |-> << >>]
        Counted(res) == CHOOSE k \in 0 .. n : /\ k = 0 \/ res.caps[k] # Unset
                                              /\ \A j \in k + 1 .. n : res.caps[j] = Unset
    IN The({IF res.kind # "match" THEN [kind |-> res.kind]
            ELSE [kind |-> "match", end |-> res.end, caps |-> res.caps, calls |-> res.calls,
                  count |-> Counted(res)] : res \in {Run(<<pattern>>, s, from, hard, start)}})
=============================================================================
