------------------------------- MODULE Lists -------------------------------
(***************************************************************************)
(* The lists of multiplexor.c and udp_session.c: what stays of a list when *)
(* links are removed, and what poll reports of the pollfds of its links.   *)
(* Only(s, S) is SelectSeq(s, LAMBDA e : e \in S), written out because an  *)
(* operator that takes an operator cannot be reasoned about with TLAPS.    *)
(***************************************************************************)
EXTENDS Naturals, SequencesExt

\* The members of S among those of s, in the order of s
Only(s, S) ==
    LET kept[i \in 0 .. Len(s)] ==
          IF i = 0 THEN << >>
          ELSE IF s[i] \in S THEN Append(kept[i - 1], s[i]) ELSE kept[i - 1]
    IN kept[Len(s)]

\* What is done for a link, in this order: POLLIN, POLLOUT
In(c) == <<"in", c>>
Out(c) == <<"out", c>>

JobsOf(links) == [k \in 1 .. 2 * Len(links) |->
    IF k % 2 = 1 THEN In(links[(k + 1) \div 2]) ELSE Out(links[k \div 2])]
=============================================================================
