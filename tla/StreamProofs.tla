---------------------------- MODULE StreamProofs ----------------------------
(***************************************************************************)
(* What is done with streams of bytes, for any number of connections,      *)
(* streams of any length, in whatever portions they arrive, and any        *)
(* matcher that does what Matching asks for:                               *)
(*  - the multiplexor: DispatchIsSafe and PendingOutputIsKept, whatever    *)
(*    the handlers write to and close and whenever peers connect, send and *)
(*    hang up;                                                             *)
(*  - the sessions on top of it: RequestsAreRight, BufferHoldsTheRest and  *)
(*    NoRequestLeftBehind;                                                 *)
(*  - the input buffers: EveryRunBringsInput, and that their operations    *)
(*    implement those of a stream that is there as a whole.                *)
(***************************************************************************)
EXTENDS Multiplexor, MpxSession, InbufScan, SequenceTheorems, FiniteSetTheorems, WellFoundedInduction, TLAPS
-----------------------------------------------------------------------------
(* Lists.  The prover has no induction, but every set of numbers that is   *)
(* not empty has a least one, which does for a fixed set.                  *)

\* A set of numbers that is not empty has a least one.
LEMMA LeastNumber == ASSUME NEW S \in SUBSET Nat, S # {} PROVE \E x \in S : \A y \in S : x <= y
<1>1. PICK x \in S : \A y \in S : ~ (<<y, x>> \in OpToRel(<, Nat))
  BY NatLessThanWellFounded, WFMin
<1>2. \A y \in S : ~(y < x)
  BY <1>1 DEF OpToRel
<1> QED BY <1>2

\* The equations of the function in the definition of Only, up to element n
OnlyAt(f, s, S, i) == IF i = 0 THEN << >> ELSE IF s[i] \in S THEN Append(f[i - 1], s[i]) ELSE f[i - 1]
Kept(f, s, S, n) == f = [i \in 0 .. n |-> OnlyAt(f, s, S, i)]

\* The members of r are those of the first n members of s that are in S, in
\* the order of s; pos says where they come from.
Picks(r, s, S, n, pos) ==
    /\ pos \in [1 .. Len(r) -> 1 .. n]
    /\ \A k, l \in 1 .. Len(r) : k < l => pos[k] < pos[l]
    /\ \A k \in 1 .. Len(r) : r[k] = s[pos[k]] /\ r[k] \in S
    /\ \A i \in 1 .. n : s[i] \in S => \E k \in 1 .. Len(r) : pos[k] = i

\* They have a solution: suppose not, and look at the least n without one.
LEMMA KeptExists == ASSUME NEW s, NEW S, NEW n \in Nat PROVE \E f : Kept(f, s, S, n)
<1> DEFINE Bad == {m \in Nat : ~ \E f : Kept(f, s, S, m)}
<1> SUFFICES ASSUME n \in Bad PROVE FALSE
  OBVIOUS
<1>1. PICK m \in Bad : \A l \in Bad : m <= l
  BY LeastNumber
<1>2. CASE m = 0
  <2>1. Kept([i \in 0 .. 0 |-> << >>], s, S, 0)
    BY DEF Kept, OnlyAt
  <2> QED BY <1>1, <1>2, <2>1
<1>3. CASE m # 0
  <2>1. m - 1 \in Nat /\ m - 1 \notin Bad
    BY <1>1, <1>3
  <2>2. PICK g : Kept(g, s, S, m - 1)
    BY <2>1
  <2> DEFINE h == [i \in 0 .. m |-> IF i = m THEN IF s[m] \in S THEN Append(g[m - 1], s[m]) ELSE g[m - 1] ELSE g[i]]
  <2>3. \A i \in 0 .. m - 1 : h[i] = g[i]
    BY <2>1
  <2>4. ASSUME NEW i \in 0 .. m PROVE h[i] = OnlyAt(h, s, S, i)
    <3>1. CASE i = m
      BY <1>3, <2>1, <2>3, <3>1 DEF OnlyAt
    <3>2. CASE i # m
      <4>1. i \in 0 .. m - 1 /\ (i # 0 => i - 1 \in 0 .. m - 1)
        BY <2>1, <3>2
      <4>2. g[i] = OnlyAt(g, s, S, i)
        BY <2>2, <4>1 DEF Kept
      <4> HIDE DEF h
      <4> QED BY <2>3, <4>1, <4>2 DEF OnlyAt
    <3> QED BY <3>1, <3>2
  <2>5. h = [i \in 0 .. m |-> h[i]]
    OBVIOUS
  <2>6. Kept(h, s, S, m)
    <3> HIDE DEF h
    <3> QED BY <2>4, <2>5 DEF Kept
  <2> QED BY <1>1, <2>6
<1> QED BY <1>2, <1>3

\* Whoever solves them picks the members of S, in order.
LEMMA KeptPicks ==
  ASSUME NEW T, NEW s \in Seq(T), NEW S, NEW f, Kept(f, s, S, Len(s))
  PROVE  f[Len(s)] \in Seq(T) /\ \E pos : Picks(f[Len(s)], s, S, Len(s), pos)
<1> DEFINE Good(n) == f[n] \in Seq(T) /\ \E pos : Picks(f[n], s, S, n, pos)
           Bad == {m \in 0 .. Len(s) : ~Good(m)}
<1>0. Len(s) \in Nat
  OBVIOUS
<1> SUFFICES ASSUME Len(s) \in Bad PROVE FALSE
  BY <1>0
<1>1. PICK m \in Bad : \A l \in Bad : m <= l
  <2>1. Bad \in SUBSET Nat /\ Bad # {}
    BY <1>0
  <2> QED BY <2>1, LeastNumber
<1>2. CASE m = 0
  <2>1. f[0] = << >>
    <3>1. f[0] = OnlyAt(f, s, S, 0)
      BY <1>0 DEF Kept
    <3> QED BY <3>1 DEF OnlyAt
  <2>2. Picks(<< >>, s, S, 0, << >>)
    BY DEF Picks
  <2>3. << >> \in Seq(T)
    OBVIOUS
  <2> QED BY <1>1, <1>2, <2>1, <2>2, <2>3
<1>3. CASE m # 0
  <2>1. m - 1 \in 0 .. Len(s) /\ m \in 1 .. Len(s) /\ m - 1 \notin Bad
    BY <1>0, <1>1, <1>3
  <2>2. f[m - 1] \in Seq(T)
    BY <2>1
  <2>3. PICK pos : Picks(f[m - 1], s, S, m - 1, pos)
    BY <2>1
  <2>4. f[m] = IF s[m] \in S THEN Append(f[m - 1], s[m]) ELSE f[m - 1]
    <3>1. f[m] = OnlyAt(f, s, S, m)
      BY <2>1 DEF Kept
    <3> QED BY <1>3, <3>1 DEF OnlyAt
  <2> DEFINE r == f[m - 1]
             n == Len(r)
  <2>5. n \in Nat /\ r \in Seq(T) /\ s[m] \in T
    BY <2>1, <2>2
  <2>6. CASE s[m] \notin S
    <3>1. Picks(r, s, S, m, pos)
      BY <2>1, <2>3, <2>6 DEF Picks
    <3> QED BY <1>1, <2>2, <2>4, <2>6, <3>1
  <2>7. CASE s[m] \in S
    <3> DEFINE q == Append(r, s[m])
               new == [k \in 1 .. n + 1 |-> IF k = n + 1 THEN m ELSE pos[k]]
    <3>1. q \in Seq(T) /\ Len(q) = n + 1 /\ q[n + 1] = s[m] /\ \A k \in 1 .. n : q[k] = r[k]
      BY <2>5, AppendProperties
    <3>2. pos \in [1 .. n -> 1 .. m - 1]
      BY <2>3 DEF Picks
    <3>3. new \in [1 .. n + 1 -> 1 .. m] /\ new[n + 1] = m /\ \A k \in 1 .. n : new[k] = pos[k] /\ new[k] < m
      <4> HIDE DEF n
      <4> QED BY <2>1, <2>5, <3>2
    <3> HIDE DEF r, n, q, new
    <3>4. ASSUME NEW k \in 1 .. n + 1, NEW l \in 1 .. n + 1, k < l PROVE new[k] < new[l]
      <4>1. k \in 1 .. n
        BY <2>5, <3>4
      <4>2. CASE l = n + 1
        BY <3>3, <4>1, <4>2
      <4>3. CASE l # n + 1
        <5>1. l \in 1 .. n
          BY <2>5, <3>4, <4>3
        <5>2. pos[k] < pos[l]
          BY <2>3, <3>4, <4>1, <5>1 DEF Picks, n, r
        <5> QED BY <3>3, <4>1, <5>1, <5>2
      <4> QED BY <4>2, <4>3
    <3>5. \A k \in 1 .. n + 1 : q[k] = s[new[k]] /\ q[k] \in S
      <4> SUFFICES ASSUME NEW k \in 1 .. n + 1 PROVE q[k] = s[new[k]] /\ q[k] \in S
        OBVIOUS
      <4>1. CASE k = n + 1
        BY <2>7, <3>1, <3>3, <4>1
      <4>2. CASE k # n + 1
        <5>1. k \in 1 .. n
          BY <2>5, <4>2
        <5>2. r[k] = s[pos[k]] /\ r[k] \in S
          BY <2>3, <5>1 DEF Picks, n, r
        <5> QED BY <3>1, <3>3, <5>1, <5>2
      <4> QED BY <4>1, <4>2
    <3>6. \A i \in 1 .. m : s[i] \in S => \E k \in 1 .. n + 1 : new[k] = i
      <4> SUFFICES ASSUME NEW i \in 1 .. m, s[i] \in S PROVE \E k \in 1 .. n + 1 : new[k] = i
        OBVIOUS
      <4>1. CASE i = m
        BY <2>5, <3>3, <4>1
      <4>2. CASE i # m
        <5>1. PICK k \in 1 .. n : pos[k] = i
          BY <2>1, <2>3, <4>2 DEF Picks, n, r
        <5> QED BY <2>5, <3>3, <5>1
      <4> QED BY <4>1, <4>2
    <3>7. Picks(q, s, S, m, new)
      BY <3>1, <3>3, <3>4, <3>5, <3>6 DEF Picks
    <3> QED BY <1>1, <2>4, <2>7, <3>1, <3>7 DEF q, r
  <2> QED BY <2>6, <2>7
<1> QED BY <1>2, <1>3

\* Only picks the members of S, in order.
LEMMA OnlyPicks ==
  ASSUME NEW T, NEW s \in Seq(T), NEW S
  PROVE  Only(s, S) \in Seq(T) /\ \E pos : Picks(Only(s, S), s, S, Len(s), pos)
<1> DEFINE f == CHOOSE g : Kept(g, s, S, Len(s))
<1>1. Kept(f, s, S, Len(s))
  BY KeptExists
<1>2. Only(s, S) = f[Len(s)]
  BY Zenon DEF Only, Kept, OnlyAt
<1> QED BY <1>1, <1>2, KeptPicks

\* What is left of a list without duplicates has none, and nothing is lost.
LEMMA OnlyMembers ==
  ASSUME NEW T, NEW s \in Seq(T), IsInjective(s), NEW S
  PROVE  /\ Only(s, S) \in Seq(T) /\ IsInjective(Only(s, S))
         /\ \A c : Contains(Only(s, S), c) <=> Contains(s, c) /\ c \in S
<1> DEFINE r == Only(s, S)
<1>1. r \in Seq(T)
  BY OnlyPicks
<1>2. PICK pos : Picks(r, s, S, Len(s), pos)
  BY OnlyPicks
<1> HIDE DEF r
<1>3. Len(r) \in Nat /\ DOMAIN r = 1 .. Len(r) /\ Len(s) \in Nat /\ DOMAIN s = 1 .. Len(s)
  BY <1>1
<1>4. IsInjective(r)
  <2> SUFFICES ASSUME NEW k \in 1 .. Len(r), NEW l \in 1 .. Len(r), r[k] = r[l], k < l PROVE FALSE
    BY <1>3 DEF IsInjective
  <2>1. pos[k] \in 1 .. Len(s) /\ pos[l] \in 1 .. Len(s) /\ pos[k] < pos[l] /\ s[pos[k]] = s[pos[l]]
    BY <1>2 DEF Picks
  <2>2. pos[k] = pos[l]
    BY <1>3, <2>1 DEF IsInjective
  <2> QED BY <2>1, <2>2
<1>5. ASSUME NEW c PROVE Contains(r, c) <=> Contains(s, c) /\ c \in S
  <2>1. ASSUME Contains(r, c) PROVE Contains(s, c) /\ c \in S
    BY <1>2, <2>1 DEF Contains, Picks
  <2>2. ASSUME Contains(s, c), c \in S PROVE Contains(r, c)
    <3>1. PICK i \in 1 .. Len(s) : s[i] = c
      BY <2>2 DEF Contains
    <3>2. PICK k \in 1 .. Len(r) : pos[k] = i
      BY <1>2, <2>2, <3>1 DEF Picks
    <3> QED BY <1>2, <3>1, <3>2 DEF Contains, Picks
  <2> QED BY <2>1, <2>2
<1> QED BY <1>1, <1>4, <1>5 DEF r

\* A list without duplicates is as long as the set of its members.
LEMMA LengthOfList ==
  ASSUME NEW T, NEW s \in Seq(T), IsInjective(s)
  PROVE  LET M == {c \in T : Contains(s, c)} IN IsFiniteSet(M) /\ Cardinality(M) = Len(s)
<1> DEFINE M == {c \in T : Contains(s, c)}
<1>1. Len(s) \in Nat /\ s \in [1 .. Len(s) -> T]
  OBVIOUS
<1>2. s \in Bijection(1 .. Len(s), M)
  BY <1>1 DEF Contains, Bijection, Injection, Surjection, IsInjective
<1>3. ExistsBijection(1 .. Len(s), M)
  BY <1>2 DEF ExistsBijection
<1>4. Cardinality(M) = Len(s)
  BY <1>1, <1>3, FS_CountingElements
<1>5. IsFiniteSet(M)
  BY <1>1, <1>3, FS_NatBijection
<1> QED BY <1>4, <1>5
-----------------------------------------------------------------------------
Jobs == {Accept} \cup {In(c) : c \in Conns} \cup {Out(c) : c \in Conns}

\* The multiplexor, its links and the peers have their types.
TypeOK ==
    /\ pc \in {"setup", "poll", "dispatch", "returned"} /\ socketok \in BOOLEAN
    /\ list \in Seq(Conns) /\ jobs \in Seq(Jobs)
    /\ eof \in [Conns -> BOOLEAN] /\ oq \in [Conns -> Seq(Nat)]
    /\ peer \in [Conns -> {"none", "waiting", "open", "closed"}]
    /\ wrote \in [Conns -> Nat] /\ closes \in [Conns -> Nat]

\* The list has no link twice, and mpx.count counts it.
ListIsRight == count = Len(list) /\ IsInjective(list)

\* Who is in the list was accepted, and its close handler was not called yet.
LinksAreRight == \A c \in Conns :
    /\ Linked(c) => peer[c] \in {"open", "closed"} /\ closes[c] = 0
    /\ closes[c] > 0 => peer[c] \in {"open", "closed"}

\* There are events only while they are handled.
JobsAreTimely ==
    /\ pc \in {"setup", "poll"} => jobs = << >>
    /\ pc = "dispatch" => jobs # << >>

\* Of a link there is at most one event of each kind, and the input is handled
\* before the output.
JobsAreOrdered == \A k, l \in 1 .. Len(jobs) :
    k < l /\ jobs[k] # Accept /\ jobs[l] # Accept /\ jobs[k][2] = jobs[l][2]
        => jobs[k][1] = "in" /\ jobs[l][1] = "out"

JobsAreSafe == \A k \in 1 .. Len(jobs) : jobs[k] # Accept =>
    Linked(jobs[k][2]) /\ (jobs[k][1] = "out" => oq[jobs[k][2]] # << >>)

\* The inductive invariant of the multiplexor
MpxInv == /\ TypeOK /\ ListIsRight /\ LinksAreRight /\ JobsAreTimely /\ JobsAreOrdered /\ JobsAreSafe
          /\ PendingOutputIsKept
-----------------------------------------------------------------------------
\* The kinds of events can be told apart.
LEMMA JobKinds ==
  /\ \A c \in Conns : In(c) # Accept /\ Out(c) # Accept /\ In(c) # Out(c)
  /\ \A c \in Conns : In(c)[1] = "in" /\ In(c)[2] = c /\ Out(c)[1] = "out" /\ Out(c)[2] = c
  /\ \A j \in Jobs : j # Accept => j[2] \in Conns /\ (j = In(j[2]) \/ j = Out(j[2]))
<1>1. \A c \in Conns : In(c)[1] = "in" /\ In(c)[2] = c /\ Out(c)[1] = "out" /\ Out(c)[2] = c
  BY DEF In, Out
<1>2. Accept[1] = "accept"
  BY DEF Accept
<1>3. \A c \in Conns : In(c) # Accept /\ Out(c) # Accept /\ In(c) # Out(c)
  BY <1>1, <1>2
<1>4. \A j \in Jobs : j # Accept => j[2] \in Conns /\ (j = In(j[2]) \/ j = Out(j[2]))
  BY <1>1 DEF Jobs
<1> QED BY <1>1, <1>3, <1>4

\* The multiplexor starts without links and events.
LEMMA MpxInit == Init => MpxInv
<1> SUFFICES ASSUME Init PROVE MpxInv
  OBVIOUS
<1> USE DEF Init
<1>1. TypeOK
  BY DEF TypeOK
<1>2. ListIsRight /\ LinksAreRight /\ JobsAreTimely
  BY DEF ListIsRight, LinksAreRight, JobsAreTimely, IsInjective, Linked, Contains
<1>3. JobsAreOrdered /\ JobsAreSafe /\ PendingOutputIsKept
  BY DEF JobsAreOrdered, JobsAreSafe, PendingOutputIsKept
<1> QED BY <1>1, <1>2, <1>3 DEF MpxInv

\* remove_link for links that are in the list
LEMMA UnlinkStep ==
  ASSUME MpxInv, NEW S \in SUBSET Conns, \A c \in S : Linked(c), Unlink(S)
  PROVE  /\ list' \in Seq(Conns) /\ ListIsRight'
         /\ \A c \in Conns : Linked(c)' <=> Linked(c) /\ c \notin S
         /\ closes' \in [Conns -> Nat]
         /\ \A c \in Conns : closes'[c] = IF c \in S THEN 1 ELSE closes[c]
<1> DEFINE M == {c \in Conns : Contains(list, c)}
           L == {c \in Conns : Contains(list', c)}
<1>1. list \in Seq(Conns) /\ IsInjective(list) /\ count = Len(list)
  BY DEF MpxInv, TypeOK, ListIsRight
<1>2. list' = Only(list, Conns \ S)
  BY DEF Unlink
<1>3. /\ list' \in Seq(Conns) /\ IsInjective(list')
      /\ \A c : Contains(list', c) <=> Contains(list, c) /\ c \in Conns \ S
  BY <1>1, <1>2, OnlyMembers
<1>4. L = M \ S /\ S \subseteq M
  BY <1>3 DEF Linked
<1>5. /\ IsFiniteSet(M) /\ Cardinality(M) = Len(list)
      /\ IsFiniteSet(L) /\ Cardinality(L) = Len(list')
  BY <1>1, <1>3, LengthOfList
<1>6. IsFiniteSet(S) /\ Cardinality(S) \in Nat /\ Cardinality(M \ S) = Cardinality(M) - Cardinality(S)
  <2>1. M \cap S = S
    BY <1>4
  <2>2. IsFiniteSet(S)
    BY <1>4, <1>5, FS_Subset
  <2>3. Cardinality(S) \in Nat
    BY <2>2, FS_CardinalityType
  <2>4. Cardinality(M \ S) = Cardinality(M) - Cardinality(M \cap S)
    <3> HIDE DEF M
    <3> QED BY <1>5, FS_Difference
  <2> QED BY <2>1, <2>2, <2>3, <2>4
<1>7. count' = Len(list')
  <2>1. count' = count - Cardinality(S)
    BY DEF Unlink
  <2> HIDE DEF M, L
  <2> QED BY <1>1, <1>4, <1>5, <1>6, <2>1
<1>8. closes' = [c \in Conns |-> closes[c] + IF c \in S THEN 1 ELSE 0]
  BY DEF Unlink
<1>9. \A c \in Conns : closes[c] \in Nat /\ (c \in S => closes[c] = 0)
  BY DEF MpxInv, TypeOK, LinksAreRight
<1> QED BY <1>3, <1>7, <1>8, <1>9 DEF ListIsRight, Linked

\* The loop over pollfds takes the next event.
LEMMA DispatchStep ==
  ASSUME MpxInv, NEW j, Dispatch(j)
  PROVE  /\ j \in Jobs /\ (j # Accept => Linked(j[2]) /\ (j[1] = "out" => oq[j[2]] # << >>))
         /\ jobs' \in Seq(Jobs) /\ pc' \in {"setup", "dispatch"}
         /\ JobsAreTimely' /\ JobsAreOrdered'
         /\ \A k \in 1 .. Len(jobs') : jobs'[k] # Accept =>
              /\ Linked(jobs'[k][2]) /\ (jobs'[k][1] = "out" => oq[jobs'[k][2]] # << >>)
              /\ j # Accept /\ jobs'[k][2] = j[2] => j[1] = "in" /\ jobs'[k][1] = "out"
<1>1. jobs \in Seq(Jobs) /\ jobs # << >> /\ j = Head(jobs) /\ jobs' = Tail(jobs)
  BY DEF Dispatch, MpxInv, TypeOK, JobsAreTimely
<1>2. Len(jobs) \in Nat \ {0} /\ j = jobs[1] /\ j \in Jobs
  BY <1>1
<1>3. /\ jobs' \in Seq(Jobs) /\ Len(jobs') = Len(jobs) - 1
      /\ \A k \in 1 .. Len(jobs') : jobs'[k] = jobs[k + 1]
  BY <1>1, HeadTailProperties
<1>4. \A k \in 1 .. Len(jobs') : k + 1 \in 1 .. Len(jobs) /\ 1 < k + 1
  BY <1>2, <1>3
<1>5. j # Accept => Linked(j[2]) /\ (j[1] = "out" => oq[j[2]] # << >>)
  BY <1>2 DEF MpxInv, JobsAreSafe
<1>6. pc' \in {"setup", "dispatch"} /\ JobsAreTimely'
  BY DEF Dispatch, JobsAreTimely
<1>7. JobsAreOrdered'
  <2> SUFFICES ASSUME NEW k \in 1 .. Len(jobs'), NEW l \in 1 .. Len(jobs'), k < l,
                      jobs'[k] # Accept, jobs'[l] # Accept, jobs'[k][2] = jobs'[l][2]
               PROVE  jobs'[k][1] = "in" /\ jobs'[l][1] = "out"
    BY DEF JobsAreOrdered
  <2>1. k + 1 \in 1 .. Len(jobs) /\ l + 1 \in 1 .. Len(jobs) /\ k + 1 < l + 1
    BY <1>2, <1>3
  <2>2. jobs'[k] = jobs[k + 1] /\ jobs'[l] = jobs[l + 1]
    BY <1>3
  <2>3. ASSUME NEW a \in 1 .. Len(jobs), NEW b \in 1 .. Len(jobs), a < b,
               jobs[a] # Accept, jobs[b] # Accept, jobs[a][2] = jobs[b][2]
        PROVE  jobs[a][1] = "in" /\ jobs[b][1] = "out"
    BY <2>3 DEF MpxInv, JobsAreOrdered
  <2> HIDE DEF MpxInv, JobsAreOrdered
  <2> QED BY <2>1, <2>2, <2>3
<1>8. ASSUME NEW k \in 1 .. Len(jobs'), jobs'[k] # Accept
      PROVE  /\ Linked(jobs'[k][2]) /\ (jobs'[k][1] = "out" => oq[jobs'[k][2]] # << >>)
             /\ j # Accept /\ jobs'[k][2] = j[2] => j[1] = "in" /\ jobs'[k][1] = "out"
  <2>1. jobs'[k] = jobs[k + 1] /\ k + 1 \in 1 .. Len(jobs) /\ 1 \in 1 .. Len(jobs) /\ 1 < k + 1
    BY <1>2, <1>3, <1>4
  <2>2. Linked(jobs'[k][2]) /\ (jobs'[k][1] = "out" => oq[jobs'[k][2]] # << >>)
    BY <1>8, <2>1 DEF MpxInv, JobsAreSafe
  <2>3. j # Accept /\ jobs'[k][2] = j[2] => j[1] = "in" /\ jobs'[k][1] = "out"
    BY <1>2, <1>8, <2>1 DEF MpxInv, JobsAreOrdered
  <2> QED BY <2>2, <2>3
<1> QED BY <1>2, <1>3, <1>5, <1>6, <1>7, <1>8

\* poll reports what it reports in the order of pollfds: of each link first the
\* input, then the output.
LEMMA JobsOfLinks ==
  ASSUME NEW s \in Seq(Conns), IsInjective(s), NEW R \in SUBSET Jobs, Accept \notin R
  PROVE  LET r == Only(JobsOf(s), R)
         IN /\ r \in Seq(Jobs)
            /\ \A k \in 1 .. Len(r) : r[k] # Accept /\ r[k] \in R /\ Contains(s, r[k][2])
            /\ \A k, l \in 1 .. Len(r) : k < l /\ r[k][2] = r[l][2] => r[k][1] = "in" /\ r[l][1] = "out"
<1> DEFINE js == JobsOf(s)
           r == Only(js, R)
<1>1. Len(s) \in Nat
  OBVIOUS
<1>2. /\ js = [k \in 1 .. 2 * Len(s) |-> IF k % 2 = 1 THEN In(s[(k + 1) \div 2]) ELSE Out(s[k \div 2])]
      /\ 2 * Len(s) \in Nat
  BY <1>1 DEF JobsOf
<1>3. \A k \in 1 .. 2 * Len(s) : /\ k % 2 = 1 => (k + 1) \div 2 \in 1 .. Len(s)
                                 /\ k % 2 # 1 => k \div 2 \in 1 .. Len(s)
  BY <1>1
<1>4. \A k \in 1 .. 2 * Len(s) : js[k] \in Jobs
  BY <1>2, <1>3 DEF Jobs
<1>5. js \in Seq(Jobs) /\ Len(js) = 2 * Len(s)
  BY <1>2, <1>4
<1> HIDE DEF js
<1>6. r \in Seq(Jobs) /\ \E pos : Picks(r, js, R, Len(js), pos)
  BY <1>5, OnlyPicks
<1>7. PICK pos : Picks(r, js, R, Len(js), pos)
  BY <1>6
<1> HIDE DEF r
<1> DEFINE At(k) == IF k % 2 = 1 THEN (k + 1) \div 2 ELSE k \div 2
<1>8. ASSUME NEW k \in 1 .. 2 * Len(s)
      PROVE  /\ At(k) \in 1 .. Len(s) /\ js[k][2] = s[At(k)] /\ s[At(k)] \in Conns
             /\ js[k][1] = IF k % 2 = 1 THEN "in" ELSE "out"
  <2>1. CASE k % 2 = 1
    BY <1>2, <1>3, <2>1 DEF In, js
  <2>2. CASE k % 2 # 1
    BY <1>2, <1>3, <2>2 DEF Out, js
  <2> QED BY <2>1, <2>2
<1>9. ASSUME NEW k \in 1 .. Len(r) PROVE r[k] # Accept /\ r[k] \in R /\ Contains(s, r[k][2])
  <2>1. r[k] = js[pos[k]] /\ r[k] \in R /\ pos[k] \in 1 .. 2 * Len(s)
    BY <1>5, <1>7 DEF Picks
  <2> HIDE DEF At
  <2> QED BY <1>8, <2>1 DEF Contains
<1>10. ASSUME NEW k \in 1 .. Len(r), NEW l \in 1 .. Len(r), k < l, r[k][2] = r[l][2]
       PROVE  r[k][1] = "in" /\ r[l][1] = "out"
  <2>1. /\ r[k] = js[pos[k]] /\ pos[k] \in 1 .. 2 * Len(s)
        /\ r[l] = js[pos[l]] /\ pos[l] \in 1 .. 2 * Len(s) /\ pos[k] < pos[l]
    BY <1>5, <1>7, <1>10 DEF Picks
  <2>2. At(pos[k]) = At(pos[l])
    <3> HIDE DEF At
    <3>1. At(pos[k]) \in 1 .. Len(s) /\ js[pos[k]][2] = s[At(pos[k])]
      BY <1>8, <2>1
    <3>2. At(pos[l]) \in 1 .. Len(s) /\ js[pos[l]][2] = s[At(pos[l])]
      BY <1>8, <2>1
    <3>3. s[At(pos[k])] = s[At(pos[l])]
      BY <1>10, <2>1, <3>1, <3>2
    <3>4. DOMAIN s = 1 .. Len(s)
      BY LenProperties
    <3> QED BY <3>1, <3>2, <3>3, <3>4 DEF IsInjective
  <2>3. ASSUME NEW p \in Nat, NEW q \in Nat, p < q, At(p) = At(q) PROVE p % 2 = 1 /\ q % 2 # 1
    BY <2>3
  <2>4. pos[k] % 2 = 1 /\ pos[l] % 2 # 1
    <3> HIDE DEF At
    <3>1. pos[k] \in Nat /\ pos[l] \in Nat
      BY <1>1, <2>1
    <3> QED BY <2>1, <2>2, <2>3, <3>1
  <2> HIDE DEF At
  <2> QED BY <1>8, <2>1, <2>4
<1> QED BY <1>6, <1>9, <1>10 DEF r, js

\* setup_polls weeds out links that have nothing to write.
LEMMA SetupStep == ASSUME MpxInv, Setup PROVE MpxInv'
<1> USE DEF Setup, peers
<1>1. /\ Weeded \in SUBSET Conns /\ (\A c \in Weeded : Linked(c)) /\ Unlink(Weeded)
      /\ \A c \in Weeded : oq[c] = << >>
  BY DEF Weeded
<1>2. /\ list' \in Seq(Conns) /\ ListIsRight'
      /\ \A c \in Conns : Linked(c)' <=> Linked(c) /\ c \notin Weeded
      /\ closes' \in [Conns -> Nat]
      /\ \A c \in Conns : closes'[c] = IF c \in Weeded THEN 1 ELSE closes[c]
  BY <1>1, UnlinkStep
<1>3. jobs = << >> /\ jobs' = << >> /\ pc' \in {"returned", "poll"}
  BY DEF MpxInv, JobsAreTimely
<1>4. TypeOK'
  BY <1>2, <1>3 DEF MpxInv, TypeOK
<1>5. LinksAreRight'
  BY <1>1, <1>2 DEF MpxInv, TypeOK, LinksAreRight
<1>6. JobsAreTimely' /\ JobsAreOrdered' /\ JobsAreSafe'
  BY <1>3 DEF JobsAreTimely, JobsAreOrdered, JobsAreSafe
<1>7. PendingOutputIsKept'
  BY <1>1, <1>2 DEF MpxInv, PendingOutputIsKept
<1> QED BY <1>2, <1>4, <1>5, <1>6, <1>7 DEF MpxInv

\* What poll reports is about links of the list.
LEMMA PollStep == ASSUME MpxInv, Poll PROVE MpxInv'
<1>1. UNCHANGED <<socketok, list, count, eof, oq, peer, inbox, sent, wrote, closes, broken>> /\ pc' = "dispatch"
  BY DEF Poll, peers
<1>2. PICK writable \in SUBSET Conns :
        jobs' = (IF socketok /\ \E c \in Conns : peer[c] = "waiting" THEN <<Accept>> ELSE << >>)
                \o Only(JobsOf(list), Ready(writable))
  BY DEF Poll
<1> DEFINE r == Only(JobsOf(list), Ready(writable))
           first == IF socketok /\ \E c \in Conns : peer[c] = "waiting" THEN <<Accept>> ELSE << >>
<1>3. Ready(writable) \in SUBSET Jobs /\ Accept \notin Ready(writable)
  BY JobKinds DEF Ready, Jobs
<1>4. /\ r \in Seq(Jobs)
      /\ \A k \in 1 .. Len(r) : r[k] # Accept /\ r[k] \in Ready(writable) /\ Linked(r[k][2])
      /\ \A k, l \in 1 .. Len(r) : k < l /\ r[k][2] = r[l][2] => r[k][1] = "in" /\ r[l][1] = "out"
  BY <1>3, JobsOfLinks DEF MpxInv, TypeOK, ListIsRight, Linked
<1>5. \A j \in Ready(writable) : j[1] = "out" => oq[j[2]] # << >>
  BY JobKinds DEF Ready, In, Out
<1>6. first \in Seq(Jobs) /\ \A k \in 1 .. Len(first) : first[k] = Accept
  <2>1. Accept \in Jobs /\ first \in {<<Accept>>, << >>}
    BY DEF Jobs
  <2>2. CASE first = <<Accept>>
    <3> HIDE DEF first
    <3> QED BY <2>1, <2>2
  <2>3. CASE first = << >>
    <3> HIDE DEF first
    <3> QED BY <2>3
  <2> QED BY <2>1, <2>2, <2>3
<1> HIDE DEF r, first
<1>7. jobs' = first \o r
  BY <1>2 DEF first, r
<1> DEFINE n == Len(first)
<1>8. /\ n \in Nat /\ Len(r) \in Nat /\ jobs' \in Seq(Jobs) /\ Len(jobs') = n + Len(r)
      /\ \A k \in 1 .. n : jobs'[k] = Accept
      /\ \A k \in n + 1 .. n + Len(r) : jobs'[k] = r[k - n]
  BY <1>4, <1>6, <1>7, ConcatProperties
<1> HIDE DEF n
<1>9. \A k \in 1 .. Len(jobs') : jobs'[k] # Accept => k - n \in 1 .. Len(r) /\ jobs'[k] = r[k - n]
  BY <1>8
<1>10. TypeOK' /\ ListIsRight' /\ LinksAreRight' /\ PendingOutputIsKept'
  BY <1>1, <1>8 DEF MpxInv, TypeOK, ListIsRight, LinksAreRight, PendingOutputIsKept, Linked
<1>11. JobsAreTimely'
  BY <1>1 DEF Poll, JobsAreTimely
<1>12. JobsAreOrdered'
  <2> SUFFICES ASSUME NEW k \in 1 .. Len(jobs'), NEW l \in 1 .. Len(jobs'), k < l,
                      jobs'[k] # Accept, jobs'[l] # Accept, jobs'[k][2] = jobs'[l][2]
               PROVE  jobs'[k][1] = "in" /\ jobs'[l][1] = "out"
    BY DEF JobsAreOrdered
  <2>1. k - n \in 1 .. Len(r) /\ l - n \in 1 .. Len(r) /\ jobs'[k] = r[k - n] /\ jobs'[l] = r[l - n]
    BY <1>9
  <2>2. k - n < l - n
    BY <1>8
  <2> QED BY <1>4, <2>1, <2>2
<1>13. JobsAreSafe'
  <2> SUFFICES ASSUME NEW k \in 1 .. Len(jobs'), jobs'[k] # Accept
               PROVE  Contains(list', jobs'[k][2]) /\ (jobs'[k][1] = "out" => oq'[jobs'[k][2]] # << >>)
    BY DEF JobsAreSafe, Linked
  <2>1. k - n \in 1 .. Len(r) /\ jobs'[k] = r[k - n]
    BY <1>9
  <2> QED BY <1>1, <1>4, <1>5, <2>1 DEF Linked
<1> QED BY <1>10, <1>11, <1>12, <1>13 DEF MpxInv

\* write_to_link makes queues longer, and leaves those of other links alone.
LEMMA WriteStep ==
  ASSUME MpxInv, NEW W, NEW len \in 1 .. MaxLen, WriteToLink(W, len)
  PROVE  /\ oq' \in [Conns -> Seq(Nat)] /\ wrote' \in [Conns -> Nat]
         /\ \A d \in Conns : oq[d] # << >> => oq'[d] # << >>
         /\ \A d \in Conns : d \notin W => oq'[d] = oq[d]
<1>1. oq \in [Conns -> Seq(Nat)] /\ wrote \in [Conns -> Nat] /\ len \in Nat
  BY BoundsAssumption DEF MpxInv, TypeOK
<1>2. oq' = [d \in Conns |-> IF d \in W THEN Append(oq[d], len) ELSE oq[d]]
  BY DEF WriteToLink
<1>3. \A d \in Conns : Append(oq[d], len) \in Seq(Nat) /\ Append(oq[d], len) # << >>
  <2> SUFFICES ASSUME NEW d \in Conns PROVE Append(oq[d], len) \in Seq(Nat) /\ Append(oq[d], len) # << >>
    OBVIOUS
  <2>1. oq[d] \in Seq(Nat) /\ len \in Nat
    BY <1>1
  <2> QED BY ONLY <2>1, AppendProperties
<1>4. wrote' \in [Conns -> Nat]
  BY <1>1 DEF WriteToLink
<1> QED BY <1>1, <1>2, <1>3, <1>4

\* A new link is appended; it was not in the list before.
LEMMA AddStep == ASSUME MpxInv, NEW c \in Conns, AddConnection(c) PROVE MpxInv'
<1>1. /\ Dispatch(Accept) /\ peer[c] = "waiting" /\ peer' = [peer EXCEPT ![c] = "open"]
      /\ list' = Append(list, c) /\ count' = count + 1 /\ UNCHANGED <<socketok, closes, broken>>
  BY DEF AddConnection
<1>2. ~Linked(c) /\ closes[c] = 0
  <2>1. LinksAreRight /\ closes[c] \in Nat
    BY DEF MpxInv, TypeOK
  <2> QED BY ONLY <1>1, <2>1 DEF LinksAreRight
<1>3. /\ list' = Append(list, c) /\ count' = count + 1
      /\ list \in Seq(Conns) /\ IsInjective(list) /\ count = Len(list)
  BY <1>1 DEF MpxInv, TypeOK, ListIsRight
<1>4. /\ list' \in Seq(Conns) /\ Len(list') = Len(list) + 1 /\ Len(list) \in Nat
      /\ list'[Len(list) + 1] = c /\ \A k \in 1 .. Len(list) : list'[k] = list[k]
  BY <1>3, AppendProperties
<1>5. \A d \in Conns : Linked(d)' <=> Linked(d) \/ d = c
  BY <1>4 DEF Linked, Contains
<1>6. IsInjective(list')
  <2> SUFFICES ASSUME NEW k \in 1 .. Len(list'), NEW l \in 1 .. Len(list'), list'[k] = list'[l], k < l PROVE FALSE
    BY <1>4 DEF IsInjective
  <2>1. k \in 1 .. Len(list)
    BY <1>4
  <2>2. CASE l = Len(list) + 1
    BY <1>2, <1>4, <2>1, <2>2 DEF Linked, Contains
  <2>3. CASE l # Len(list) + 1
    <3>1. l \in 1 .. Len(list)
      BY ONLY <1>4, <2>3, l \in 1 .. Len(list')
    <3>2. list[k] = list[l]
      BY <1>4, <2>1, <3>1
    <3>3. k \in DOMAIN list /\ l \in DOMAIN list
      BY <1>3, <2>1, <3>1
    <3> QED BY <1>3, <3>2, <3>3 DEF IsInjective
  <2> QED BY <2>2, <2>3
<1> DEFINE live == {c} \cup {d \in Conns : Linked(d)}
<1>7. PICK W \in SUBSET live, X \in SUBSET live, len \in 1 .. MaxLen : WriteToLink(W, len) /\ CloseLink(X)
  BY DEF AddConnection
<1>8. /\ oq' \in [Conns -> Seq(Nat)] /\ wrote' \in [Conns -> Nat]
      /\ \A d \in Conns : oq[d] # << >> => oq'[d] # << >>
      /\ \A d \in Conns : d \notin W => oq'[d] = oq[d]
  BY <1>7, WriteStep
<1>9. TypeOK'
  <2>1. jobs' \in Seq(Jobs) /\ pc' \in {"setup", "dispatch"}
    BY <1>1, DispatchStep
  <2>2. eof' \in [Conns -> BOOLEAN]
    BY <1>7 DEF CloseLink, MpxInv, TypeOK
  <2>3. peer' \in [Conns -> {"none", "waiting", "open", "closed"}]
    BY <1>1 DEF MpxInv, TypeOK
  <2> QED BY <1>1, <1>4, <1>8, <2>1, <2>2, <2>3 DEF MpxInv, TypeOK
<1>10. ListIsRight'
  BY <1>3, <1>4, <1>6 DEF ListIsRight
<1>11. LinksAreRight'
  BY <1>1, <1>2, <1>5 DEF MpxInv, TypeOK, LinksAreRight
<1>12. PendingOutputIsKept'
  <2> SUFFICES ASSUME NEW d \in Conns, closes'[d] > 0, oq'[d] # << >> PROVE d \in broken'
    BY DEF PendingOutputIsKept
  <2>1. closes[d] > 0 /\ d # c
    BY <1>1, <1>2
  <2>2. ~Linked(d)
    BY <2>1 DEF MpxInv, LinksAreRight
  <2>3. d \notin W
    BY <2>1, <2>2
  <2>4. oq'[d] = oq[d]
    BY <1>8, <2>3
  <2>5. d \in broken
    BY <2>1, <2>4 DEF MpxInv, PendingOutputIsKept
  <2> QED BY <1>1, <2>5
<1>13. JobsAreTimely' /\ JobsAreOrdered'
  BY <1>1, DispatchStep
<1>14. JobsAreSafe'
  <2>1. \A k \in 1 .. Len(jobs') : jobs'[k] # Accept => jobs'[k][2] \in Conns
    BY <1>9, JobKinds DEF TypeOK
  <2>2. \A k \in 1 .. Len(jobs') : jobs'[k] # Accept =>
          Linked(jobs'[k][2]) /\ (jobs'[k][1] = "out" => oq[jobs'[k][2]] # << >>)
    BY <1>1, DispatchStep
  <2> QED BY <1>5, <1>8, <2>1, <2>2 DEF JobsAreSafe
<1> QED BY <1>9, <1>10, <1>11, <1>12, <1>13, <1>14 DEF MpxInv

\* The handling of an event of link c that frees nothing but c, and c only when
\* nothing else is reported of it
LEMMA HandlerStep ==
  ASSUME MpxInv, NEW c \in Conns, NEW j \in {In(c), Out(c)}, Dispatch(j),
         NEW S \in SUBSET {c}, Unlink(S), UNCHANGED <<socketok, peer>>,
         oq' \in [Conns -> Seq(Nat)], eof' \in [Conns -> BOOLEAN], wrote' \in [Conns -> Nat],
         \A d \in Conns : (d # c \/ j = In(c)) /\ oq[d] # << >> => oq'[d] # << >>,
         j = In(c) /\ oq[c] # << >> => S = {},
         PendingOutputIsKept'
  PROVE  MpxInv'
<1>1. j \in Jobs /\ j # Accept /\ j[2] = c /\ (j[1] = "in" => j = In(c))
  BY JobKinds DEF Jobs
<1>2. /\ Linked(c) /\ jobs' \in Seq(Jobs) /\ pc' \in {"setup", "dispatch"}
      /\ JobsAreTimely' /\ JobsAreOrdered'
      /\ \A k \in 1 .. Len(jobs') : jobs'[k] # Accept =>
           /\ Linked(jobs'[k][2]) /\ (jobs'[k][1] = "out" => oq[jobs'[k][2]] # << >>)
           /\ jobs'[k][2] = c => j[1] = "in" /\ jobs'[k][1] = "out"
  BY <1>1, DispatchStep
<1>3. S \in SUBSET Conns /\ \A d \in S : Linked(d)
  BY <1>2
<1>4. /\ list' \in Seq(Conns) /\ ListIsRight'
      /\ \A d \in Conns : Linked(d)' <=> Linked(d) /\ d \notin S
      /\ closes' \in [Conns -> Nat]
      /\ \A d \in Conns : closes'[d] = IF d \in S THEN 1 ELSE closes[d]
  BY <1>3, UnlinkStep
<1>5. TypeOK'
  BY <1>2, <1>4 DEF MpxInv, TypeOK
<1>6. LinksAreRight'
  <2>1. LinksAreRight /\ peer' = peer
    BY DEF MpxInv
  <2> QED BY <1>3, <1>4, <2>1 DEF LinksAreRight
<1>7. JobsAreSafe'
  <2> SUFFICES ASSUME NEW k \in 1 .. Len(jobs'), jobs'[k] # Accept
               PROVE  Contains(list', jobs'[k][2]) /\ (jobs'[k][1] = "out" => oq'[jobs'[k][2]] # << >>)
    BY DEF JobsAreSafe, Linked
  <2> DEFINE d == jobs'[k][2]
  <2>1. d \in Conns
    BY <1>2, JobKinds
  <2>2. /\ Linked(d) /\ (jobs'[k][1] = "out" => oq[d] # << >>)
        /\ d = c => j = In(c) /\ jobs'[k][1] = "out"
    BY <1>1, <1>2
  <2>3. d \notin S
    BY <2>2
  <2>4. Contains(list', d)
    BY <1>4, <2>1, <2>2, <2>3 DEF Linked
  <2> HIDE DEF d
  <2>5. jobs'[k][1] = "out" => oq'[d] # << >>
    BY <2>1, <2>2
  <2> QED BY <2>4, <2>5 DEF d
<1> QED BY <1>2, <1>4, <1>5, <1>6, <1>7 DEF MpxInv

\* The input handler frees its link at the end of the input only when nothing
\* is to be written; it writes to links that exist.
LEMMA InputStep == ASSUME MpxInv, NEW c \in Conns, Input(c) PROVE MpxInv'
<1>1. Dispatch(In(c)) /\ UNCHANGED <<socketok, peer, broken>>
  BY DEF Input
<1>2. PICK gone \in SUBSET {c} : /\ Unlink(gone) /\ (gone # {} => oq[c] = << >>)
                               /\ \E W, X \in SUBSET Conns, len \in 1 .. MaxLen :
                                    /\ \A d \in W : Linked(d) /\ d \notin gone
                                    /\ WriteToLink(W, len) /\ CloseLink(X)
  <2>1. PICK fails \in BOOLEAN :
       LET atEnd == ~eof[c] /\ (inbox[c] = 0 \/ fails)
           gone == IF atEnd /\ DropAtOnce(c) THEN {c} ELSE {}
           live == {d \in Conns : Linked(d)} \ gone
       IN /\ Unlink(gone)
          /\ \E W, X \in SUBSET live, len \in 1 .. MaxLen :
               WriteToLink(W, len) /\ CloseLink(IF atEnd THEN X \cup {c} ELSE X)
    BY DEF Input
  <2> DEFINE atEnd == ~eof[c] /\ (inbox[c] = 0 \/ fails)
             gone == IF atEnd /\ DropAtOnce(c) THEN {c} ELSE {}
             live == {d \in Conns : Linked(d)} \ gone
  <2>2. PICK W \in SUBSET live, X \in SUBSET live, len \in 1 .. MaxLen :
          WriteToLink(W, len) /\ CloseLink(IF atEnd THEN X \cup {c} ELSE X)
    BY <2>1
  <2>3. gone \in SUBSET {c} /\ (gone # {} => oq[c] = << >>)
    BY DEF DropAtOnce
  <2>4. \A d \in W : Linked(d) /\ d \notin gone
    OBVIOUS
  <2>5. \E Y \in SUBSET Conns : CloseLink(Y)
    <3>1. (IF atEnd THEN X \cup {c} ELSE X) \in SUBSET Conns
      OBVIOUS
    <3> QED BY <2>2, <3>1
  <2>6. W \in SUBSET Conns
    OBVIOUS
  <2>7. Unlink(gone)
    BY <2>1
  <2> HIDE DEF gone, live
  <2> QED BY <2>2, <2>3, <2>4, <2>5, <2>6, <2>7
<1>3. PICK W \in SUBSET Conns, X \in SUBSET Conns, len \in 1 .. MaxLen :
        (\A d \in W : Linked(d) /\ d \notin gone) /\ WriteToLink(W, len) /\ CloseLink(X)
  BY <1>2
<1>4. /\ oq' \in [Conns -> Seq(Nat)] /\ wrote' \in [Conns -> Nat]
      /\ \A d \in Conns : oq[d] # << >> => oq'[d] # << >>
      /\ \A d \in Conns : d \notin W => oq'[d] = oq[d]
  BY <1>3, WriteStep
<1>5. eof' \in [Conns -> BOOLEAN]
  BY <1>3 DEF CloseLink, MpxInv, TypeOK
<1>6. \A d \in Conns : closes'[d] = IF d \in gone THEN 1 ELSE closes[d]
  <2>1. Linked(c)
    BY <1>1, DispatchStep, JobKinds
  <2>2. gone \in SUBSET Conns /\ \A d \in gone : Linked(d)
    BY <2>1
  <2> QED BY <1>2, <2>2, UnlinkStep
<1>7. PendingOutputIsKept'
  <2> SUFFICES ASSUME NEW d \in Conns, closes'[d] > 0, oq'[d] # << >> PROVE d \in broken'
    BY DEF PendingOutputIsKept
  <2>1. CASE d \in gone
    <3>1. d = c /\ d \notin W /\ oq[c] = << >>
      BY <1>2, <1>3, <2>1
    <3> QED BY <1>4, <3>1
  <2>2. CASE d \notin gone
    <3>1. closes[d] > 0
      BY <1>6, <2>2
    <3>2. ~Linked(d)
      BY <3>1 DEF MpxInv, LinksAreRight
    <3>3. oq'[d] = oq[d]
      BY <1>3, <1>4, <3>2
    <3> QED BY <1>1, <3>1, <3>3 DEF MpxInv, PendingOutputIsKept
  <2> QED BY <2>1, <2>2
<1> QED BY <1>1, <1>2, <1>4, <1>5, <1>7, HandlerStep

\* write_to_socket frees its link when all is written, or when write fails.
LEMMA OutputStep == ASSUME MpxInv, NEW c \in Conns, Output(c) \/ OutputFails(c) PROVE MpxInv'
<1>1. Dispatch(Out(c)) /\ UNCHANGED <<socketok, peer, eof, wrote>>
  BY DEF Output, OutputFails, peers
<1>2. Linked(c) /\ oq[c] # << >> /\ Out(c) # In(c)
  BY <1>1, DispatchStep, JobKinds
<1>3. oq \in [Conns -> Seq(Nat)] /\ wrote' \in [Conns -> Nat] /\ eof' \in [Conns -> BOOLEAN]
  BY <1>1 DEF MpxInv, TypeOK
<1>4. \E S \in SUBSET {c} : Unlink(S) /\ (c \in S => oq'[c] = << >> \/ c \in broken') /\ broken \subseteq broken'
  BY DEF Output, OutputFails
<1>5. PICK S \in SUBSET {c} : Unlink(S) /\ (c \in S => oq'[c] = << >> \/ c \in broken') /\ broken \subseteq broken'
  BY <1>4
<1>6. oq' \in [Conns -> Seq(Nat)] /\ \A d \in Conns : d # c => oq'[d] = oq[d]
  <2>1. CASE Output(c)
    <3>1. PICK n \in 1 .. Head(oq[c]) :
            oq' = [oq EXCEPT ![c] = IF n = Head(@) THEN Tail(@) ELSE <<Head(@) - n>> \o Tail(@)]
      BY <2>1 DEF Output
    <3>2. Head(oq[c]) \in Nat /\ Tail(oq[c]) \in Seq(Nat)
      BY <1>2, <1>3
    <3>3. Head(oq[c]) - n \in Nat
      BY <3>2
    <3>4. <<Head(oq[c]) - n>> \o Tail(oq[c]) \in Seq(Nat)
      BY <3>2, <3>3
    <3> QED BY <1>3, <3>1, <3>2, <3>4
  <2>2. CASE OutputFails(c)
    BY <1>3, <2>2 DEF OutputFails
  <2> QED BY <2>1, <2>2
<1>7. \A d \in Conns : closes'[d] = IF d \in S THEN 1 ELSE closes[d]
  <2>1. S \in SUBSET Conns /\ \A d \in S : Linked(d)
    BY <1>2
  <2> QED BY <1>5, <2>1, UnlinkStep
<1>8. PendingOutputIsKept'
  <2> SUFFICES ASSUME NEW d \in Conns, closes'[d] > 0, oq'[d] # << >> PROVE d \in broken'
    BY DEF PendingOutputIsKept
  <2>1. CASE d \in S
    BY <1>1, <1>5, <2>1
  <2>2. CASE d \notin S
    <3>1. closes[d] > 0
      BY <1>7, <2>2
    <3>2. d # c
      BY <1>2, <3>1 DEF MpxInv, LinksAreRight
    <3> QED BY <1>5, <1>6, <3>1, <3>2 DEF MpxInv, PendingOutputIsKept
  <2> QED BY <2>1, <2>2
<1>9. \A d \in Conns : (d # c \/ Out(c) = In(c)) /\ oq[d] # << >> => oq'[d] # << >>
  BY <1>2, <1>6
<1> QED BY <1>1, <1>2, <1>3, <1>5, <1>6, <1>8, <1>9, HandlerStep

\* accept fails, or run_multiplexor returns: the links stay.
LEMMA FailStep == ASSUME MpxInv, AcceptFails \/ GiveUp PROVE MpxInv'
<1>1. UNCHANGED <<list, count, eof, oq, peer, wrote, closes, broken>> /\ socketok' \in BOOLEAN
  BY DEF AcceptFails, GiveUp, peers, MpxInv, TypeOK
<1>2. /\ jobs' \in Seq(Jobs) /\ pc' \in {"setup", "dispatch", "returned"}
      /\ JobsAreTimely' /\ JobsAreOrdered'
      /\ \A k \in 1 .. Len(jobs') : jobs'[k] # Accept =>
           Linked(jobs'[k][2]) /\ (jobs'[k][1] = "out" => oq[jobs'[k][2]] # << >>)
  <2>1. CASE AcceptFails
    <3>1. Dispatch(Accept)
      BY <2>1 DEF AcceptFails
    <3> QED BY <3>1, DispatchStep
  <2>2. CASE GiveUp
    BY <2>2 DEF GiveUp, MpxInv, TypeOK, JobsAreTimely, JobsAreOrdered, JobsAreSafe
  <2> QED BY <2>1, <2>2
<1>3. TypeOK' /\ ListIsRight' /\ LinksAreRight' /\ PendingOutputIsKept'
  BY <1>1, <1>2 DEF MpxInv, TypeOK, ListIsRight, LinksAreRight, PendingOutputIsKept, Linked
<1>4. JobsAreSafe'
  BY <1>1, <1>2 DEF JobsAreSafe, Linked
<1> QED BY <1>2, <1>3, <1>4 DEF MpxInv

\* The peers do nothing to the links.
LEMMA PeerStep == ASSUME MpxInv, NEW c \in Conns, Peer(c) PROVE MpxInv'
<1>1. /\ UNCHANGED <<pc, socketok, list, count, eof, oq, jobs, wrote, closes, broken>>
      /\ peer' = peer \/ (peer[c] = "none" /\ peer' = [peer EXCEPT ![c] = "waiting"])
                      \/ (peer[c] = "open" /\ peer' = [peer EXCEPT ![c] = "closed"])
  BY DEF Peer
<1>2. TypeOK' /\ ListIsRight' /\ JobsAreTimely' /\ JobsAreOrdered'
  <2>1. peer' \in [Conns -> {"none", "waiting", "open", "closed"}]
    BY <1>1 DEF MpxInv, TypeOK
  <2>2. TypeOK'
    BY <1>1, <2>1 DEF MpxInv, TypeOK
  <2>3. ListIsRight' /\ JobsAreTimely' /\ JobsAreOrdered'
    BY <1>1 DEF MpxInv, ListIsRight, JobsAreTimely, JobsAreOrdered
  <2> QED BY <2>2, <2>3
<1>3. LinksAreRight'
  BY <1>1 DEF MpxInv, TypeOK, LinksAreRight, Linked
<1>4. JobsAreSafe'
  BY <1>1 DEF MpxInv, JobsAreSafe, Linked
<1>5. PendingOutputIsKept'
  BY <1>1 DEF MpxInv, TypeOK, PendingOutputIsKept
<1> QED BY <1>2, <1>3, <1>4, <1>5 DEF MpxInv

\* Nothing the multiplexor, the handlers or the peers do breaks the invariant.
LEMMA MpxStep == MpxInv /\ [Next]_vars => MpxInv'
<1> SUFFICES ASSUME MpxInv, [Next]_vars PROVE MpxInv'
  OBVIOUS
<1>1. CASE UNCHANGED vars
  <2>1. UNCHANGED <<pc, socketok, list, count, eof, oq, jobs, peer, wrote, closes, broken>>
    BY <1>1 DEF vars, peers
  <2> QED BY <2>1 DEF MpxInv, TypeOK, ListIsRight, LinksAreRight, JobsAreTimely, JobsAreOrdered,
                      JobsAreSafe, PendingOutputIsKept, Linked
<1>2. CASE Next
  BY <1>2, SetupStep, PollStep, AddStep, InputStep, OutputStep, FailStep, PeerStep DEF Next, Handle
<1> QED BY <1>1, <1>2
-----------------------------------------------------------------------------
\* The invariant of the multiplexor holds in every state.
THEOREM MpxInvariant == Spec => []MpxInv
BY MpxInit, MpxStep, PTL DEF Spec

\* multiplexor.c, run_multiplexor: while the loop over pollfds goes on, no
\* handler can leave it with an event of a freed link, or with a POLLOUT for a
\* link that has nothing to write, and the allocated size fits the list.
THEOREM DispatchHolds == Spec => []DispatchIsSafe
<1>1. MpxInv => DispatchIsSafe
  BY DEF MpxInv, ListIsRight, JobsAreSafe, DispatchIsSafe
<1> QED BY <1>1, MpxInvariant, PTL

\* multiplexor.c, read_from_link, write_to_socket, setup_polls: whichever of
\* them removes a link, its output was written, or the peer is gone.
THEOREM PendingOutputHolds == Spec => []PendingOutputIsKept
<1>1. MpxInv => PendingOutputIsKept
  BY DEF MpxInv
<1> QED BY <1>1, MpxInvariant, PTL
-----------------------------------------------------------------------------
(* Sessions (MpxSession).  First pieces of a stream: what is taken from    *)
(* the middle of one.                                                      *)

\* The characters b + 1 to n of t
LEMMA PieceOf ==
  ASSUME NEW S, NEW t \in Seq(S), NEW b \in Nat, NEW n \in 0 .. Len(t), b <= n
  PROVE  /\ SubSeq(t, b + 1, n) \in Seq(S) /\ Len(SubSeq(t, b + 1, n)) = n - b
         /\ \A i \in 1 .. n - b : SubSeq(t, b + 1, n)[i] = t[b + i]
<1>1. Len(t) \in Nat /\ n \in Int /\ b + 1 \in Int
  OBVIOUS
<1>2. \A i \in b + 1 .. n : t[i] \in S
  BY <1>1
<1>3. /\ SubSeq(t, b + 1, n) \in Seq(S)
      /\ Len(SubSeq(t, b + 1, n)) = IF b + 1 <= n THEN n - (b + 1) + 1 ELSE 0
      /\ \A i \in 1 .. n - (b + 1) + 1 : SubSeq(t, b + 1, n)[i] = t[b + 1 + i - 1]
  BY ONLY <1>1, <1>2, SubSeqProperties
<1>4. n - (b + 1) + 1 = n - b /\ \A i \in 1 .. n - b : b + 1 + i - 1 = b + i
  BY <1>1
<1> QED BY ONLY <1>1, <1>3, <1>4, b \in Nat, b <= n

\* A piece of a piece
LEMMA PieceOfPiece ==
  ASSUME NEW S, NEW t \in Seq(S), NEW b \in Nat, NEW n \in 0 .. Len(t), b <= n,
         NEW i \in Nat, NEW j \in Nat, i <= j, j <= n - b
  PROVE  SubSeq(SubSeq(t, b + 1, n), i + 1, j) = SubSeq(t, b + i + 1, b + j)
<1> DEFINE u == SubSeq(t, b + 1, n)
           v == SubSeq(u, i + 1, j)
           w == SubSeq(t, b + i + 1, b + j)
<1>0. Len(t) \in Nat /\ n \in Nat /\ n <= Len(t)
  OBVIOUS
<1>1. u \in Seq(S) /\ Len(u) = n - b /\ \A k \in 1 .. n - b : u[k] = t[b + k]
  BY PieceOf
<1> HIDE DEF u
<1>2. v \in Seq(S) /\ Len(v) = j - i /\ \A k \in 1 .. j - i : v[k] = u[i + k]
  <2>1. j \in 0 .. Len(u)
    BY <1>1
  <2> QED BY <1>1, <2>1, PieceOf
<1>3. w \in Seq(S) /\ Len(w) = (b + j) - (b + i) /\ \A k \in 1 .. (b + j) - (b + i) : w[k] = t[b + i + k]
  <2>1. b + j \in 0 .. Len(t) /\ b + i \in Nat /\ b + i <= b + j
    BY <1>0
  <2> QED BY <2>1, PieceOf
<1> HIDE DEF v, w
<1>4. Len(v) = Len(w)
  BY <1>2, <1>3
<1>5. ASSUME NEW k \in 1 .. Len(v) PROVE v[k] = w[k]
  <2>1. k \in 1 .. j - i /\ k \in 1 .. (b + j) - (b + i) /\ i + k \in 1 .. n - b
    BY <1>2
  <2>2. v[k] = t[b + (i + k)]
    BY <1>1, <1>2, <2>1
  <2>3. w[k] = t[b + i + k]
    BY <1>3, <2>1
  <2> QED BY <2>2, <2>3
<1>6. v = w
  BY ONLY <1>2, <1>3, <1>4, <1>5, SeqEqual
<1> QED BY <1>6 DEF v, w, u
-----------------------------------------------------------------------------
Handled == [from : Nat, text : Seq(Chars), caps : Seq(Seq(Chars))]

SessionTypes ==
    /\ stream \in Streams /\ regexp \in Patterns /\ taken \in 0 .. Len(stream)
    /\ link \in {"none", "open", "closed", "removed"} /\ session \in BOOLEAN /\ partial \in BOOLEAN
    /\ control \in {"poll", "loop", "aborted", "wild"}
    /\ buffer \in [s : Seq(Chars), a : Nat, offset : Nat]
    /\ handled \in Seq(Handled)

\* A buffer b holds what was received from a handled position on; its offset is
\* where the requests that were handled end.
Holding(b) ==
    /\ b \in [s : Seq(Chars), a : Nat, offset : Nat]
    /\ b.offset <= Done /\ Done <= taken
    /\ b.s = SubSeq(stream, Done - b.offset + 1, taken) /\ Len(b.s) <= b.a

\* The end of the stream is noticed when everything was read, and nothing is
\* read before the session is there.
EndIsRight ==
    /\ ~partial => taken = Len(stream)
    /\ link = "none" => taken = 0 /\ control = "poll"

SessionInv ==
    SessionTypes /\ Holding(buffer) /\ EndIsRight /\ RequestsAreRight /\ NoRequestLeftBehind

LEMMA DoneIsNat == SessionTypes => Done \in Nat
<1> SUFFICES ASSUME SessionTypes, handled # << >> PROVE Done \in Nat
  BY DEF Done
<1>1. handled[Len(handled)] \in Handled
  BY DEF SessionTypes
<1>2. handled[Len(handled)].from \in Nat /\ handled[Len(handled)].text \in Seq(Chars)
  BY <1>1 DEF Handled
<1> QED BY <1>2 DEF Done, EndOf

\* What a buffer that holds the rest is, in numbers
LEMMA HoldingNumbers ==
  ASSUME SessionTypes, NEW b, Holding(b)
  PROVE  /\ Done \in Nat /\ taken \in Nat /\ stream \in Seq(Chars) /\ Len(stream) \in Nat
         /\ taken <= Len(stream) /\ Done <= taken
         /\ b.offset \in Nat /\ b.a \in Nat /\ Done - b.offset \in Nat
         /\ b.s \in Seq(Chars) /\ Len(b.s) = taken - (Done - b.offset)
<1>1. Done \in Nat /\ stream \in Seq(Chars)
  BY DoneIsNat, StreamsAssumption DEF SessionTypes
<1>2. Len(stream) \in Nat /\ taken \in Nat /\ taken <= Len(stream)
  BY <1>1 DEF SessionTypes
<1>3. b.offset \in Nat /\ b.a \in Nat /\ b.offset <= Done /\ Done <= taken
      /\ b.s = SubSeq(stream, (Done - b.offset) + 1, taken)
  BY DEF Holding
<1>4. Done - b.offset \in Nat /\ Done - b.offset <= taken /\ taken \in 0 .. Len(stream)
  BY <1>1, <1>2, <1>3
<1>5. b.s \in Seq(Chars) /\ Len(b.s) = taken - (Done - b.offset)
  <2> DEFINE d == Done - b.offset
  <2>1. d \in Nat /\ d <= taken
    BY <1>4
  <2> HIDE DEF d
  <2>2. SubSeq(stream, d + 1, taken) \in Seq(Chars) /\ Len(SubSeq(stream, d + 1, taken)) = taken - d
    BY ONLY <1>1, <1>4, <2>1, PieceOf
  <2> QED BY ONLY <1>3, <2>2 DEF d
<1> QED BY <1>1, <1>2, <1>3, <1>4, <1>5

\* Matching, at one place of one stream
LEMMA MatchingAt ==
  ASSUME NEW t \in Streams, NEW q \in Patterns, NEW n \in 0 .. Len(t), NEW from \in 0 .. n, NEW hard \in BOOLEAN
  PROVE  LET m == PcreExec(q, SubSeq(t, 1, n), from, hard) IN
           /\ LiesWithin(m, from, n) /\ m.kind \in {"match", "nomatch"} \cup IF hard THEN {"partial"} ELSE {}
           /\ \A b \in 0 .. from : SameMatch(PcreExec(q, SubSeq(t, b + 1, n), from - b, hard), m, b)
           /\ hard /\ from < n /\ m.kind # "partial" =>
                \A l \in n .. Len(t), h \in BOOLEAN : PcreExec(q, SubSeq(t, 1, l), from, h) = m
BY Matching, SMT

\* The matcher finds the same in the buffer and in what was received so far.
LEMMA MatchInBuffer ==
  ASSUME SessionTypes, NEW b, Holding(b), NEW hard \in BOOLEAN
  PROVE  LET w == PcreExec(regexp, SubSeq(stream, 1, taken), Done, hard) IN
           /\ SameMatch(PcreExec(regexp, b.s, b.offset, hard), w, Done - b.offset)
           /\ LiesWithin(w, Done, taken)
           /\ hard /\ Done < taken /\ w.kind = "match" =>
                \A l \in taken .. Len(stream), h \in BOOLEAN : PcreExec(regexp, SubSeq(stream, 1, l), Done, h) = w
<1> DEFINE d == Done - b.offset
           w == PcreExec(regexp, SubSeq(stream, 1, taken), Done, hard)
<1>1. /\ taken \in 0 .. Len(stream) /\ Done \in 0 .. taken /\ d \in 0 .. Done /\ Done - d = b.offset
  BY HoldingNumbers
<1>2. stream \in Streams /\ regexp \in Patterns /\ b.s = SubSeq(stream, d + 1, taken)
  BY DEF SessionTypes, Holding
<1> HIDE DEF d
<1>3. /\ LiesWithin(w, Done, taken)
      /\ SameMatch(PcreExec(regexp, SubSeq(stream, d + 1, taken), Done - d, hard), w, d)
      /\ hard /\ Done < taken /\ w.kind # "partial" =>
           \A l \in taken .. Len(stream), h \in BOOLEAN : PcreExec(regexp, SubSeq(stream, 1, l), Done, h) = w
  <2>1. /\ LiesWithin(w, Done, taken)
        /\ \A k \in 0 .. Done : SameMatch(PcreExec(regexp, SubSeq(stream, k + 1, taken), Done - k, hard), w, k)
        /\ hard /\ Done < taken /\ w.kind # "partial" =>
             \A l \in taken .. Len(stream), h \in BOOLEAN : PcreExec(regexp, SubSeq(stream, 1, l), Done, h) = w
    BY ONLY <1>1, <1>2, hard \in BOOLEAN, MatchingAt DEF w
  <2> HIDE DEF w
  <2> QED BY ONLY <1>1, <2>1
<1>4. "match" # "partial"
  OBVIOUS
<1> QED BY <1>1, <1>2, <1>3, <1>4 DEF d

\* sliding_buffer_ready moves the rest to the front of the buffer.
LEMMA ShiftedHolds == ASSUME SessionTypes, NEW b, Holding(b) PROVE Holding(Shifted(b))
<1> DEFINE d == Done - b.offset
           r == Shifted(b)
           u == SubSeq(b.s, b.offset + 1, Len(b.s))
<1>1. /\ Done \in Nat /\ taken \in Nat /\ stream \in Seq(Chars) /\ taken <= Len(stream) /\ Done <= taken
      /\ Len(stream) \in Nat
      /\ b.offset \in Nat /\ b.a \in Nat /\ d \in Nat /\ b.s \in Seq(Chars) /\ Len(b.s) = taken - d
  BY HoldingNumbers
<1>2. b \in [s : Seq(Chars), a : Nat, offset : Nat] /\ b.s = SubSeq(stream, d + 1, taken) /\ Len(b.s) <= b.a
  BY DEF Holding
<1>3. d + b.offset = Done /\ d + Len(b.s) = taken /\ b.offset <= Len(b.s) /\ Len(b.s) \in Nat
  <2>1. d = Done - b.offset /\ Len(b.s) \in Nat
    BY <1>1
  <2> HIDE DEF d
  <2> QED BY ONLY <1>1, <2>1
<1>4. taken \in 0 .. Len(stream) /\ d <= taken /\ Len(b.s) <= taken - d
  <2> HIDE DEF d
  <2> QED BY ONLY <1>1, <1>3
<1> HIDE DEF d
<1>5. SubSeq(SubSeq(stream, d + 1, taken), b.offset + 1, Len(b.s)) = SubSeq(stream, d + b.offset + 1, d + Len(b.s))
  <2>1. /\ stream \in Seq(Chars) /\ d \in Nat /\ taken \in 0 .. Len(stream) /\ d <= taken
        /\ b.offset \in Nat /\ Len(b.s) \in Nat /\ b.offset <= Len(b.s) /\ Len(b.s) <= taken - d
    BY <1>1, <1>3, <1>4
  <2> DEFINE i == b.offset
             j == Len(b.s)
  <2>2. i \in Nat /\ j \in Nat /\ i <= j /\ j <= taken - d
    BY <2>1
  <2> HIDE DEF i, j
  <2>3. SubSeq(SubSeq(stream, d + 1, taken), i + 1, j) = SubSeq(stream, d + i + 1, d + j)
    BY ONLY <2>1, <2>2, PieceOfPiece
  <2> QED BY <2>3 DEF i, j
<1>6. u = SubSeq(stream, Done + 1, taken)
  BY <1>2, <1>3, <1>5
<1>7. u \in Seq(Chars) /\ Len(u) = taken - Done
  <2> HIDE DEF u
  <2> QED BY <1>1, <1>4, <1>6, PieceOf
<1>8. r = [b EXCEPT !.s = u, !.offset = 0]
  BY DEF Shifted
<1> HIDE DEF u, r
<1>9. r \in [s : Seq(Chars), a : Nat, offset : Nat] /\ r.s = u /\ r.a = b.a /\ r.offset = 0
  BY <1>2, <1>7, <1>8
<1>10. Len(r.s) <= r.a
  BY <1>1, <1>2, <1>3, <1>7, <1>9
<1>11. Done - r.offset = Done /\ r.offset <= Done
  BY <1>1, <1>9
<1>12. Holding(r)
  BY <1>1, <1>6, <1>9, <1>10, <1>11 DEF Holding
<1> QED BY <1>12 DEF r

\* ... or leaves it where it is
LEMMA CompactedHolds == ASSUME SessionTypes, NEW b, Holding(b) PROVE Holding(Compacted(b))
BY ShiftedHolds DEF Compacted

\* ... and gives the buffer more room.
LEMMA ReadyHolds == ASSUME SessionTypes, NEW b, Holding(b) PROVE Holding(BufferReady(b))
<1> DEFINE g == [b EXCEPT !.a = Len(b.s) + MinSpace]
<1>1. b.s \in Seq(Chars) /\ b.a \in Nat
  BY HoldingNumbers
<1>2. Len(b.s) \in Nat /\ MinSpace \in Nat
  BY <1>1, SessionBounds
<1>3. b \in [s : Seq(Chars), a : Nat, offset : Nat]
  BY DEF Holding
<1>4. g \in [s : Seq(Chars), a : Nat, offset : Nat] /\ g.s = b.s /\ g.offset = b.offset /\ g.a = Len(b.s) + MinSpace
  BY <1>2, <1>3
<1> HIDE DEF g
<1>5. Holding(g)
  <2>1. b.offset <= Done /\ Done <= taken /\ b.s = SubSeq(stream, Done - b.offset + 1, taken)
    BY DEF Holding
  <2>2. Len(g.s) <= g.a
    BY <1>2, <1>4
  <2>3. g.offset <= Done /\ g.s = SubSeq(stream, Done - g.offset + 1, taken)
    BY <1>4, <2>1
  <2> QED BY <1>4, <2>1, <2>2, <2>3 DEF Holding
<1>6. BufferReady(b) \in {b, g, Shifted(b)}
  <2>1. b.a - Len(b.s) >= MinSpace \/ b.a - Len(b.s) < MinSpace
    BY <1>1, <1>2
  <2> QED BY <2>1 DEF BufferReady, g
<1> QED BY <1>5, <1>6, ShiftedHolds

\* Nothing changes for the buffer as long as no request is handled and nothing read.
LEMMA HoldingStays ==
  ASSUME UNCHANGED <<stream, taken, handled>>, NEW b PROVE Holding(b)' <=> Holding(b)
BY DEF Holding, Done, EndOf

\* ... nor does what was handled.
LEMMA RequestsStay ==
  ASSUME UNCHANGED <<stream, regexp, handled>> PROVE RequestsAreRight' <=> RequestsAreRight
BY DEF RequestsAreRight, EndOf, RecordAt

\* What the input handler finds is what matches in the stream as a whole.
LEMMA RequestMatches ==
  ASSUME SessionTypes, Holding(buffer), EndIsRight, Rest > 0,
         PcreExec(regexp, buffer.s, buffer.offset, partial).kind = "match"
  PROVE  LET w == PcreExec(regexp, stream, Done, FALSE) IN
           /\ w.kind = "match" /\ LiesWithin(w, Done, taken)
           /\ SameMatch(PcreExec(regexp, buffer.s, buffer.offset, partial), w, Done - buffer.offset)
<1> DEFINE v == PcreExec(regexp, SubSeq(stream, 1, taken), Done, partial)
<1>1. partial \in BOOLEAN /\ stream \in Seq(Chars) /\ taken \in 0 .. Len(stream)
  BY StreamsAssumption DEF SessionTypes
<1>2. /\ SameMatch(PcreExec(regexp, buffer.s, buffer.offset, partial), v, Done - buffer.offset)
      /\ LiesWithin(v, Done, taken)
      /\ partial /\ Done < taken /\ v.kind = "match" =>
           \A l \in taken .. Len(stream), h \in BOOLEAN : PcreExec(regexp, SubSeq(stream, 1, l), Done, h) = v
  BY <1>1, MatchInBuffer
<1>3. v.kind = "match"
  BY <1>2 DEF SameMatch
<1>m. Done < taken
  BY HoldingNumbers DEF Rest
<1>4. SubSeq(stream, 1, Len(stream)) = stream
  BY <1>1, SubSeqFull
<1>5. v = PcreExec(regexp, stream, Done, FALSE)
  <2>1. CASE partial
    <3>1. Len(stream) \in taken .. Len(stream) /\ FALSE \in BOOLEAN
      BY <1>1
    <3>2. PcreExec(regexp, SubSeq(stream, 1, Len(stream)), Done, FALSE) = v
      <4> HIDE DEF v
      <4> QED BY ONLY <1>2, <1>3, <1>m, <2>1, <3>1
    <3> QED BY <1>4, <3>2
  <2>2. CASE ~partial
    <3>1. taken = Len(stream) /\ partial = FALSE
      BY <1>1, <2>2 DEF EndIsRight
    <3> QED BY <1>4, <3>1
  <2> QED BY <2>1, <2>2
<1> HIDE DEF v
<1> QED BY <1>2, <1>3, <1>5

\* A part of the buffer is the same part of the stream.
LEMMA TextInBuffer ==
  ASSUME SessionTypes, Holding(buffer), NEW i \in Nat, NEW j \in Nat, i <= j, j <= Len(buffer.s)
  PROVE  LET d == Done - buffer.offset IN
           /\ SubSeq(buffer.s, i + 1, j) = SubSeq(stream, d + i + 1, d + j)
           /\ SubSeq(buffer.s, i + 1, j) \in Seq(Chars) /\ Len(SubSeq(buffer.s, i + 1, j)) = j - i
<1> DEFINE d == Done - buffer.offset
<1>1. /\ taken \in Nat /\ stream \in Seq(Chars) /\ taken <= Len(stream) /\ Len(stream) \in Nat
      /\ d \in Nat /\ buffer.s \in Seq(Chars) /\ Len(buffer.s) = taken - d
  BY HoldingNumbers
<1>2. buffer.s = SubSeq(stream, d + 1, taken)
  BY DEF Holding
<1> HIDE DEF d
<1>3. taken \in 0 .. Len(stream) /\ d <= taken /\ j <= taken - d /\ j \in 0 .. Len(buffer.s)
  <2>1. Len(buffer.s) \in Nat
    BY <1>1
  <2> QED BY ONLY <1>1, <2>1, j \in Nat, j <= Len(buffer.s)
<1>4. SubSeq(SubSeq(stream, d + 1, taken), i + 1, j) = SubSeq(stream, d + i + 1, d + j)
  BY ONLY <1>1, <1>3, i \in Nat, j \in Nat, i <= j, PieceOfPiece
<1>5. SubSeq(buffer.s, i + 1, j) \in Seq(Chars) /\ Len(SubSeq(buffer.s, i + 1, j)) = j - i
  BY ONLY <1>1, <1>3, i \in Nat, i <= j, PieceOf
<1> QED BY <1>2, <1>4, <1>5 DEF d

\* mpx_session_scan: the captures are those of the match in the stream.
LEMMA CapturesInBuffer ==
  ASSUME SessionTypes, Holding(buffer), NEW m, NEW w, w.kind = "match", LiesWithin(w, Done, taken),
         SameMatch(m, w, Done - buffer.offset), ~ScanAborts(m)
  PROVE  /\ Captures(m) = [j \in 1 .. w.count |->
                IF w.caps[j][1] = -1 THEN << >> ELSE SubSeq(stream, w.caps[j][1] + 1, w.caps[j][2])]
         /\ Captures(m) \in Seq(Seq(Chars))
<1> DEFINE d == Done - buffer.offset
           o == buffer.offset
           Text(j) == IF w.caps[j][1] = -1 THEN << >> ELSE SubSeq(stream, w.caps[j][1] + 1, w.caps[j][2])
           Scan(j) == LET start == m.caps[j][1] - buffer.offset IN IF start = -1 THEN << >> ELSE Capture(m.caps[j])
<1>1. /\ taken \in Nat /\ Done \in Nat /\ d \in Nat /\ o \in Nat /\ d + o = Done /\ Len(buffer.s) = taken - d
      /\ Len(buffer.s) \in Nat
  BY HoldingNumbers
<1>2. w.end \in Done .. taken /\ w.count \in Nat /\ m.count = w.count
  BY DEF LiesWithin, SameMatch
<1>3. ASSUME NEW j \in 1 .. w.count PROVE Scan(j) = Text(j) /\ Scan(j) \in Seq(Chars)
  <2>1. CASE w.caps[j][1] = -1
    <3>1. m.caps[j][1] = -1
      BY <1>3, <2>1 DEF SameMatch, SamePair
    <3>2. ~(m.caps[j][1] - o < -1)
      BY <1>2, <1>3 DEF ScanAborts
    <3>3. m.caps[j][1] - o = -1
      <4> HIDE DEF o
      <4> QED BY <1>1, <3>1, <3>2
    <3> QED BY <2>1, <3>3
  <2>2. CASE w.caps[j][1] # -1
    <3> DEFINE x == m.caps[j][1]
               y == m.caps[j][2]
               e == w.end
               wx == w.caps[j][1]
               wy == w.caps[j][2]
               n == Len(buffer.s)
    <3>0. wx \in Done .. e /\ wy \in wx .. e /\ e \in Done .. taken
      BY <1>2, <1>3, <2>2 DEF LiesWithin, PairWithin
    <3>1. x = wx - d /\ y = wy - d
      BY <1>3, <2>2 DEF SameMatch, SamePair
    <3>n. n = taken - d /\ n \in Nat
      BY <1>1
    <3> HIDE DEF x, y, d, o, wx, wy, e, n
    <3>2. x \in Nat /\ y \in Nat /\ x >= o /\ x <= y /\ y <= n /\ d + x = wx /\ d + y = wy
      BY ONLY <1>1, <3>0, <3>1, <3>n
    <3>3. x - o # -1
      BY <1>1, <3>2
    <3>4. Scan(j) = SubSeq(buffer.s, x + 1, y)
      BY <3>3 DEF Capture, x, y, o
    <3>5. SubSeq(buffer.s, x + 1, y) = SubSeq(stream, d + x + 1, d + y) /\ SubSeq(buffer.s, x + 1, y) \in Seq(Chars)
      BY <3>2, TextInBuffer DEF d, n
    <3> QED BY <2>2, <3>2, <3>4, <3>5 DEF wx, wy
  <2> QED BY <2>1, <2>2
<1>4. Captures(m) = [j \in 1 .. w.count |-> Scan(j)]
  BY <1>2 DEF Captures
<1> HIDE DEF Scan, Text
<1>5. [j \in 1 .. w.count |-> Scan(j)] = [j \in 1 .. w.count |-> Text(j)]
  BY <1>3
<1>6. [j \in 1 .. w.count |-> Scan(j)] \in Seq(Seq(Chars))
  BY <1>2, <1>3
<1> QED BY <1>4, <1>5, <1>6 DEF Text
-----------------------------------------------------------------------------
\* The empty buffer of a new session holds what was read: nothing.
LEMMA SessionStarts == SessionInit => SessionInv
<1> SUFFICES ASSUME SessionInit PROVE SessionInv
  OBVIOUS
<1>1. Done = 0 /\ Rest = 0 /\ buffer.s = << >> /\ buffer.offset = 0 /\ buffer.a = 0
  BY DEF SessionInit, Done, Rest
<1>2. SessionTypes
  <2>1. 0 \in 0 .. Len(stream)
    BY StreamsAssumption DEF SessionInit
  <2>2. buffer \in [s : Seq(Chars), a : Nat, offset : Nat] /\ handled \in Seq(Handled)
    BY DEF SessionInit
  <2> QED BY <2>1, <2>2 DEF SessionInit, SessionTypes
<1>3. Holding(buffer)
  <2>1. SubSeq(stream, 0 - 0 + 1, 0) = << >>
    BY SubSeqEmpty
  <2> QED BY <1>1, <1>2, <2>1 DEF Holding, SessionTypes, SessionInit
<1>4. EndIsRight /\ RequestsAreRight /\ NoRequestLeftBehind
  BY <1>1 DEF SessionInit, EndIsRight, RequestsAreRight, NoRequestLeftBehind
<1> QED BY <1>2, <1>3, <1>4 DEF SessionInv

\* mpx_open_handler
LEMMA OpenStep == SessionInv /\ Open => SessionInv'
<1> SUFFICES ASSUME SessionInv, Open PROVE SessionInv'
  OBVIOUS
<1>1. UNCHANGED <<stream, regexp, taken, buffer, control, partial, handled>> /\ link = "none"
      /\ session' \in BOOLEAN /\ link' \in {"open", "closed"}
  BY DEF Open, MayClose
<1>2. SessionTypes'
  BY <1>1 DEF SessionInv, SessionTypes
<1>3. Holding(buffer)'
  BY <1>1 DEF SessionInv, Holding, Done, EndOf
<1>4. RequestsAreRight' /\ EndIsRight'
  BY <1>1, RequestsStay DEF SessionInv, EndIsRight
<1>5. Rest' = 0
  <2>1. taken = 0 /\ Len(buffer.s) = taken - (Done - buffer.offset) /\ Done <= taken /\ Done \in Nat
        /\ buffer.offset \in Nat /\ Done - buffer.offset \in Nat
    BY <1>1, HoldingNumbers DEF SessionInv, EndIsRight
  <2> QED BY <1>1, <2>1 DEF Rest
<1> QED BY <1>2, <1>3, <1>4, <1>5 DEF SessionInv, NoRequestLeftBehind

\* mpx_input_handler: what was read goes behind the rest
LEMMA SessionInputStep == SessionInv /\ SessionInput => SessionInv'
<1> SUFFICES ASSUME SessionInv, SessionInput PROVE SessionInv'
  OBVIOUS
<1> DEFINE b == BufferReady(Compacted(buffer))
           d == Done - b.offset
<1>1. PICK n \in 1 .. Len(stream) : /\ n <= b.a - Len(b.s) /\ taken + n <= Len(stream) /\ taken' = taken + n
           /\ buffer' = [b EXCEPT !.s = @ \o SubSeq(stream, taken + 1, taken + n)]
  BY DEF SessionInput
<1>2. UNCHANGED <<stream, regexp, link, session, handled>> /\ partial' = TRUE /\ control' = "loop" /\ link = "open"
  BY DEF SessionInput
<1>3. SessionTypes /\ Holding(b)
  BY CompactedHolds, ReadyHolds DEF SessionInv
<1>4. /\ Done \in Nat /\ taken \in Nat /\ stream \in Seq(Chars) /\ Len(stream) \in Nat
      /\ taken <= Len(stream) /\ Done <= taken
      /\ b.offset \in Nat /\ b.a \in Nat /\ d \in Nat
      /\ b.s \in Seq(Chars) /\ Len(b.s) = taken - d /\ Len(b.s) \in Nat
  BY <1>3, HoldingNumbers
<1>5. /\ b \in [s : Seq(Chars), a : Nat, offset : Nat] /\ b.s = SubSeq(stream, d + 1, taken) /\ b.offset <= Done
  BY <1>3 DEF Holding
<1>6. d <= taken /\ n \in Nat /\ taken + n \in 0 .. Len(stream) /\ taken \in d .. Len(stream)
  <2>1. d = Done - b.offset /\ Len(stream) \in Nat
    BY <1>4
  <2>2. n \in Nat /\ taken + n <= Len(stream)
    BY <1>1, <2>1
  <2> HIDE DEF b, d
  <2> QED BY ONLY <1>4, <2>1, <2>2
<1> HIDE DEF b
<1> DEFINE u == SubSeq(stream, taken + 1, taken + n)
<1>7. u \in Seq(Chars) /\ Len(u) = n
  <2>1. taken <= taken + n /\ (taken + n) - taken = n
    BY <1>4, <1>6
  <2>2. u \in Seq(Chars) /\ Len(u) = (taken + n) - taken
    <3> DEFINE e == taken + n
    <3>1. e \in 0 .. Len(stream) /\ taken <= e
      BY <1>6, <2>1
    <3> HIDE DEF e
    <3>2. SubSeq(stream, taken + 1, e) \in Seq(Chars) /\ Len(SubSeq(stream, taken + 1, e)) = e - taken
      BY ONLY <1>4, <3>1, PieceOf
    <3> QED BY ONLY <3>2 DEF e, u
  <2> QED BY <2>1, <2>2
<1>8. b.s \o u = SubSeq(stream, d + 1, taken + n)
  <2> HIDE DEF d
  <2>1. d + 1 \in 1 .. Len(stream) + 1 /\ taken \in (d + 1) - 1 .. Len(stream) /\ taken + n \in taken .. Len(stream)
    BY <1>4, <1>6
  <2> QED BY <1>4, <1>5, <2>1, ConcatAdjacentSubSeq
<1> HIDE DEF u
<1>9. /\ buffer' \in [s : Seq(Chars), a : Nat, offset : Nat]
      /\ buffer'.s = b.s \o u /\ buffer'.a = b.a /\ buffer'.offset = b.offset
  <2>1. b.s \o u \in Seq(Chars) /\ buffer' = [b EXCEPT !.s = b.s \o u]
    BY <1>1, <1>4, <1>7, ConcatProperties DEF u
  <2> QED BY <1>5, <2>1
<1>10. Done' = Done
  BY <1>2 DEF Done, EndOf
<1>11. Holding(buffer)'
  <2>1. Len(buffer'.s) = Len(b.s) + n
    BY <1>4, <1>7, <1>9, ConcatProperties
  <2>2. Len(buffer'.s) <= buffer'.a
    <3>1. Len(b.s) \in Nat /\ b.a \in Nat /\ n \in Nat /\ n <= b.a - Len(b.s)
      BY <1>1, <1>4, <1>6
    <3> QED BY ONLY <1>9, <2>1, <3>1
  <2>3. buffer'.s = SubSeq(stream', Done' - buffer'.offset + 1, taken')
    BY <1>1, <1>2, <1>8, <1>9, <1>10
  <2>4. Done' <= taken' /\ buffer'.offset <= Done'
    <3>1. taken' = taken + n /\ buffer'.offset = b.offset /\ b.offset <= Done
      BY <1>1, <1>5, <1>9
    <3> QED BY ONLY <1>4, <1>6, <1>10, <3>1
  <2> QED BY <1>9, <2>2, <2>3, <2>4 DEF Holding
<1>12. SessionTypes'
  BY <1>1, <1>2, <1>3, <1>6, <1>9 DEF SessionTypes
<1>13. RequestsAreRight' /\ EndIsRight' /\ NoRequestLeftBehind'
  BY <1>2, RequestsStay DEF SessionInv, EndIsRight, NoRequestLeftBehind
<1> QED BY <1>11, <1>12, <1>13 DEF SessionInv

\* What sliding_buffer_ready does to the buffer is not seen by the matcher.
LEMMA MovedBuffer ==
  ASSUME SessionInv, NEW b, Holding(b), control = "poll", session, Len(b.s) - b.offset > 0
  PROVE  PcreExec(regexp, b.s, b.offset, TRUE).kind # "match"
<1>1. Len(b.s) - b.offset = taken - Done /\ Rest = taken - Done
  <2>1. SessionTypes /\ Holding(buffer)
    BY DEF SessionInv
  <2>2. /\ Done \in Nat /\ taken \in Nat /\ b.offset \in Nat /\ buffer.offset \in Nat
        /\ Len(b.s) = taken - (Done - b.offset) /\ Len(buffer.s) = taken - (Done - buffer.offset)
    BY <2>1, HoldingNumbers
  <2> QED BY <2>2 DEF Rest
<1>2. PcreExec(regexp, buffer.s, buffer.offset, TRUE).kind # "match"
  BY <1>1 DEF SessionInv, NoRequestLeftBehind
<1> DEFINE w == PcreExec(regexp, SubSeq(stream, 1, taken), Done, TRUE)
<1>3. /\ PcreExec(regexp, buffer.s, buffer.offset, TRUE).kind = w.kind
      /\ PcreExec(regexp, b.s, b.offset, TRUE).kind = w.kind
  BY MatchInBuffer DEF SessionInv, SameMatch
<1> QED BY <1>2, <1>3

\* ... also when the memory for more room is not there
LEMMA NoMemoryStep == SessionInv /\ InputNoMemory => SessionInv'
<1> SUFFICES ASSUME SessionInv, InputNoMemory PROVE SessionInv'
  OBVIOUS
<1>1. /\ buffer' = Compacted(buffer) /\ link' = "closed" /\ control = "poll"
      /\ UNCHANGED <<stream, regexp, taken, session, control, partial, handled>>
  BY DEF InputNoMemory
<1>2. SessionTypes /\ Holding(buffer')
  BY <1>1, CompactedHolds DEF SessionInv
<1>3. Done' = Done
  BY <1>1 DEF Done, EndOf
<1>4. Holding(buffer)'
  BY <1>1, <1>2, <1>3 DEF Holding
<1>5. SessionTypes'
  BY <1>1, <1>2 DEF SessionTypes, Holding
<1>6. RequestsAreRight' /\ EndIsRight'
  BY <1>1, RequestsStay DEF SessionInv, EndIsRight
<1>7. NoRequestLeftBehind'
  BY <1>1, <1>2, MovedBuffer DEF NoRequestLeftBehind, Rest
<1> QED BY <1>4, <1>5, <1>6, <1>7 DEF SessionInv

\* The end of the stream: what is left is matched as it is, or the session is gone.
LEMMA EndStep == SessionInv /\ InputEnds => SessionInv'
<1> SUFFICES ASSUME SessionInv, InputEnds PROVE SessionInv'
  OBVIOUS
<1>1. /\ buffer' = BufferReady(Compacted(buffer)) /\ taken = Len(stream) /\ partial' = FALSE
      /\ UNCHANGED <<stream, regexp, taken, handled>> /\ link' \in {"closed", "removed"}
      /\ (control' = "loop" /\ UNCHANGED session) \/ (session' = FALSE /\ control' \in {"poll", "wild"})
  BY DEF InputEnds
<1>2. SessionTypes /\ Holding(buffer')
  BY <1>1, CompactedHolds, ReadyHolds DEF SessionInv
<1>3. Done' = Done
  BY <1>1 DEF Done, EndOf
<1>4. Holding(buffer)'
  BY <1>1, <1>2, <1>3 DEF Holding
<1>5. SessionTypes'
  BY <1>1, <1>2 DEF SessionTypes, Holding
<1>6. RequestsAreRight' /\ EndIsRight' /\ NoRequestLeftBehind'
  BY <1>1, RequestsStay DEF SessionInv, EndIsRight, NoRequestLeftBehind
<1> QED BY <1>4, <1>5, <1>6 DEF SessionInv

\* The loop of mpx_input_handler: one request goes to the handler.
LEMMA RequestStep == SessionInv /\ Request => SessionInv'
<1> SUFFICES ASSUME SessionInv, Request PROVE SessionInv'
  OBVIOUS
<1> DEFINE m == PcreExec(regexp, buffer.s, buffer.offset, partial)
           w == PcreExec(regexp, stream, Done, FALSE)
           d == Done - buffer.offset
           r == [from |-> Done, text |-> SubSeq(buffer.s, buffer.offset + 1, m.end), caps |-> Captures(m)]
<1>1. /\ control = "loop" /\ Rest > 0 /\ m.kind = "match" /\ UNCHANGED <<stream, regexp, taken, session, partial>>
      /\ \/ ScanAborts(m) /\ control' = "aborted" /\ UNCHANGED <<link, buffer, handled>>
         \/ /\ ~ScanAborts(m) /\ handled' = Append(handled, r) /\ buffer' = [buffer EXCEPT !.offset = m.end]
            /\ link' \in {link, "closed"} /\ control' = "loop"
  BY DEF Request, MayClose, AfterRequest
<1>2. SessionTypes /\ Holding(buffer) /\ EndIsRight /\ RequestsAreRight
  BY DEF SessionInv
<1>3. w.kind = "match" /\ LiesWithin(w, Done, taken) /\ SameMatch(m, w, d)
  BY <1>1, <1>2, RequestMatches
<1>4. CASE ScanAborts(m)
  <2>1. UNCHANGED <<stream, regexp, taken, session, partial, link, buffer, handled>> /\ control' = "aborted"
    BY <1>1, <1>4
  <2>2. SessionTypes'
    BY <1>2, <2>1 DEF SessionTypes
  <2>3. Holding(buffer)'
    BY <1>2, <2>1 DEF Holding, Done, EndOf
  <2>4. RequestsAreRight' /\ EndIsRight' /\ NoRequestLeftBehind'
    BY <1>1, <1>2, <2>1, RequestsStay DEF EndIsRight, NoRequestLeftBehind
  <2> QED BY <2>2, <2>3, <2>4 DEF SessionInv
<1>5. CASE ~ScanAborts(m)
  <2>1. /\ handled' = Append(handled, r) /\ buffer' = [buffer EXCEPT !.offset = m.end]
        /\ link' \in {link, "closed"} /\ control' = "loop"
    BY <1>1, <1>5
  <2>2. /\ Done \in Nat /\ taken \in Nat /\ Len(stream) \in Nat /\ taken <= Len(stream) /\ Done <= taken
        /\ buffer.offset \in Nat /\ d \in Nat /\ Len(buffer.s) = taken - d /\ buffer.offset + d = Done
    BY <1>2, HoldingNumbers
  <2>3. w.end \in Done .. taken /\ m.end = w.end - d
    BY <1>3 DEF LiesWithin, SameMatch
  <2>caps. /\ r.caps = [j \in 1 .. w.count |->
                IF w.caps[j][1] = -1 THEN << >> ELSE SubSeq(stream, w.caps[j][1] + 1, w.caps[j][2])]
           /\ r.caps \in Seq(Seq(Chars))
    <3> HIDE DEF m, w
    <3>1. /\ Captures(m) = [j \in 1 .. w.count |->
                IF w.caps[j][1] = -1 THEN << >> ELSE SubSeq(stream, w.caps[j][1] + 1, w.caps[j][2])]
          /\ Captures(m) \in Seq(Seq(Chars))
      BY <1>2, <1>3, <1>5, CapturesInBuffer
    <3>2. r.caps = Captures(m)
      OBVIOUS
    <3> QED BY <3>1, <3>2
  <2> DEFINE e == m.end
             f == w.end
             o == buffer.offset
  <2> HIDE DEF d
  <2>4. e \in Nat /\ o <= e /\ e <= Len(buffer.s) /\ d + o = Done /\ d + e = f /\ e - o = f - Done
    <3>1. f \in Done .. taken /\ e = f - d
      BY <2>3
    <3>2. Len(buffer.s) = taken - d
      BY <2>2
    <3> HIDE DEF e, f
    <3> QED BY ONLY <2>2, <3>1, <3>2
  <2>text. r.text = SubSeq(stream, Done + 1, f) /\ r.text \in Seq(Chars) /\ Len(r.text) = f - Done
    <3> HIDE DEF e, f, o
    <3>1. /\ SubSeq(buffer.s, o + 1, e) = SubSeq(stream, d + o + 1, d + e)
          /\ SubSeq(buffer.s, o + 1, e) \in Seq(Chars) /\ Len(SubSeq(buffer.s, o + 1, e)) = e - o
      BY <1>2, <2>2, <2>4, TextInBuffer DEF d, o
    <3>2. r.text = SubSeq(buffer.s, o + 1, e)
      BY DEF e, o
    <3> QED BY <2>4, <3>1, <3>2
  <2>from. r.from = Done /\ r \in Handled
    <3> DEFINE x == r.text
               y == r.caps
    <3>1. r = [from |-> Done, text |-> x, caps |-> y] /\ r.from = Done
      OBVIOUS
    <3>2. Done \in Nat /\ x \in Seq(Chars) /\ y \in Seq(Seq(Chars))
      BY <2>2, <2>text, <2>caps
    <3> HIDE DEF r, x, y
    <3> QED BY ONLY <3>1, <3>2 DEF Handled
  <2> HIDE DEF r, m, w
  <2>5. /\ handled \in Seq(Handled) /\ Len(handled) \in Nat
        /\ handled' \in Seq(Handled) /\ Len(handled') = Len(handled) + 1
        /\ handled'[Len(handled) + 1] = r /\ \A k \in 1 .. Len(handled) : handled'[k] = handled[k]
    <3>1. handled \in Seq(Handled)
      BY <1>2 DEF SessionTypes
    <3> QED BY <2>1, <2>from, <3>1, AppendProperties
  <2>6. handled' # << >> /\ Done' = f
    <3>1. handled' # << >>
      BY <2>5
    <3>2. Done' = r.from + Len(r.text)
      BY <2>5, <3>1 DEF Done, EndOf
    <3>3. f \in Nat
      <4>1. f \in Done .. taken
        BY <2>3
      <4> HIDE DEF f
      <4> QED BY <2>2, <4>1
    <3> HIDE DEF f
    <3> QED BY <2>2, <2>from, <2>text, <3>1, <3>2, <3>3
  <2>7. /\ buffer' \in [s : Seq(Chars), a : Nat, offset : Nat]
        /\ buffer'.s = buffer.s /\ buffer'.a = buffer.a /\ buffer'.offset = e
    <3>1. buffer \in [s : Seq(Chars), a : Nat, offset : Nat] /\ buffer' = [buffer EXCEPT !.offset = e] /\ e \in Nat
      BY <1>2, <2>1, <2>4 DEF SessionTypes
    <3> HIDE DEF e
    <3> QED BY ONLY <3>1
  <2>8. Holding(buffer)'
    <3>1. Done' - buffer'.offset = Done - buffer.offset
      <4>1. f \in Int /\ f = d + e /\ d = Done - buffer.offset /\ e \in Nat
        BY <2>2, <2>3, <2>4 DEF d
      <4> HIDE DEF e, f
      <4> QED BY <2>2, <2>6, <2>7, <4>1
    <3>2. buffer'.offset <= Done' /\ Done' <= taken'
      <4>1. f \in Done .. taken /\ f = d + e /\ e \in Nat /\ taken' = taken
        BY <1>1, <2>3, <2>4
      <4> HIDE DEF e, f
      <4> QED BY <2>2, <2>6, <2>7, <4>1
    <3>3. buffer'.s = SubSeq(stream', Done' - buffer'.offset + 1, taken') /\ Len(buffer'.s) <= buffer'.a
      BY <1>1, <1>2, <2>7, <3>1 DEF Holding
    <3> QED BY <2>7, <3>2, <3>3 DEF Holding
  <2>9. SessionTypes'
    BY <1>1, <1>2, <2>1, <2>5, <2>7 DEF SessionTypes
  <2>10. EndIsRight' /\ NoRequestLeftBehind'
    BY <1>1, <1>2, <2>1 DEF EndIsRight, NoRequestLeftBehind
  <2>11. RequestsAreRight'
    <3>1. r = RecordAt(Done) /\ PcreExec(regexp, stream, Done, FALSE).kind = "match"
      <4> DEFINE x == r.text
                 y == r.caps
      <4>1. r = [from |-> Done, text |-> x, caps |-> y]
        BY DEF r
      <4>2. x = SubSeq(stream, Done + 1, w.end) /\ y = [j \in 1 .. w.count |->
                IF w.caps[j][1] = -1 THEN << >> ELSE SubSeq(stream, w.caps[j][1] + 1, w.caps[j][2])]
        BY <2>text, <2>caps
      <4> HIDE DEF x, y
      <4>3. r = [from |-> Done, text |-> SubSeq(stream, Done + 1, w.end), caps |-> [j \in 1 .. w.count |->
                IF w.caps[j][1] = -1 THEN << >> ELSE SubSeq(stream, w.caps[j][1] + 1, w.caps[j][2])]]
        BY ONLY <4>1, <4>2
      <4> QED BY <1>3, <4>3 DEF RecordAt, w
    <3>2. \A from : RecordAt(from)' = RecordAt(from)
      BY <1>1 DEF RecordAt
    <3>3. stream' = stream /\ regexp' = regexp
      BY <1>1
    <3> SUFFICES ASSUME NEW k \in 1 .. Len(handled')
                 PROVE  /\ handled'[k].from = IF k = 1 THEN 0 ELSE EndOf(k - 1)'
                        /\ PcreExec(regexp, stream, handled'[k].from, FALSE).kind = "match"
                        /\ handled'[k] = RecordAt(handled'[k].from)
      BY <3>2, <3>3 DEF RequestsAreRight
    <3>4. CASE k = Len(handled) + 1
      <4>1. handled'[k] = r /\ r.from = Done
        BY <2>5, <2>from, <3>4
      <4>2. k # 1 => handled # << >> /\ EndOf(k - 1)' = EndOf(Len(handled))
        BY <2>5, <3>4 DEF EndOf
      <4>3. k = 1 => handled = << >>
        BY <2>5, <3>4
      <4>4. Done = IF k = 1 THEN 0 ELSE EndOf(k - 1)'
        BY <4>2, <4>3 DEF Done
      <4> QED BY <3>1, <4>1, <4>4
    <3>5. CASE k # Len(handled) + 1
      <4>1. k \in 1 .. Len(handled)
        BY <2>5, <3>5
      <4>2. handled'[k] = handled[k]
        BY <2>5, <4>1
      <4>3. k # 1 => EndOf(k - 1)' = EndOf(k - 1)
        BY <2>5, <4>1 DEF EndOf
      <4> QED BY <1>2, <4>1, <4>2, <4>3 DEF RequestsAreRight
    <3> QED BY <3>4, <3>5
  <2> QED BY <2>8, <2>9, <2>10, <2>11 DEF SessionInv
<1> QED BY <1>4, <1>5

\* The loop ends because nothing is left, or because nothing more matches.
LEMMA LoopEndStep == SessionInv /\ LoopEnds => SessionInv'
<1> SUFFICES ASSUME SessionInv, LoopEnds PROVE SessionInv'
  OBVIOUS
<1>1. /\ UNCHANGED <<stream, regexp, taken, session, buffer, partial, handled>> /\ control' = "poll"
      /\ control = "loop" /\ link' \in {link, "closed"}
      /\ Rest = 0 \/ PcreExec(regexp, buffer.s, buffer.offset, partial).kind # "match"
  BY DEF LoopEnds
<1>2. SessionTypes /\ Holding(buffer) /\ EndIsRight /\ RequestsAreRight
  BY DEF SessionInv
<1>3. SessionTypes'
  BY <1>1, <1>2 DEF SessionTypes
<1>4. Holding(buffer)'
  BY <1>1, <1>2 DEF Holding, Done, EndOf
<1>5. RequestsAreRight' /\ EndIsRight'
  BY <1>1, <1>2, RequestsStay DEF EndIsRight
<1>6. NoRequestLeftBehind'
  <2> SUFFICES ASSUME Rest > 0, PcreExec(regexp, buffer.s, buffer.offset, TRUE).kind = "match" PROVE FALSE
    BY <1>1 DEF NoRequestLeftBehind, Rest
  <2>1. PcreExec(regexp, buffer.s, buffer.offset, partial).kind # "match" /\ partial \in BOOLEAN
    BY <1>1, <1>2 DEF SessionTypes
  <2> DEFINE W(h) == PcreExec(regexp, SubSeq(stream, 1, taken), Done, h)
  <2>m. Done < taken
    BY <1>2, HoldingNumbers DEF Rest
  <2>2. W(TRUE).kind = "match" /\ \A l \in taken .. Len(stream), h \in BOOLEAN :
           PcreExec(regexp, SubSeq(stream, 1, l), Done, h) = W(TRUE)
    BY <1>2, <2>m, MatchInBuffer DEF SameMatch
  <2>3. taken \in taken .. Len(stream)
    BY <1>2, HoldingNumbers
  <2>4. W(FALSE).kind = "match"
    BY <2>2, <2>3
  <2>5. PcreExec(regexp, buffer.s, buffer.offset, FALSE).kind = "match"
    BY <1>2, <2>4, MatchInBuffer DEF SameMatch
  <2> QED BY <2>1, <2>5
<1> QED BY <1>3, <1>4, <1>5, <1>6 DEF SessionInv

\* Output and the removal of a link leave the input alone.
LEMMA LinkOutputStep == SessionInv /\ LinkOutput => SessionInv'
<1> SUFFICES ASSUME SessionInv, LinkOutput PROVE SessionInv'
  OBVIOUS
<1>1. /\ UNCHANGED <<stream, regexp, taken, buffer, control, partial, handled>>
      /\ link # "none" /\ link' \in {link, "removed"} /\ session' \in {session, FALSE}
  BY DEF LinkOutput, RemoveLink
<1>2. SessionTypes'
  BY <1>1 DEF SessionInv, SessionTypes
<1>3. Holding(buffer)'
  BY <1>1 DEF SessionInv, Holding, Done, EndOf
<1>4. RequestsAreRight' /\ EndIsRight'
  BY <1>1, RequestsStay DEF SessionInv, EndIsRight
<1>5. NoRequestLeftBehind'
  BY <1>1 DEF SessionInv, SessionTypes, NoRequestLeftBehind, Rest
<1> QED BY <1>2, <1>3, <1>4, <1>5 DEF SessionInv

\* Every step keeps the invariant.
LEMMA SessionStep == SessionInv /\ [SessionNext]_svars => SessionInv'
<1> SUFFICES ASSUME SessionInv, UNCHANGED svars PROVE SessionInv'
  BY OpenStep, SessionInputStep, NoMemoryStep, EndStep, RequestStep, LoopEndStep, LinkOutputStep DEF SessionNext
<1>1. UNCHANGED <<stream, regexp, taken, link, session, buffer, control, partial, handled>>
  BY DEF svars
<1>2. SessionTypes' /\ EndIsRight' /\ RequestsAreRight' /\ NoRequestLeftBehind'
  BY <1>1, RequestsStay DEF SessionInv, SessionTypes, EndIsRight, NoRequestLeftBehind, Rest
<1>3. Holding(buffer)'
  BY <1>1 DEF SessionInv, Holding, Done, EndOf
<1> QED BY <1>2, <1>3 DEF SessionInv

\* The inductive invariant of a session
THEOREM SessionInvariant == SessionSpec => []SessionInv
BY SessionStarts, SessionStep, PTL DEF SessionSpec

\* mpx_session.c, mpx_input_handler and mpx_session_scan: whatever portions the
\* bytes arrive in and wherever the buffer slides, the handler gets the requests
\* of the stream with their captures, in order, none twice and none cut.
THEOREM RequestsHold == SessionSpec => []RequestsAreRight
<1>1. SessionInv => RequestsAreRight
  BY DEF SessionInv
<1> QED BY <1>1, SessionInvariant, PTL

\* sliding_buffer.c, sliding_buffer_ready: moving the contents and enlarging the
\* buffer lose and repeat nothing of what was read and not yet handled.
THEOREM BufferHolds == SessionSpec => []BufferHoldsTheRest
<1>1. ASSUME SessionInv PROVE BufferHoldsTheRest
  <2> DEFINE o == buffer.offset
             n == Len(buffer.s)
             d == Done - buffer.offset
  <2>1. SessionTypes /\ Holding(buffer) /\ n <= buffer.a
    BY <1>1 DEF SessionInv, Holding
  <2>2. Done \in Nat /\ taken \in Nat /\ Done <= taken /\ o \in Nat /\ d \in Nat /\ n = taken - d /\ d = Done - o
    BY <2>1, HoldingNumbers
  <2>n. n \in Nat /\ n <= Len(buffer.s)
    BY <2>1, HoldingNumbers
  <2> HIDE DEF o, n, d
  <2>3. o <= n /\ d + o = Done /\ d + n = taken
    BY ONLY <2>2, <2>n
  <2>4. SubSeq(buffer.s, o + 1, n) = SubSeq(stream, d + o + 1, d + n)
    BY ONLY <2>1, <2>2, <2>3, <2>n, TextInBuffer DEF d
  <2> QED BY <2>1, <2>3, <2>4 DEF BufferHoldsTheRest, o, n
<1> QED BY <1>1, SessionInvariant, PTL

\* mpx_session.c, mpx_input_handler: when it returns no complete request waits in
\* the buffer for input that may never come.
THEOREM NothingWaits == SessionSpec => []NoRequestLeftBehind
<1>1. SessionInv => NoRequestLeftBehind
  BY DEF SessionInv
<1> QED BY <1>1, SessionInvariant, PTL
-----------------------------------------------------------------------------
(* The input buffers (InbufScan), for chars that are not negative.         *)

At(ib) == ib.taken - Left(ib)

\* An input buffer holds what was taken last from the descriptor.
Filling(ib) ==
    /\ ib \in [s : Seq(Chars), pos : Nat, taken : Nat]
    /\ ib.pos <= Len(ib.s) /\ Len(ib.s) <= ib.taken /\ ib.taken <= Len(source)
    /\ ib.s = SubSeq(source, ib.taken - Len(ib.s) + 1, ib.taken)

\* A call has consumed what it has in `input', from the position where it began;
\* after a call that delivered something the last character can be put back.
InbufInv ==
    /\ source \in Streams /\ Filling(ibuf) /\ call \in {"idle", "line", "scan", "aborted"}
    /\ begun \in Nat /\ begun <= At(ibuf) /\ input = SubSeq(source, begun + 1, At(ibuf))
    /\ call = "idle" => begun = At(ibuf)
    /\ runs \in Nat /\ runs <= Len(input)
    /\ call = "scan" => regex \in Patterns
    /\ call = "line" => \A k \in 1 .. Len(input) : input[k] # "\n"
    /\ call = "idle" /\ ibuf.pos = 0 => (result.op \in {"read", "char"} => result.value = << >>)

\* What a filling is, in numbers
LEMMA FillingNumbers ==
  ASSUME source \in Streams, NEW ib, Filling(ib)
  PROVE  /\ source \in Seq(Chars) /\ Len(source) \in Nat /\ ib.s \in Seq(Chars) /\ Len(ib.s) \in Nat
         /\ ib.pos \in Nat /\ ib.taken \in Nat /\ Left(ib) \in Nat /\ At(ib) \in Nat
         /\ Left(ib) = Len(ib.s) - ib.pos /\ At(ib) = (ib.taken - Len(ib.s)) + ib.pos
         /\ ib.pos <= Len(ib.s) /\ Len(ib.s) <= ib.taken /\ ib.taken <= Len(source)
         /\ ib.taken - Len(ib.s) \in Nat /\ At(ib) + Left(ib) = ib.taken
<1>1. source \in Seq(Chars) /\ ib.s \in Seq(Chars) /\ ib.pos \in Nat /\ ib.taken \in Nat
  BY StreamsAssumption DEF Filling
<1>2. Len(source) \in Nat /\ Len(ib.s) \in Nat
  BY <1>1
<1>3. ib.pos <= Len(ib.s) /\ Len(ib.s) <= ib.taken /\ ib.taken <= Len(source)
  BY DEF Filling
<1> DEFINE n == Len(ib.s)
           l == Len(source)
<1>4. Left(ib) = n - ib.pos /\ At(ib) = ib.taken - (n - ib.pos)
  BY DEF At, Left
<1>5. n \in Nat /\ l \in Nat /\ ib.pos <= n /\ n <= ib.taken /\ ib.taken <= l
  BY <1>2, <1>3
<1> HIDE DEF n, l
<1>6. Left(ib) \in Nat /\ At(ib) \in Nat /\ At(ib) = (ib.taken - n) + ib.pos
      /\ ib.taken - n \in Nat /\ At(ib) + Left(ib) = ib.taken
  BY ONLY <1>1, <1>4, <1>5
<1> QED BY <1>1, <1>2, <1>3, <1>4, <1>6 DEF n

\* What is left of a filling follows in the stream.
LEMMA UnreadIs ==
  ASSUME source \in Streams, NEW ib, Filling(ib)
  PROVE  /\ Unread(ib) = SubSeq(source, At(ib) + 1, ib.taken)
         /\ Unread(ib) \in Seq(Chars) /\ Len(Unread(ib)) = Left(ib)
         /\ Left(ib) > 0 => Head(Unread(ib)) = source[At(ib) + 1]
<1> DEFINE b == ib.taken - Len(ib.s)
           n == ib.taken
           i == ib.pos
           j == Len(ib.s)
           t == source
<1>0. /\ t \in Seq(Chars) /\ Len(t) \in Nat /\ j \in Nat /\ i \in Nat /\ n \in Nat
      /\ Left(ib) \in Nat /\ At(ib) \in Nat /\ Left(ib) = j - i /\ At(ib) = b + i
      /\ i <= j /\ j <= n /\ n <= Len(t) /\ b = n - j
  BY FillingNumbers
<1> HIDE DEF b, n, i, j, t
<1>1. /\ t \in Seq(Chars) /\ Len(t) \in Nat /\ b \in Nat /\ n \in 0 .. Len(t) /\ b <= n /\ i \in Nat /\ j \in Nat
      /\ i <= j /\ j <= n - b /\ b + j = n /\ b + i = At(ib) /\ Left(ib) = j - i /\ n = At(ib) + Left(ib)
      /\ At(ib) \in Nat /\ Left(ib) \in Nat
  BY ONLY <1>0
<1>2. ib.s = SubSeq(t, b + 1, n)
  BY DEF Filling, t, b, n
<1>3. Unread(ib) = SubSeq(ib.s, i + 1, j)
  BY DEF Unread, i, j
<1>4. SubSeq(SubSeq(t, b + 1, n), i + 1, j) = SubSeq(t, b + i + 1, b + j)
  <2>1. /\ t \in Seq(Chars) /\ b \in Nat /\ n \in 0 .. Len(t) /\ b <= n /\ i \in Nat /\ j \in Nat
        /\ i <= j /\ j <= n - b
    BY <1>1
  <2> QED BY ONLY <2>1, PieceOfPiece
<1>5. Unread(ib) = SubSeq(t, At(ib) + 1, n)
  BY ONLY <1>1, <1>2, <1>3, <1>4
<1> DEFINE a == At(ib)
<1>6. a \in Nat /\ a <= n /\ n - a = Left(ib)
  BY <1>1
<1> HIDE DEF a
<1>7. /\ SubSeq(t, a + 1, n) \in Seq(Chars) /\ Len(SubSeq(t, a + 1, n)) = n - a
      /\ \A k \in 1 .. n - a : SubSeq(t, a + 1, n)[k] = t[a + k]
  BY ONLY <1>1, <1>6, PieceOf
<1>8. ASSUME Left(ib) > 0 PROVE Head(SubSeq(t, a + 1, n)) = t[a + 1]
  <2>1. 1 \in 1 .. n - a
    BY <1>1, <1>6, <1>8
  <2>2. SubSeq(t, a + 1, n)[1] = t[a + 1]
    BY <1>7, <2>1
  <2> DEFINE v == SubSeq(t, a + 1, n)
  <2> HIDE DEF v
  <2>3. Head(v) = v[1]
    OBVIOUS
  <2> QED BY <2>2, <2>3 DEF v
<1> QED BY <1>5, <1>6, <1>7, <1>8 DEF a, n, t

\* The position in the filling may be moved.
LEMMA PosMoved ==
  ASSUME source \in Streams, NEW ib, Filling(ib), NEW p \in Nat, p <= Len(ib.s)
  PROVE  /\ Filling([ib EXCEPT !.pos = p]) /\ At([ib EXCEPT !.pos = p]) = At(ib) + p - ib.pos
         /\ [ib EXCEPT !.pos = p].pos = p
<1> DEFINE c == [ib EXCEPT !.pos = p]
<1>1. ib \in [s : Seq(Chars), pos : Nat, taken : Nat]
  BY DEF Filling
<1>2. c \in [s : Seq(Chars), pos : Nat, taken : Nat] /\ c.s = ib.s /\ c.pos = p /\ c.taken = ib.taken
  BY <1>1
<1> HIDE DEF c
<1>3. Filling(c)
  BY <1>2 DEF Filling
<1>4. At(c) = At(ib) + p - ib.pos
  <2>1. Len(ib.s) \in Nat /\ ib.pos \in Nat /\ ib.taken \in Nat
    BY FillingNumbers
  <2>2. At(c) = ib.taken - (Len(ib.s) - p) /\ At(ib) = ib.taken - (Len(ib.s) - ib.pos)
    BY <1>2 DEF At, Left
  <2> QED BY <2>1, <2>2
<1> QED BY <1>2, <1>3, <1>4 DEF c

LEMMA AdvancedIs ==
  ASSUME source \in Streams, NEW ib, Filling(ib), Left(ib) > 0
  PROVE  Filling(Advanced(ib)) /\ At(Advanced(ib)) = At(ib) + 1 /\ Advanced(ib).pos > 0
<1>1. Advanced(ib) = [ib EXCEPT !.pos = ib.pos + 1]
  BY FillingNumbers DEF Advanced
<1>2. ib.pos + 1 \in Nat /\ ib.pos + 1 <= Len(ib.s) /\ ib.pos \in Nat /\ At(ib) \in Nat
  <2>1. /\ ib.pos \in Nat /\ Len(ib.s) \in Nat /\ At(ib) \in Nat /\ Left(ib) \in Nat
        /\ Left(ib) = Len(ib.s) - ib.pos
    BY FillingNumbers
  <2> QED BY <2>1
<1> DEFINE p == ib.pos + 1
<1>3. p \in Nat /\ p <= Len(ib.s) /\ p - ib.pos = 1 /\ p > 0
  BY <1>2
<1> HIDE DEF p
<1>4. /\ Filling([ib EXCEPT !.pos = p]) /\ At([ib EXCEPT !.pos = p]) = At(ib) + p - ib.pos
      /\ [ib EXCEPT !.pos = p].pos = p
  BY <1>3, PosMoved
<1> QED BY <1>1, <1>2, <1>3, <1>4 DEF p

\* inbuf_read, first half: the position in the stream remains, and there is
\* something to read unless the stream is at its end.
LEMMA FilledIs ==
  ASSUME source \in Streams, Filling(ibuf), NEW ib \in Filled(ibuf)
  PROVE  Filling(ib) /\ At(ib) = At(ibuf) /\ (Left(ib) = 0 => At(ib) = Len(source) /\ ib.taken = Len(source))
<1>1. CASE ibuf.pos < Len(ibuf.s) \/ ibuf.taken = Len(source)
  <2>1. ib = ibuf
    BY <1>1 DEF Filled
  <2>2. Left(ibuf) = 0 => At(ibuf) = Len(source) /\ ibuf.taken = Len(source)
    <3>1. /\ ibuf.pos \in Nat /\ Len(ibuf.s) \in Nat /\ ibuf.taken \in Nat /\ Left(ibuf) \in Nat
          /\ Left(ibuf) = Len(ibuf.s) - ibuf.pos /\ At(ibuf) + Left(ibuf) = ibuf.taken /\ At(ibuf) \in Nat
      BY FillingNumbers
    <3> QED BY <1>1, <3>1
  <2> QED BY <2>1, <2>2
<1>2. CASE ~(ibuf.pos < Len(ibuf.s) \/ ibuf.taken = Len(source))
  <2>1. PICK n \in 1 .. MaxFill : /\ ibuf.taken + n <= Len(source)
          /\ ib = [s |-> SubSeq(source, ibuf.taken + 1, ibuf.taken + n), pos |-> 0, taken |-> ibuf.taken + n]
    BY <1>2 DEF Filled
  <2> DEFINE b == ibuf.taken
             e == ibuf.taken + n
  <2>2. /\ source \in Seq(Chars) /\ Len(source) \in Nat /\ b \in Nat /\ e \in Nat /\ e <= Len(source)
        /\ b <= e /\ e - b > 0 /\ At(ibuf) = b
    <3>1. n \in Nat /\ n > 0
      BY InbufBounds
    <3>2. /\ source \in Seq(Chars) /\ Len(source) \in Nat /\ ibuf.taken \in Nat /\ Len(ibuf.s) \in Nat
          /\ ibuf.pos \in Nat /\ ibuf.pos <= Len(ibuf.s) /\ At(ibuf) = (ibuf.taken - Len(ibuf.s)) + ibuf.pos
      BY FillingNumbers
    <3>3. ibuf.pos = Len(ibuf.s)
      BY <1>2, <3>2
    <3>4. At(ibuf) = ibuf.taken
      BY ONLY <3>2, <3>3
    <3>5. ibuf.taken + n <= Len(source)
      BY <2>1
    <3>6. source \in Seq(Chars) /\ Len(source) \in Nat /\ ibuf.taken \in Nat
      BY <3>2
    <3> DEFINE x == ibuf.taken
               l == Len(source)
    <3>7. n \in Nat /\ n > 0 /\ x \in Nat /\ l \in Nat /\ x + n <= l
      BY <3>1, <3>5, <3>6
    <3> HIDE DEF x, l
    <3>8. x + n \in Nat /\ x + n <= l /\ x <= x + n /\ (x + n) - x > 0
      BY ONLY <3>7
    <3> QED BY <3>4, <3>6, <3>8 DEF x, l
  <2>3. ib = [s |-> SubSeq(source, b + 1, e), pos |-> 0, taken |-> e]
    BY <2>1
  <2> HIDE DEF b, e
  <2>4. SubSeq(source, b + 1, e) \in Seq(Chars) /\ Len(SubSeq(source, b + 1, e)) = e - b
    BY ONLY <2>2, PieceOf
  <2>5. Len(ib.s) = e - b /\ ib.s = SubSeq(source, b + 1, e) /\ ib.pos = 0 /\ ib.taken = e
        /\ ib \in [s : Seq(Chars), pos : Nat, taken : Nat]
    BY <2>2, <2>3, <2>4
  <2>6. e - Len(ib.s) = b
    BY <2>2, <2>5
  <2>7. Filling(ib)
    BY <2>2, <2>5, <2>6 DEF Filling
  <2>8. At(ib) = b /\ Left(ib) > 0 
    BY <2>2, <2>5 DEF At, Left
  <2> QED BY <2>2, <2>7, <2>8
<1> QED BY <1>1, <1>2

\* The caller's position is where the call began.
LEMMA CallersView ==
  ASSUME InbufInv
  PROVE  /\ Abstract!Rest = SubSeq(source, begun + 1, Len(source))
         /\ (IF call = "idle" THEN Consumed ELSE begun) = begun
<1>1. (IF call = "idle" THEN Consumed ELSE begun) = begun
  BY DEF InbufInv, At, Consumed
<1> QED BY <1>1 DEF Abstract!Rest

\* Pieces that begin at the same place agree, however long they are.
LEMMA SamePiece ==
  ASSUME NEW S, NEW t \in Seq(S), NEW b \in Nat, NEW m \in 0 .. Len(t), NEW n \in 0 .. Len(t), b <= m, b <= n,
         NEW i \in Nat, NEW j \in Nat, i <= j, j <= m - b, j <= n - b
  PROVE  SubSeq(SubSeq(t, b + 1, m), i + 1, j) = SubSeq(SubSeq(t, b + 1, n), i + 1, j)
<1>1. SubSeq(SubSeq(t, b + 1, m), i + 1, j) = SubSeq(t, b + i + 1, b + j)
  BY PieceOfPiece
<1>2. SubSeq(SubSeq(t, b + 1, n), i + 1, j) = SubSeq(t, b + i + 1, b + j)
  BY PieceOfPiece
<1> QED BY <1>1, <1>2

\* A piece and what follows it
LEMMA PiecesJoined ==
  ASSUME NEW S, NEW t \in Seq(S), NEW b \in Nat, NEW k \in Nat, NEW n \in Nat, b <= k, k <= n, n <= Len(t)
  PROVE  SubSeq(t, b + 1, k) \o SubSeq(t, k + 1, n) = SubSeq(t, b + 1, n)
<1> DEFINE m == b + 1
<1>1. Len(t) \in Nat
  OBVIOUS
<1>2. m \in 1 .. Len(t) + 1 /\ k \in m - 1 .. Len(t) /\ n \in k .. Len(t)
  BY <1>1
<1> HIDE DEF m
<1>3. SubSeq(t, m, k) \o SubSeq(t, k + 1, n) = SubSeq(t, m, n)
  BY ONLY <1>2, t \in Seq(S), ConcatAdjacentSubSeq
<1> QED BY <1>3 DEF m

\* The rest of the stream, for the caller
LEMMA RestIs ==
  ASSUME InbufInv
  PROVE  /\ Abstract!Rest = SubSeq(source, begun + 1, Len(source)) /\ Abstract!Rest \in Seq(Chars)
         /\ Len(Abstract!Rest) = Len(source) - begun /\ begun \in Nat /\ begun <= Len(source)
         /\ source \in Seq(Chars) /\ Len(source) \in Nat
         /\ \A k \in 1 .. Len(source) - begun : Abstract!Rest[k] = source[begun + k]
<1> DEFINE n == Len(source)
<1>1. source \in Streams /\ Filling(ibuf) /\ begun \in Nat /\ begun <= At(ibuf)
  BY DEF InbufInv
<1>2. source \in Seq(Chars) /\ n \in Nat /\ At(ibuf) \in Nat /\ Left(ibuf) \in Nat /\ ibuf.taken \in Nat
      /\ At(ibuf) + Left(ibuf) = ibuf.taken /\ ibuf.taken <= n
  BY <1>1, FillingNumbers
<1>3. begun <= n /\ n \in 0 .. Len(source)
  BY <1>1, <1>2
<1>4. Abstract!Rest = SubSeq(source, begun + 1, n)
  BY CallersView
<1> HIDE DEF n
<1>5. /\ SubSeq(source, begun + 1, n) \in Seq(Chars) /\ Len(SubSeq(source, begun + 1, n)) = n - begun
      /\ \A k \in 1 .. n - begun : SubSeq(source, begun + 1, n)[k] = source[begun + k]
  BY ONLY <1>1, <1>2, <1>3, PieceOf
<1> QED BY <1>1, <1>2, <1>3, <1>4, <1>5 DEF n

\* What a call has so far: `input' is what was consumed since it began.
LEMMA InputIs ==
  ASSUME InbufInv
  PROVE  /\ input \in Seq(Chars) /\ Len(input) = At(ibuf) - begun /\ At(ibuf) \in Nat /\ At(ibuf) <= Len(source)
         /\ begun <= At(ibuf) /\ input = SubSeq(Abstract!Rest, 1, Len(input))
<1> DEFINE n == Len(source)
           a == At(ibuf)
           j == a - begun
<1>1. /\ source \in Streams /\ Filling(ibuf) /\ begun \in Nat /\ begun <= a
      /\ input = SubSeq(source, begun + 1, a)
  BY DEF InbufInv
<1>2. source \in Seq(Chars) /\ n \in Nat /\ a \in Nat /\ Left(ibuf) \in Nat /\ ibuf.taken \in Nat
      /\ a + Left(ibuf) = ibuf.taken /\ ibuf.taken <= n
  BY <1>1, FillingNumbers
<1>3. a <= n /\ a \in 0 .. Len(source) /\ n \in 0 .. Len(source) /\ begun <= n /\ j \in Nat /\ j <= n - begun
      /\ begun + j = a
  <2> DEFINE f == Left(ibuf)
             g == ibuf.taken
  <2>1. n \in Nat /\ a \in Nat /\ f \in Nat /\ g \in Nat /\ a + f = g /\ g <= n /\ begun \in Nat /\ begun <= a
        /\ n = Len(source)
    BY <1>1, <1>2
  <2> HIDE DEF n, a, f, g
  <2> QED BY ONLY <2>1
<1>4. Abstract!Rest = SubSeq(source, begun + 1, n)
  BY RestIs
<1> HIDE DEF n, a, j
<1>5. SubSeq(source, begun + 1, a) \in Seq(Chars) /\ Len(SubSeq(source, begun + 1, a)) = a - begun
  BY ONLY <1>1, <1>2, <1>3, PieceOf
<1> DEFINE i == 0
<1>6. i \in Nat /\ i <= j
  BY <1>3
<1> HIDE DEF i
<1>7. SubSeq(SubSeq(source, begun + 1, n), i + 1, j) = SubSeq(source, begun + i + 1, begun + j)
  BY ONLY <1>1, <1>2, <1>3, <1>6, PieceOfPiece
<1>8. SubSeq(Abstract!Rest, 1, j) = SubSeq(source, begun + 1, a)
  <2>1. i + 1 = 1 /\ begun + i + 1 = begun + 1
    BY <1>1 DEF i
  <2> QED BY <1>3, <1>4, <1>7, <2>1
<1> QED BY <1>1, <1>2, <1>3, <1>5, <1>8 DEF n, a, j

LEMMA EmptyPiece == ASSUME NEW t, NEW n \in Nat PROVE SubSeq(t, n + 1, n) = << >>
<1>1. n + 1 \in Int /\ n \in Int /\ n < n + 1
  OBVIOUS
<1> QED BY <1>1, SubSeqEmpty

\* A call returns.
LEMMA Returns ==
  ASSUME InbufInv, NEW ib, Filling(ib), NEW op, NEW value, Return(ib, op, value),
         ib.pos = 0 => (op \in {"read", "char"} => value = << >>)
  PROVE  InbufInv' /\ \A n \in Int : At(ib) = begun + n => Abstract!Consume(n, op, value)
<1>1. /\ ibuf' = ib /\ call' = "idle" /\ input' = << >> /\ begun' = At(ib) /\ runs' = 0 /\ source' = source
      /\ result' = [op |-> op, value |-> value]
  BY DEF Return, At
<1>2. source \in Streams
  BY DEF InbufInv
<1>3. At(ib) \in Nat
  BY <1>2, FillingNumbers
<1>4. At(ibuf)' = At(ib) /\ Filling(ibuf)'
  BY <1>1 DEF At, Left, Filling
<1>5. input' = SubSeq(source', begun' + 1, At(ibuf)')
  BY <1>1, <1>3, <1>4, EmptyPiece
<1>6. runs' \in Nat /\ runs' <= Len(input')
  BY <1>1
<1>7. result'.op = op /\ result'.value = value
  BY <1>1
<1>8. call' # "scan" /\ call' # "line" /\ call' \in {"idle", "line", "scan", "aborted"} /\ source' \in Streams
  BY <1>1, <1>2
<1>9. begun' \in Nat /\ begun' <= At(ibuf)' /\ begun' = At(ibuf)'
  BY <1>1, <1>3, <1>4
<1>10. call' = "idle" /\ ibuf'.pos = 0 => (result'.op \in {"read", "char"} => result'.value = << >>)
  BY <1>1, <1>7
<1>11. InbufInv'
  BY <1>4, <1>5, <1>6, <1>8, <1>9, <1>10 DEF InbufInv
<1>12. ASSUME NEW n \in Int, At(ib) = begun + n PROVE Abstract!Consume(n, op, value)
  <2>1. (IF call = "idle" THEN Consumed ELSE begun) = begun
    BY CallersView
  <2>2. (IF call' = "idle" THEN Consumed' ELSE begun') = At(ib)
    BY <1>1 DEF Consumed, At
  <2> QED BY <1>1, <1>12, <2>1, <2>2 DEF Abstract!Consume
<1> QED BY <1>11, <1>12

\* A call goes on: the caller sees nothing of it.
LEMMA GoesOn ==
  ASSUME InbufInv, source' = source, result' = result, begun' = begun, call' # "idle"
  PROVE  UNCHANGED Abstract!svars
<1>1. (IF call = "idle" THEN Consumed ELSE begun) = begun
  BY CallersView
<1> QED BY <1>1 DEF Abstract!svars

\* The caller's step: one of the abstract specification, or none
Seen == Abstract!Serve \/ UNCHANGED Abstract!svars

\* inbuf_read delivers the next characters.
LEMMA ReadStep == InbufInv /\ Read => InbufInv' /\ Seen
<1> SUFFICES ASSUME InbufInv, Read PROVE InbufInv' /\ Seen
  OBVIOUS
<1>1. PICK size \in 1 .. MaxRead, ib \in Filled(ibuf) :
        LET n == IF size < Left(ib) THEN size ELSE Left(ib)
        IN call = "idle" /\ Return([ib EXCEPT !.pos = @ + n], "read", SubSeq(Unread(ib), 1, n))
  BY DEF Read
<1> DEFINE n == IF size < Left(ib) THEN size ELSE Left(ib)
           p == ib.pos + n
           v == SubSeq(Unread(ib), 1, n)
<1>2. call = "idle" /\ Return([ib EXCEPT !.pos = p], "read", v)
  BY <1>1
<1>3. source \in Streams /\ Filling(ibuf) /\ begun = At(ibuf)
  BY <1>2 DEF InbufInv
<1>4. Filling(ib) /\ At(ib) = begun /\ (Left(ib) = 0 => At(ib) = Len(source))
  BY <1>3, FilledIs
<1>5. /\ ib.pos \in Nat /\ Left(ib) \in Nat /\ Len(ib.s) \in Nat /\ Left(ib) = Len(ib.s) - ib.pos
      /\ At(ib) \in Nat /\ ib.taken \in Nat /\ At(ib) + Left(ib) = ib.taken /\ ib.taken <= Len(source)
      /\ Len(source) \in Nat /\ source \in Seq(Chars)
  BY <1>3, <1>4, FillingNumbers
<1>6. size \in Nat /\ size > 0
  BY InbufBounds
<1>7. n \in Nat /\ n <= size /\ n <= Left(ib) /\ (n = 0 <=> Left(ib) = 0)
  BY <1>5, <1>6
<1> HIDE DEF n
<1>8. p \in Nat /\ p <= Len(ib.s) /\ p - ib.pos = n /\ (p = 0 => n = 0)
  <2> DEFINE l == Left(ib)
             k == Len(ib.s)
             q == ib.pos
  <2>1. q \in Nat /\ l \in Nat /\ k \in Nat /\ l = k - q /\ n \in Nat /\ n <= l
    BY <1>5, <1>7
  <2> HIDE DEF l, k, q
  <2>2. q + n \in Nat /\ q + n <= k /\ (q + n) - q = n /\ (q + n = 0 => n = 0)
    BY ONLY <2>1
  <2> QED BY <2>2 DEF k, q
<1> HIDE DEF p
<1>9. /\ Filling([ib EXCEPT !.pos = p]) /\ At([ib EXCEPT !.pos = p]) = At(ib) + p - ib.pos
      /\ [ib EXCEPT !.pos = p].pos = p
  BY <1>3, <1>4, <1>8, PosMoved
<1>10. At([ib EXCEPT !.pos = p]) = begun + n
  BY <1>4, <1>5, <1>8, <1>9
<1>11. Unread(ib) = SubSeq(source, begun + 1, ib.taken) /\ Unread(ib) \in Seq(Chars)
  BY <1>3, <1>4, UnreadIs
<1>12. n = 0 => v = << >>
  BY <1>11, SubSeqEmpty
<1> HIDE DEF v
<1>13. InbufInv' /\ Abstract!Consume(n, "read", v)
  <2>1. n \in Int
    BY <1>7
  <2> QED BY <1>2, <1>8, <1>9, <1>10, <1>12, <2>1, Returns
<1>14. /\ Abstract!Rest = SubSeq(source, begun + 1, Len(source)) /\ Len(Abstract!Rest) = Len(source) - begun
       /\ Abstract!Rest \in Seq(Chars)
  BY RestIs
<1>15. CASE n = 0
  <2>1. Len(Abstract!Rest) = 0
    BY <1>4, <1>5, <1>7, <1>14, <1>15
  <2>2. Abstract!Rest = << >>
    BY <1>14, <2>1
  <2>3. Abstract!Consume(0, "read", << >>)
    BY <1>12, <1>13, <1>15
  <2> QED BY <1>13, <2>2, <2>3 DEF Abstract!AtEnd, Abstract!Serve, Seen
<1>16. CASE n # 0
  <2>1. n \in 1 .. size /\ n <= Len(Abstract!Rest)
    BY <1>4, <1>5, <1>6, <1>7, <1>14, <1>16
  <2>2. v = SubSeq(Abstract!Rest, 1, n)
    <3> DEFINE i == 0
               t == source
               l == Len(source)
               e == ib.taken
               b == begun
    <3>1. /\ t \in Seq(Chars) /\ b \in Nat /\ e \in 0 .. Len(t) /\ l \in 0 .. Len(t) /\ b <= e /\ b <= l /\ i \in Nat
          /\ n \in Nat /\ i <= n /\ n <= e - b /\ n <= l - b
      BY <1>4, <1>5, <1>7
    <3>2. /\ v = SubSeq(SubSeq(t, b + 1, e), i + 1, n)
          /\ SubSeq(Abstract!Rest, 1, n) = SubSeq(SubSeq(t, b + 1, l), i + 1, n)
      BY <1>11, <1>14 DEF v
    <3> HIDE DEF i, t, l, e, b
    <3>3. SubSeq(SubSeq(t, b + 1, e), i + 1, n) = SubSeq(SubSeq(t, b + 1, l), i + 1, n)
      BY ONLY <3>1, SamePiece
    <3> QED BY <3>2, <3>3
  <2>3. Abstract!ReadSome
    BY <1>13, <2>1, <2>2 DEF Abstract!ReadSome
  <2> QED BY <1>13, <2>3 DEF Abstract!Serve, Seen
<1> QED BY <1>15, <1>16

\* inbuf_getchar: a character that is not negative
LEMMA CharIs ==
  ASSUME High = {}, source \in Streams, NEW ib, Filling(ib)
  PROVE  /\ Left(ib) = 0 => CharOf(ib) = << >> /\ Advanced(ib) = ib
         /\ Left(ib) > 0 => CharOf(ib) = <<source[At(ib) + 1]>>
         /\ Left(ib) \in Nat /\ (CharOf(ib) = << >> <=> Left(ib) = 0)
<1>1. Left(ib) \in Nat /\ (Left(ib) > 0 => Head(Unread(ib)) = source[At(ib) + 1])
  BY UnreadIs, FillingNumbers
<1>2. Left(ib) = 0 => CharOf(ib) = << >> /\ Advanced(ib) = ib
  BY DEF CharOf, Advanced
<1>3. Left(ib) > 0 => CharOf(ib) = <<source[At(ib) + 1]>>
  BY <1>1 DEF CharOf
<1>4. <<source[At(ib) + 1]>> # << >>
  OBVIOUS
<1> QED BY <1>1, <1>2, <1>3, <1>4

LEMMA GetcharStep == High = {} /\ InbufInv /\ Getchar => InbufInv' /\ Seen
<1> SUFFICES ASSUME High = {}, InbufInv, Getchar PROVE InbufInv' /\ Seen
  OBVIOUS
<1>1. PICK ib \in Filled(ibuf) : call = "idle" /\ Return(Advanced(ib), "char", CharOf(ib))
  BY DEF Getchar
<1>3. source \in Streams /\ Filling(ibuf) /\ begun = At(ibuf)
  BY <1>1 DEF InbufInv
<1>4. Filling(ib) /\ At(ib) = begun /\ (Left(ib) = 0 => At(ib) = Len(source))
  BY <1>3, FilledIs
<1>5. /\ Left(ib) \in Nat /\ At(ib) \in Nat /\ ib.taken \in Nat /\ At(ib) + Left(ib) = ib.taken
      /\ ib.taken <= Len(source)
  BY <1>3, <1>4, FillingNumbers
<1>6. /\ Len(Abstract!Rest) = Len(source) - begun /\ Abstract!Rest \in Seq(Chars) /\ Len(source) \in Nat
      /\ \A k \in 1 .. Len(source) - begun : Abstract!Rest[k] = source[begun + k]
  BY RestIs
<1>7. CASE Left(ib) = 0
  <2>1. CharOf(ib) = << >> /\ Advanced(ib) = ib
    BY <1>3, <1>4, <1>7, CharIs
  <2>2. At(ib) = begun + 0
    BY <1>4, <1>5
  <2>3. InbufInv' /\ Abstract!Consume(0, "char", << >>)
    BY <1>1, <1>4, <2>1, <2>2, Returns
  <2>4. Len(Abstract!Rest) = 0
    BY <1>4, <1>5, <1>6, <1>7
  <2>5. Abstract!Rest = << >>
    BY <1>6, <2>4
  <2> QED BY <2>3, <2>5 DEF Abstract!AtEnd, Abstract!Serve, Seen
<1>8. CASE Left(ib) > 0
  <2>1. CharOf(ib) = <<source[begun + 1]>>
    BY <1>3, <1>4, <1>8, CharIs
  <2>2. Filling(Advanced(ib)) /\ At(Advanced(ib)) = begun + 1 /\ Advanced(ib).pos > 0
    BY <1>3, <1>4, <1>8, AdvancedIs
  <2>3. InbufInv' /\ Abstract!Consume(1, "char", <<source[begun + 1]>>)
    BY <1>1, <2>1, <2>2, Returns
  <2>4. 1 \in 1 .. Len(source) - begun /\ Len(Abstract!Rest) # 0
    BY <1>4, <1>5, <1>6, <1>8
  <2>5. Abstract!Rest[1] = source[begun + 1]
    BY <1>6, <2>4
  <2>6. Abstract!Rest # << >> /\ Head(Abstract!Rest) = source[begun + 1]
    BY <2>4, <2>5
  <2> QED BY <2>3, <2>6 DEF Abstract!GetChar, Abstract!Serve, Seen
<1> QED BY <1>5, <1>7, <1>8

\* inbuf_back gives the last character back, or there is none in the buffer.
LEMMA BackStep == InbufInv /\ Back => InbufInv' /\ Seen
<1> SUFFICES ASSUME InbufInv, Back PROVE InbufInv' /\ Seen
  OBVIOUS
<1>1. call = "idle" /\ IF ibuf.pos = 0 THEN Return(ibuf, "noback", << >>)
                       ELSE Return([ibuf EXCEPT !.pos = ibuf.pos - 1], "back", << >>)
  BY DEF Back
<1>2. /\ source \in Streams /\ Filling(ibuf) /\ begun = At(ibuf)
      /\ ibuf.pos = 0 => (result.op \in {"read", "char"} => result.value = << >>)
  BY <1>1 DEF InbufInv
<1>3. /\ ibuf.pos \in Nat /\ Len(ibuf.s) \in Nat /\ ibuf.pos <= Len(ibuf.s) /\ At(ibuf) \in Nat
      /\ At(ibuf) = (ibuf.taken - Len(ibuf.s)) + ibuf.pos /\ ibuf.taken - Len(ibuf.s) \in Nat
  BY <1>2, FillingNumbers
<1>4. CASE ibuf.pos = 0
  <2>1. At(ibuf) = begun + 0
    BY <1>2, <1>3
  <2>2. InbufInv' /\ Abstract!Consume(0, "noback", << >>)
    <3>1. Return(ibuf, "noback", << >>) /\ ~("noback" \in {"read", "char"}) /\ 0 \in Int
      BY <1>1, <1>4
    <3> QED BY <1>2, <2>1, <3>1, Returns
  <2> QED BY <1>2, <1>4, <2>2 DEF Abstract!PutBack, Abstract!Serve, Seen
<1>5. CASE ibuf.pos # 0
  <2> DEFINE p == ibuf.pos - 1
  <2>1. p \in Nat /\ p <= Len(ibuf.s) /\ p - ibuf.pos = -1
    BY <1>3, <1>5
  <2>2. Return([ibuf EXCEPT !.pos = p], "back", << >>)
    BY <1>1, <1>5
  <2> HIDE DEF p
  <2>3. Filling([ibuf EXCEPT !.pos = p]) /\ At([ibuf EXCEPT !.pos = p]) = At(ibuf) + p - ibuf.pos
    BY <1>2, <2>1, PosMoved
  <2>4. At([ibuf EXCEPT !.pos = p]) = begun + (-1) /\ begun > 0
    <3> DEFINE d == ibuf.taken - Len(ibuf.s)
    <3>1. d \in Nat /\ begun = d + ibuf.pos
      BY <1>2, <1>3
    <3> HIDE DEF d
    <3> QED BY <1>2, <1>3, <1>5, <2>1, <2>3, <3>1
  <2>5. InbufInv' /\ Abstract!Consume(-1, "back", << >>)
    <3>1. -1 \in Int /\ ~("back" \in {"read", "char"})
      OBVIOUS
    <3> QED BY <2>2, <2>3, <2>4, <3>1, Returns
  <2>6. (IF call = "idle" THEN Consumed ELSE begun) > 0
    BY <2>4, CallersView
  <2> QED BY <2>5, <2>6 DEF Abstract!PutBack, Abstract!Serve, Seen
<1> QED BY <1>4, <1>5

\* A call begins.
LEMMA CallStep ==
  ASSUME InbufInv, NEW op \in {"line", "scan"}, NEW q, op = "scan" => q \in Patterns, Call(op, q)
  PROVE  InbufInv' /\ Seen
<1>1. call = "idle" /\ call' = op /\ regex' = q /\ UNCHANGED <<source, ibuf, input, result, begun, runs>>
  BY DEF Call
<1>2. At(ibuf)' = At(ibuf) /\ (Filling(ibuf)' <=> Filling(ibuf)) /\ op # "idle"
  BY <1>1 DEF At, Left, Filling
<1>3. /\ source \in Streams /\ Filling(ibuf) /\ begun \in Nat /\ begun <= At(ibuf) /\ begun = At(ibuf)
      /\ input = SubSeq(source, begun + 1, At(ibuf)) /\ runs \in Nat /\ runs <= Len(input)
  BY <1>1 DEF InbufInv
<1>4. input = << >>
  <2>1. At(ibuf) \in Nat
    BY <1>3
  <2> QED BY <1>3, <2>1, EmptyPiece
<1>5. \A k \in 1 .. Len(input) : input[k] # "\n"
  BY <1>4
<1>6. InbufInv'
  BY <1>1, <1>2, <1>3, <1>5 DEF InbufInv
<1>7. UNCHANGED Abstract!svars
  BY <1>1, <1>2, GoesOn
<1> QED BY <1>6, <1>7 DEF Seen

\* inbuf_readline and inbuf_sareadline: the line ends with its terminator, with
\* the stream, or goes on.
LEMMA LineStep == High = {} /\ InbufInv /\ Line => InbufInv' /\ Seen
<1> SUFFICES ASSUME High = {}, InbufInv, Line PROVE InbufInv' /\ Seen
  OBVIOUS
<1>1. PICK ib \in Filled(ibuf) : NextOfLine(ib)
  BY DEF Line
<1>2. call = "line"
  BY DEF Line
<1>3. /\ source \in Streams /\ Filling(ibuf) /\ \A k \in 1 .. Len(input) : input[k] # "\n"
      /\ runs \in Nat /\ runs <= Len(input) /\ input = SubSeq(source, begun + 1, At(ibuf))
  BY <1>2 DEF InbufInv
<1>4. Filling(ib) /\ At(ib) = At(ibuf) /\ (Left(ib) = 0 => At(ib) = Len(source))
  BY <1>3, FilledIs
<1>5. /\ Left(ib) \in Nat /\ At(ib) \in Nat /\ ib.taken \in Nat /\ At(ib) + Left(ib) = ib.taken
      /\ ib.taken <= Len(source)
  BY <1>3, <1>4, FillingNumbers
<1>6. /\ Len(Abstract!Rest) = Len(source) - begun /\ Abstract!Rest \in Seq(Chars) /\ Len(source) \in Nat
      /\ \A k \in 1 .. Len(source) - begun : Abstract!Rest[k] = source[begun + k]
      /\ source \in Seq(Chars) /\ begun \in Nat
  BY RestIs
<1>7. /\ input \in Seq(Chars) /\ Len(input) = At(ib) - begun /\ begun <= At(ib)
      /\ input = SubSeq(Abstract!Rest, 1, Len(input))
  BY <1>4, InputIs
<1> DEFINE n == Len(input)
<1>8. n \in Nat /\ n = At(ib) - begun /\ At(ib) = begun + n /\ n <= Len(source) - begun /\ n \in 0 .. Len(Abstract!Rest)
  BY <1>5, <1>6, <1>7
<1> DEFINE R == Abstract!Rest
<1>9. \A k \in 1 .. n : R[k] # "\n"
  <2> HIDE DEF R
  <2>1. \A k \in 1 .. n : SubSeq(R, 1, n)[k] = R[k]
    BY <1>6, <1>8 DEF R
  <2> QED BY <1>3, <1>7, <2>1 DEF R
<1>10. CASE CharOf(ib) = << >> /\ Return(Advanced(ib), "lastline", input)
  <2>1. Left(ib) = 0 /\ Advanced(ib) = ib
    BY <1>3, <1>4, <1>10, CharIs
  <2>2. InbufInv' /\ Abstract!Consume(n, "lastline", input)
    <3>1. n \in Int /\ ~("lastline" \in {"read", "char"}) /\ Return(ib, "lastline", input)
      BY <1>8, <1>10, <2>1
    <3> QED BY <1>4, <1>8, <3>1, Returns
  <2>3. n = Len(R)
    BY <1>4, <1>6, <1>8, <2>1
  <2>4. input = R
    <3>1. R \in Seq(Chars) /\ input = SubSeq(R, 1, Len(R))
      BY <1>6, <1>7, <2>3
    <3> HIDE DEF R
    <3> QED BY <3>1, SubSeqFull
  <2>5. Abstract!GetLine
    <3>1. n \in 0 .. Len(Abstract!Rest) /\ n = Len(Abstract!Rest) /\ Abstract!Consume(n, "lastline", Abstract!Rest)
      BY <1>8, <2>2, <2>3, <2>4
    <3>2. \A k \in 1 .. n : Abstract!Rest[k] # "\n"
      BY <1>9
    <3> HIDE DEF n
    <3> QED BY <3>1, <3>2 DEF Abstract!GetLine
  <2> QED BY <2>2, <2>5 DEF Abstract!Serve, Seen
<1>11. CASE CharOf(ib) = <<"\n">> /\ Return(Advanced(ib), "line", input)
  <2>1. Left(ib) > 0
    <3>1. <<"\n">> # << >>
      OBVIOUS
    <3>2. CharOf(ib) # << >>
      BY <1>11, <3>1
    <3>3. ~(Left(ib) = 0)
      BY <1>3, <1>4, <3>2, CharIs
    <3> QED BY <1>5, <3>3
  <2>2. CharOf(ib) = <<source[At(ib) + 1]>>
    BY <1>3, <1>4, <2>1, CharIs
  <2>3. source[At(ib) + 1] = "\n"
    BY <1>11, <2>2
  <2>4. Filling(Advanced(ib)) /\ At(Advanced(ib)) = At(ib) + 1
    BY <1>3, <1>4, <2>1, AdvancedIs
  <2>5. At(Advanced(ib)) = begun + (n + 1) /\ n + 1 \in Int /\ n + 1 \in 1 .. Len(source) - begun
        /\ begun + (n + 1) = At(ib) + 1 /\ n < Len(R)
    <3> DEFINE a == At(ib)
               l == Len(source)
               f == Left(ib)
    <3>1. /\ n \in Nat /\ a = begun + n /\ begun \in Nat /\ f \in Nat /\ f > 0 /\ a + f <= l /\ l \in Nat
          /\ Len(R) = l - begun /\ At(Advanced(ib)) = a + 1
      BY <1>5, <1>6, <1>8, <2>1, <2>4
    <3> HIDE DEF n, a, l, f, R
    <3>2. At(Advanced(ib)) = begun + (n + 1) /\ n + 1 \in Int /\ n + 1 \in 1 .. l - begun
          /\ begun + (n + 1) = a + 1 /\ n < Len(R)
      BY ONLY <3>1
    <3> QED BY <3>2 DEF a, l
  <2>6. InbufInv' /\ Abstract!Consume(n + 1, "line", input)
    <3> DEFINE e == n + 1
    <3>1. e \in Int /\ ~("line" \in {"read", "char"}) /\ At(Advanced(ib)) = begun + e
      BY <2>5
    <3> HIDE DEF e
    <3>2. InbufInv' /\ Abstract!Consume(e, "line", input)
      BY <1>11, <2>4, <3>1, Returns
    <3> QED BY <3>2 DEF e
  <2>7. R[n + 1] = "\n"
    BY <1>6, <2>3, <2>5
  <2>8. Abstract!GetLine
    <3>1. n \in 0 .. Len(Abstract!Rest) /\ n < Len(Abstract!Rest) /\ Abstract!Rest[n + 1] = "\n"
          /\ Abstract!Consume(n + 1, "line", SubSeq(Abstract!Rest, 1, n))
      BY <1>7, <1>8, <2>5, <2>6, <2>7
    <3>2. \A k \in 1 .. n : Abstract!Rest[k] # "\n"
      BY <1>9
    <3> HIDE DEF n
    <3> QED BY <3>1, <3>2 DEF Abstract!GetLine
  <2> QED BY <2>6, <2>8 DEF Abstract!Serve, Seen
<1>12. CASE /\ CharOf(ib) \notin {<< >>, <<"\n">>} /\ input' = input \o CharOf(ib) /\ ibuf' = Advanced(ib)
            /\ runs' = runs + 1 /\ UNCHANGED <<source, call, regex, result, begun>>
  <2>1. Left(ib) > 0
    <3>1. ~(Left(ib) = 0)
      BY <1>3, <1>4, <1>12, CharIs
    <3> QED BY <1>5, <3>1
  <2> DEFINE a == At(ib)
             c == source[At(ib) + 1]
  <2>2. CharOf(ib) = <<c>> /\ c # "\n"
    BY <1>3, <1>4, <1>12, <2>1, CharIs
  <2>3. Filling(Advanced(ib)) /\ At(Advanced(ib)) = a + 1
    BY <1>3, <1>4, <2>1, AdvancedIs
  <2>4. a \in Nat /\ a + 1 <= Len(source) /\ begun <= a /\ a + 1 \in 1 .. Len(source) /\ begun + 1 \in 1 .. a + 1
    BY <1>5, <1>6, <1>7, <2>1
  <2>5. SubSeq(source, begun + 1, a + 1) = SubSeq(source, begun + 1, a) \o <<source[a + 1]>>
    <3> DEFINE m == begun + 1
               e == a + 1
    <3>1. m \in 1 .. Len(source) /\ e \in m .. Len(source) /\ e - 1 = a
      BY <1>6, <2>4
    <3> HIDE DEF m, e
    <3>2. SubSeq(source, m, e) = SubSeq(source, m, e - 1) \o <<source[e]>>
      BY <1>6, <3>1, SubSeqRecursiveSecond
    <3> QED BY <3>1, <3>2 DEF m, e
  <2>6. input' = SubSeq(source, begun + 1, a + 1) /\ input' = Append(input, c)
    <3>1. input' = input \o <<c>>
      BY <1>12, <2>2
    <3>2. input = SubSeq(source, begun + 1, a)
      BY <1>3, <1>4
    <3>3. input' = SubSeq(source, begun + 1, a + 1)
      BY <2>5, <3>1, <3>2
    <3> HIDE DEF c
    <3>4. input \o <<c>> = Append(input, c)
      BY <1>7
    <3> QED BY <3>1, <3>3, <3>4
  <2> HIDE DEF c
  <2>7. Len(input') = n + 1 /\ \A k \in 1 .. Len(input') : input'[k] # "\n"
    <3> DEFINE u == input
               v == input'
    <3>0. v = Append(u, c) /\ u \in Seq(Chars) /\ n = Len(u)
      BY <1>7, <2>6
    <3>4. \A k \in 1 .. n : u[k] # "\n"
      BY <1>3
    <3> HIDE DEF u, v, n
    <3>1. Len(v) = n + 1 /\ v[n + 1] = c /\ \A k \in 1 .. n : v[k] = u[k]
      BY ONLY <3>0
    <3>2. ASSUME NEW k \in 1 .. n + 1 PROVE v[k] # "\n"
      <4>1. k \in 1 .. n \/ k = n + 1
        BY <1>8
      <4> QED BY <2>2, <3>1, <3>4, <4>1
    <3> QED BY <3>1, <3>2 DEF v
  <2>8. At(ibuf)' = a + 1 /\ Filling(ibuf)'
    BY <1>12, <2>3 DEF At, Left, Filling
  <2>9. /\ source' \in Streams /\ begun' \in Nat /\ begun' <= At(ibuf)' /\ call' = "line"
        /\ input' = SubSeq(source', begun' + 1, At(ibuf)')
    <3>1. source' = source /\ call' = call /\ begun' = begun
      BY <1>12
    <3> HIDE DEF a
    <3>2. begun <= a + 1
      BY <1>6, <2>4
    <3> QED BY <1>2, <1>3, <1>6, <2>6, <2>8, <3>1, <3>2
  <2>10. runs' \in Nat /\ runs' <= Len(input')
    <3>1. runs' = runs + 1 /\ runs \in Nat /\ runs <= n /\ n \in Nat /\ Len(input') = n + 1
      BY <1>3, <1>8, <1>12, <2>7
    <3> HIDE DEF n
    <3> QED BY ONLY <3>1
  <2>11. InbufInv'
    BY <2>7, <2>8, <2>9, <2>10 DEF InbufInv
  <2>12. UNCHANGED Abstract!svars
    BY <1>12, <2>9, GoesOn
  <2> QED BY <2>11, <2>12 DEF Seen
<1> QED BY <1>1, <1>10, <1>11, <1>12 DEF NextOfLine

\* A call that fails for want of memory leaves the stream where it is.
LEMMA FailsStep == InbufInv /\ Return(ibuf, "nomemory", << >>) => InbufInv' /\ Seen
<1> SUFFICES ASSUME InbufInv, Return(ibuf, "nomemory", << >>) PROVE InbufInv' /\ Seen
  OBVIOUS
<1> DEFINE n == At(ibuf) - begun
<1>1. Filling(ibuf) /\ begun \in Nat
  BY DEF InbufInv
<1>2. At(ibuf) \in Nat /\ At(ibuf) <= Len(source) /\ begun <= At(ibuf)
  BY InputIs
<1>3. Len(Abstract!Rest) = Len(source) - begun /\ Len(source) \in Nat
  BY RestIs
<1>4. n \in 0 .. Len(Abstract!Rest) /\ n \in Int /\ At(ibuf) = begun + n /\ ~("nomemory" \in {"read", "char"})
  BY <1>1, <1>2, <1>3
<1> HIDE DEF n
<1>5. InbufInv' /\ Abstract!Consume(n, "nomemory", << >>)
  BY <1>1, <1>4, Returns
<1> QED BY <1>4, <1>5 DEF Abstract!NoMemory, Abstract!Serve, Seen

\* Two captures are the same, within the first n characters.
SameText(c, e, n) ==
    \/ c[1] = -1 /\ e[1] = -1
    \/ c[1] \in 0 .. n /\ c[2] \in c[1] .. n /\ e[1] = c[1] /\ e[2] = c[2]

LEMMA SameTextIs ==
  ASSUME NEW b \in Nat, NEW n \in Nat, b <= n, NEW end \in b .. n, NEW v, PairWithin(v, b, end),
         NEW c, SamePair(c, v, b), NEW e, SamePair(e, v, b)
  PROVE  SameText(c, e, n - b)
<1> DEFINE x == v[1]
           y == v[2]
           cx == c[1]
           cy == c[2]
           ex == e[1]
           ey == e[2]
<1>1. CASE x = -1
  BY <1>1 DEF SamePair, SameText
<1>2. CASE x # -1
  <2>1. x \in b .. end /\ y \in x .. end
    BY <1>2 DEF PairWithin
  <2>2. cx = x - b /\ cy = y - b /\ ex = x - b /\ ey = y - b
    BY <1>2 DEF SamePair
  <2> HIDE DEF x, y, cx, cy, ex, ey
  <2>3. cx \in 0 .. n - b /\ cy \in cx .. n - b /\ ex = cx /\ ey = cy
    BY <2>1, <2>2
  <2> QED BY <2>3 DEF SameText, cx, cy, ex, ey
<1> QED BY <1>1, <1>2

\* What a run finds in the portions it has, unless it asks for more, is what
\* there is to find in the rest of the stream.
LEMMA ScanFinds ==
  ASSUME InbufInv, regex \in Patterns, NEW e \in Nat, begun <= e, e <= Len(source), NEW hard \in BOOLEAN,
         hard => begun < e, ~hard => e = Len(source)
  PROVE  LET m == PcreExec(regex, SubSeq(source, begun + 1, e), 0, hard)
             w == PcreExec(regex, Abstract!Rest, 0, FALSE)
         IN /\ m.kind \in {"match", "nomatch", "partial"} /\ (m.kind = "partial" => hard)
            /\ m.kind # "partial" => w.kind = m.kind
            /\ m.kind = "match" =>
                 /\ m.end \in 0 .. e - begun /\ w.end = m.end
                 /\ m.count \in Nat /\ w.count = m.count /\ Len(m.calls) \in Nat /\ Len(w.calls) = Len(m.calls)
                 /\ \A k \in 1 .. m.count : SameText(m.caps[k], w.caps[k], e - begun)
                 /\ \A k \in 1 .. Len(m.calls) : SameText(m.calls[k], w.calls[k], e - begun)
<1> DEFINE m == PcreExec(regex, SubSeq(source, begun + 1, e), 0, hard)
           w == PcreExec(regex, Abstract!Rest, 0, FALSE)
           l == Len(source)
           b == begun
           v == PcreExec(regex, SubSeq(source, 1, e), b, hard)
           u == PcreExec(regex, SubSeq(source, 1, l), b, FALSE)
<1>1. /\ source \in Streams /\ b \in Nat /\ l \in Nat /\ b <= l /\ Abstract!Rest = SubSeq(source, b + 1, l)
  BY RestIs DEF InbufInv
<1>2. e \in 0 .. Len(source) /\ l \in 0 .. Len(source) /\ b \in 0 .. e /\ b \in 0 .. l /\ b \in 0 .. b /\ b - b = 0
      /\ l \in e .. Len(source) /\ FALSE \in BOOLEAN
  BY <1>1
<1>3. m = PcreExec(regex, SubSeq(source, b + 1, e), b - b, hard)
      /\ w = PcreExec(regex, SubSeq(source, b + 1, l), b - b, FALSE)
  BY <1>1, <1>2
<1>h. hard => b < e
  OBVIOUS
<1>n. ~hard => u = v
  OBVIOUS
<1> HIDE DEF m, w, l, b
<1>4. /\ LiesWithin(v, b, e) /\ v.kind \in {"match", "nomatch"} \cup IF hard THEN {"partial"} ELSE {}
      /\ SameMatch(PcreExec(regex, SubSeq(source, b + 1, e), b - b, hard), v, b)
      /\ hard /\ b < e /\ v.kind # "partial" => PcreExec(regex, SubSeq(source, 1, l), b, FALSE) = v
  <2>1. /\ LiesWithin(v, b, e) /\ v.kind \in {"match", "nomatch"} \cup IF hard THEN {"partial"} ELSE {}
        /\ \A k \in 0 .. b : SameMatch(PcreExec(regex, SubSeq(source, k + 1, e), b - k, hard), v, k)
        /\ hard /\ b < e /\ v.kind # "partial" =>
             \A k \in e .. Len(source), h \in BOOLEAN : PcreExec(regex, SubSeq(source, 1, k), b, h) = v
    <3>1. source \in Streams /\ e \in 0 .. Len(source) /\ b \in 0 .. e
      BY <1>1, <1>2
    <3> QED BY ONLY <3>1, regex \in Patterns, hard \in BOOLEAN, MatchingAt DEF v
  <2> HIDE DEF v
  <2> QED BY ONLY <1>2, <2>1
<1>5. SameMatch(PcreExec(regex, SubSeq(source, b + 1, l), b - b, FALSE), u, b)
  <2>1. \A k \in 0 .. b : SameMatch(PcreExec(regex, SubSeq(source, k + 1, l), b - k, FALSE), u, k)
    <3>1. source \in Streams /\ l \in 0 .. Len(source) /\ b \in 0 .. l /\ FALSE \in BOOLEAN
      BY <1>1, <1>2
    <3> QED BY ONLY <3>1, regex \in Patterns, MatchingAt DEF u
  <2> HIDE DEF u
  <2> QED BY ONLY <1>2, <2>1
<1>6. v.kind # "partial" => u = v
  BY <1>4, <1>h, <1>n
<1> HIDE DEF u, v
<1>7. m.kind = v.kind /\ w.kind = u.kind
  BY <1>3, <1>4, <1>5 DEF SameMatch
<1>8. m.kind \in {"match", "nomatch", "partial"} /\ (m.kind = "partial" => hard)
  BY <1>4, <1>7
<1>9. m.kind # "partial" => w.kind = m.kind
  BY <1>6, <1>7
<1>10. ASSUME m.kind = "match"
       PROVE  /\ m.end \in 0 .. e - b /\ w.end = m.end
              /\ m.count \in Nat /\ w.count = m.count /\ Len(m.calls) \in Nat /\ Len(w.calls) = Len(m.calls)
              /\ \A k \in 1 .. m.count : SameText(m.caps[k], w.caps[k], e - b)
              /\ \A k \in 1 .. Len(m.calls) : SameText(m.calls[k], w.calls[k], e - b)
  <2>1. v.kind = "match" /\ u = v /\ "match" # "partial"
    BY <1>6, <1>7, <1>10
  <2>2. SameMatch(m, v, b) /\ SameMatch(w, v, b)
    BY <1>3, <1>4, <1>5, <2>1
  <2>3. /\ v.end \in b .. e /\ v.count \in Nat /\ Len(v.calls) \in Nat
        /\ \A k \in 1 .. v.count : PairWithin(v.caps[k], b, v.end)
        /\ \A k \in 1 .. Len(v.calls) : PairWithin(v.calls[k], b, v.end)
    BY <1>4, <2>1 DEF LiesWithin
  <2>4. /\ m.end = v.end - b /\ m.count = v.count /\ Len(m.calls) = Len(v.calls)
        /\ \A k \in 1 .. v.count : SamePair(m.caps[k], v.caps[k], b)
        /\ \A k \in 1 .. Len(v.calls) : SamePair(m.calls[k], v.calls[k], b)
    BY <2>1, <2>2 DEF SameMatch
  <2>5. /\ w.end = v.end - b /\ w.count = v.count /\ Len(w.calls) = Len(v.calls)
        /\ \A k \in 1 .. v.count : SamePair(w.caps[k], v.caps[k], b)
        /\ \A k \in 1 .. Len(v.calls) : SamePair(w.calls[k], v.calls[k], b)
    BY <2>1, <2>2 DEF SameMatch
  <2>6. m.end \in 0 .. e - b
    <3> DEFINE x == v.end
    <3>1. x \in b .. e /\ m.end = x - b
      BY <2>3, <2>4
    <3> HIDE DEF x
    <3> QED BY <1>1, <1>2, <3>1
  <2>7. b <= e /\ b \in Nat
    BY <1>1, <1>2
  <2>8. ASSUME NEW k \in 1 .. m.count PROVE SameText(m.caps[k], w.caps[k], e - b)
    BY <2>3, <2>4, <2>5, <2>7, SameTextIs
  <2>9. ASSUME NEW k \in 1 .. Len(m.calls) PROVE SameText(m.calls[k], w.calls[k], e - b)
    BY <2>3, <2>4, <2>5, <2>7, SameTextIs
  <2> QED BY <2>3, <2>4, <2>5, <2>6, <2>8, <2>9
<1> QED BY <1>8, <1>9, <1>10 DEF m, w, b

\* What is delivered of a capture
Text(c, s) == IF c[1] = -1 THEN << >> ELSE SubSeq(s, c[1] + 1, c[2])

LEMMA SameTextsDelivered ==
  ASSUME InbufInv, NEW e \in Nat, begun <= e, e <= Len(source), NEW c, NEW d, SameText(c, d, e - begun)
  PROVE  Text(c, SubSeq(source, begun + 1, e)) = Text(d, Abstract!Rest)
<1>1. CASE c[1] = -1
  <2>1. ~(c[1] \in 0 .. e - begun)
    BY <1>1
  <2> QED BY <1>1, <2>1 DEF SameText, Text
<1>2. CASE c[1] # -1
  <2> DEFINE i == c[1]
             j == c[2]
             t == source
             l == Len(source)
             b == begun
  <2>1. i \in 0 .. e - b /\ j \in i .. e - b /\ d[1] = i /\ d[2] = j
    BY <1>2 DEF SameText
  <2>2. t \in Seq(Chars) /\ l \in Nat /\ b \in Nat /\ b <= e /\ e <= l /\ l = Len(t)
        /\ Abstract!Rest = SubSeq(t, b + 1, l)
    BY RestIs
  <2> HIDE DEF i, j, t, l, b
  <2>3. /\ e \in 0 .. Len(t) /\ l \in 0 .. Len(t) /\ b <= l /\ i \in Nat /\ j \in Nat /\ i <= j
        /\ j <= e - b /\ j <= l - b
    BY <2>1, <2>2
  <2>4. SubSeq(SubSeq(t, b + 1, e), i + 1, j) = SubSeq(SubSeq(t, b + 1, l), i + 1, j)
    BY ONLY <2>2, <2>3, SamePiece
  <2>5. d[1] # -1
    BY <1>2, <2>1 DEF i
  <2> QED BY <1>2, <2>1, <2>2, <2>4, <2>5 DEF Text, i, j, b, t
<1> QED BY <1>1, <1>2

\* inbuf_scan_exec: the look for more input
LEMMA LookedIs ==
  ASSUME High = {}, source \in Streams, Filling(ibuf), NEW ib \in Looked
  PROVE  Filling(ib) /\ At(ib) = At(ibuf) /\ (Left(ib) = 0 => At(ib) = Len(source) /\ ib.taken = Len(source))
<1>1. CASE Left(ibuf) > 0
  <2>1. ib = ibuf /\ Left(ib) # 0
    BY <1>1, FillingNumbers DEF Looked
  <2> QED BY <2>1
<1>2. CASE ~(Left(ibuf) > 0)
  <2>1. PICK c \in Filled(ibuf) : ib = IF CharOf(c) = << >> THEN Advanced(c) ELSE c
    BY <1>2 DEF Looked
  <2>2. Filling(c) /\ At(c) = At(ibuf) /\ (Left(c) = 0 => At(c) = Len(source) /\ c.taken = Len(source))
    BY FilledIs
  <2>3. ib = c
    BY <2>1, <2>2, CharIs
  <2> QED BY <2>2, <2>3
<1> QED BY <1>1, <1>2

\* inbuf_scan_exec: a match in the last portion, and what it delivers
LEMMA MatchStep ==
  ASSUME High = {}, InbufInv, call = "scan", NEW ib \in Looked, NEW m, NEW inp,
         inp = input \o Unread(ib), m = PcreExec(regex, inp, 0, Partial(Left(ib) = 0)), m.kind = "match",
         inp # << >>, Len(input) <= m.end, m.end <= Len(input) + Left(ib),
         \/ ~HasCallouts(regex) /\ Return(AfterMatch(ib, m.end), "scan", Captured(m, inp))
         \/ HasCallouts(regex) /\ Delivered(AfterMatch(ib, m.end), Recorded(m, inp)),
         inp = SubSeq(source, begun + 1, ib.taken)
  PROVE  InbufInv' /\ Seen
<1> DEFINE e == ib.taken
           w == PcreExec(regex, Abstract!Rest, 0, FALSE)
           hard == ~(Left(ib) = 0)
           p == ib.pos + m.end - Len(input)
           c == AfterMatch(ib, m.end)
<1>1. source \in Streams /\ Filling(ibuf) /\ regex \in Patterns /\ begun \in Nat /\ begun <= At(ibuf)
  BY DEF InbufInv
<1>2. Filling(ib) /\ At(ib) = At(ibuf) /\ (Left(ib) = 0 => ib.taken = Len(source))
  BY <1>1, LookedIs
<1>3. /\ Left(ib) \in Nat /\ At(ib) \in Nat /\ e \in Nat /\ At(ib) + Left(ib) = e /\ e <= Len(source)
      /\ ib.pos \in Nat /\ Len(ib.s) \in Nat /\ Left(ib) = Len(ib.s) - ib.pos /\ ib.pos <= Len(ib.s)
  BY <1>1, <1>2, FillingNumbers
<1>4. begun <= e /\ e <= Len(source) /\ hard \in BOOLEAN /\ (hard => begun < e) /\ (~hard => e = Len(source))
  <2>1. begun <= At(ib)
    BY <1>1, <1>2
  <2>2. begun <= e /\ (Left(ib) # 0 => begun < e)
    BY ONLY <1>1, <1>3, <2>1
  <2> QED BY <1>2, <1>3, <2>2
<1>5. m = PcreExec(regex, SubSeq(source, begun + 1, e), 0, hard)
  BY DEF Partial
<1>6. /\ w.kind = "match" /\ m.end \in 0 .. e - begun /\ w.end = m.end
      /\ m.count \in Nat /\ w.count = m.count /\ Len(m.calls) \in Nat /\ Len(w.calls) = Len(m.calls)
      /\ \A k \in 1 .. m.count : SameText(m.caps[k], w.caps[k], e - begun)
      /\ \A k \in 1 .. Len(m.calls) : SameText(m.calls[k], w.calls[k], e - begun)
  <2> DEFINE f == PcreExec(regex, SubSeq(source, begun + 1, e), 0, hard)
  <2> HIDE DEF hard, e
  <2>1. /\ f.kind # "partial" => w.kind = f.kind
        /\ f.kind = "match" =>
             /\ f.end \in 0 .. e - begun /\ w.end = f.end
             /\ f.count \in Nat /\ w.count = f.count /\ Len(f.calls) \in Nat /\ Len(w.calls) = Len(f.calls)
             /\ \A k \in 1 .. f.count : SameText(f.caps[k], w.caps[k], e - begun)
             /\ \A k \in 1 .. Len(f.calls) : SameText(f.calls[k], w.calls[k], e - begun)
    <3>1. e \in Nat /\ regex \in Patterns
      BY <1>1, <1>3
    <3> QED BY ONLY InbufInv, <1>4, <3>1, ScanFinds
  <2>2. f = m /\ f.kind = "match" /\ "match" # "partial"
    BY <1>5
  <2> HIDE DEF f, w
  <2> QED BY ONLY <2>1, <2>2
<1>7. Len(input) = At(ib) - begun /\ Abstract!Rest # << >>
  <2> HIDE DEF e
  <2>1. Len(input) = At(ib) - begun
    BY <1>2, InputIs
  <2>2. Len(Abstract!Rest) = Len(source) - begun /\ Len(source) \in Nat
    BY RestIs
  <2>3. begun # e
    <3>1. SubSeq(source, begun + 1, begun) = << >>
      BY <1>1, StreamsAssumption, SubSeqEmpty
    <3> QED BY <3>1 DEF e
  <2>4. Len(Abstract!Rest) # 0
    BY ONLY <1>1, <1>3, <1>4, <2>2, <2>3
  <2> QED BY <2>1, <2>4
<1>8. p \in Nat /\ p <= Len(ib.s) /\ At(ib) + p - ib.pos = begun + m.end /\ m.end \in Int
  <2> DEFINE x == m.end
             y == Len(input)
             z == Left(ib)
             a == At(ib)
             q == ib.pos
             n == Len(ib.s)
  <2>1. /\ x \in 0 .. e - begun /\ y = a - begun /\ z \in Nat /\ a \in Nat /\ q \in Nat /\ n \in Nat /\ z = n - q
        /\ y <= x /\ x <= y + z /\ begun \in Nat /\ begun <= a /\ e \in Nat
    BY <1>1, <1>2, <1>3, <1>6, <1>7
  <2> HIDE DEF x, y, z, a, q, n, e
  <2>2. q + x - y \in Nat /\ q + x - y <= n /\ a + (q + x - y) - q = begun + x /\ x \in Int
    BY ONLY <2>1
  <2> QED BY <2>2 DEF x, y, a, q, n
<1>9. c = [ib EXCEPT !.pos = p]
  BY DEF AfterMatch
<1> HIDE DEF p, c
<1>10. Filling(c) /\ At(c) = begun + m.end
  BY <1>1, <1>2, <1>8, <1>9, PosMoved
<1>11. ASSUME NEW op \in {"scan", "stopped"}, NEW value, Return(c, op, value)
       PROVE  InbufInv' /\ Abstract!Consume(w.end, op, value)
  <2>1. ~(op \in {"read", "char"})
    OBVIOUS
  <2>2. InbufInv' /\ Abstract!Consume(m.end, op, value)
    BY <1>8, <1>10, <1>11, <2>1, Returns
  <2> QED BY <1>6, <2>2
<1>12. ASSUME NEW x, NEW y, SameText(x, y, e - begun) PROVE Text(x, inp) = Text(y, Abstract!Rest)
  <2> HIDE DEF e
  <2>1. Text(x, SubSeq(source, begun + 1, e)) = Text(y, Abstract!Rest)
    BY <1>3, <1>4, <1>12, SameTextsDelivered
  <2> QED BY <2>1 DEF e
<1> DEFINE Texts(pairs, n) == [k \in 1 .. n |->
              IF pairs[k][1] = -1 THEN << >> ELSE SubSeq(Abstract!Rest, pairs[k][1] + 1, pairs[k][2])]
<1>caps. Captured(m, inp) = Texts(w.caps, w.count)
  <2>1. \A k \in 1 .. w.count : Text(m.caps[k], inp) = Text(w.caps[k], Abstract!Rest)
    <3> HIDE DEF w, e
    <3> QED BY <1>6, <1>12
  <2>2. [k \in 1 .. w.count |-> Text(m.caps[k], inp)] = [k \in 1 .. w.count |-> Text(w.caps[k], Abstract!Rest)]
    BY ONLY <2>1
  <2>3. Captured(m, inp) = [k \in 1 .. w.count |-> Text(m.caps[k], inp)]
    BY <1>6 DEF Captured, Text
  <2>4. Texts(w.caps, w.count) = [k \in 1 .. w.count |-> Text(w.caps[k], Abstract!Rest)]
    BY DEF Text
  <2> QED BY ONLY <2>2, <2>3, <2>4
<1>calls. /\ Recorded(m, inp) = [k \in 1 .. Len(w.calls) |-> Text(w.calls[k], Abstract!Rest)]
          /\ \A n : Texts(w.calls, n) = [k \in 1 .. n |-> Text(w.calls[k], Abstract!Rest)]
  <2>1. \A k \in 1 .. Len(w.calls) : Text(m.calls[k], inp) = Text(w.calls[k], Abstract!Rest)
    <3> HIDE DEF w, e
    <3> QED BY <1>6, <1>12
  <2>2. [k \in 1 .. Len(w.calls) |-> Text(m.calls[k], inp)]
        = [k \in 1 .. Len(w.calls) |-> Text(w.calls[k], Abstract!Rest)]
    BY ONLY <2>1
  <2>3. Recorded(m, inp) = [k \in 1 .. Len(w.calls) |-> Text(m.calls[k], inp)]
    BY <1>6 DEF Recorded, Text
  <2>4. \A n : Texts(w.calls, n) = [k \in 1 .. n |-> Text(w.calls[k], Abstract!Rest)]
    BY DEF Text
  <2> QED BY ONLY <2>2, <2>3, <2>4
<1> HIDE DEF Texts
<1>13. CASE ~HasCallouts(regex) /\ Return(c, "scan", Captured(m, inp))
  <2>2. InbufInv' /\ Abstract!Consume(w.end, "scan", Texts(w.caps, w.count))
    BY <1>11, <1>13, <1>caps
  <2>3. Abstract!Scan(regex)
    BY <1>6, <1>7, <1>13, <2>2 DEF Abstract!Scan, Texts
  <2> QED BY <1>1, <2>2, <2>3 DEF Abstract!Serve, Seen
<1>14. CASE HasCallouts(regex) /\ Return(c, "scan", Recorded(m, inp))
  <2>1. Recorded(m, inp) = Texts(w.calls, Len(w.calls))
    BY ONLY <1>calls
  <2>2. InbufInv' /\ Abstract!Consume(w.end, "scan", Texts(w.calls, Len(w.calls)))
    BY <1>11, <1>14, <2>1
  <2>3. Abstract!Scan(regex)
    BY <1>6, <1>7, <1>14, <2>2 DEF Abstract!Scan, Texts
  <2> QED BY <1>1, <2>2, <2>3 DEF Abstract!Serve, Seen
<1>15. CASE /\ HasCallouts(regex)
            /\ \E k \in 1 .. Len(Recorded(m, inp)) : Return(c, "stopped", SubSeq(Recorded(m, inp), 1, k))
  <2> DEFINE r == Recorded(m, inp)
             n == Len(w.calls)
  <2>1. PICK k \in 1 .. Len(r) : Return(c, "stopped", SubSeq(r, 1, k))
    BY <1>15
  <2> DEFINE F(j) == Text(w.calls[j], Abstract!Rest)
  <2>2. r = [j \in 1 .. n |-> F(j)] /\ n \in Nat
    BY <1>6, <1>calls
  <2> HIDE DEF F, r, n
  <2>3. Len(r) = n
    BY ONLY <2>2
  <2>4. k \in 1 .. n
    BY <2>3
  <2>5. SubSeq(r, 1, k) = Texts(w.calls, k)
    <3>1. SubSeq([j \in 1 .. n |-> F(j)], 1, k) = [j \in 1 .. k |-> F(j)]
      BY ONLY <2>2, <2>4
    <3>2. [j \in 1 .. k |-> F(j)] = Texts(w.calls, k)
      BY <1>calls DEF F
    <3> QED BY ONLY <2>2, <3>1, <3>2
  <2>6. InbufInv' /\ Abstract!Consume(w.end, "stopped", Texts(w.calls, k))
    BY <1>11, <2>1, <2>5
  <2>7. Abstract!Scan(regex)
    BY <1>6, <1>7, <1>15, <2>4, <2>6 DEF Abstract!Scan, Texts, n
  <2> QED BY <1>1, <2>6, <2>7 DEF Abstract!Serve, Seen
<1> QED BY <1>13, <1>14, <1>15 DEF Delivered, c

\* inbuf_scan_exec: a run of the loop
LEMMA RunStep == High = {} /\ InbufInv /\ ScanStep => InbufInv' /\ Seen
<1> SUFFICES ASSUME High = {}, InbufInv, ScanStep PROVE InbufInv' /\ Seen
  OBVIOUS
<1>1. call = "scan" /\ \E ib \in Looked : RunExec(ib)
  BY DEF ScanStep
<1>2. PICK ib \in Looked : RunExec(ib)
  BY <1>1
<1> DEFINE inp == input \o Unread(ib)
           hard == ~(Left(ib) = 0)
           m == PcreExec(regex, inp, 0, Partial(Left(ib) = 0))
           e == ib.taken
<1>3. /\ source \in Streams /\ Filling(ibuf) /\ regex \in Patterns /\ begun \in Nat /\ begun <= At(ibuf)
      /\ input = SubSeq(source, begun + 1, At(ibuf)) /\ runs \in Nat /\ runs <= Len(input)
  BY <1>1 DEF InbufInv
<1>4. Filling(ib) /\ At(ib) = At(ibuf) /\ (Left(ib) = 0 => ib.taken = Len(source))
  BY <1>3, LookedIs
<1>5. /\ Left(ib) \in Nat /\ At(ib) \in Nat /\ e \in Nat /\ At(ib) + Left(ib) = e /\ e <= Len(source)
      /\ ib.pos \in Nat /\ Len(ib.s) \in Nat /\ Left(ib) = Len(ib.s) - ib.pos /\ ib.pos <= Len(ib.s)
      /\ source \in Seq(Chars)
  BY <1>3, <1>4, FillingNumbers
<1>6. begun <= e /\ e <= Len(source) /\ hard \in BOOLEAN /\ (hard => begun < e) /\ (~hard => e = Len(source))
  BY <1>3, <1>4, <1>5
<1>7. inp = SubSeq(source, begun + 1, e) /\ Len(inp) = Len(input) + Left(ib)
  <2> DEFINE a == At(ib)
  <2>1. input = SubSeq(source, begun + 1, a) /\ Unread(ib) = SubSeq(source, a + 1, e)
    BY <1>3, <1>4, UnreadIs
  <2>2. a \in Nat /\ begun <= a /\ a <= e
    BY <1>3, <1>4, <1>5
  <2> HIDE DEF a, e
  <2>3. SubSeq(source, begun + 1, a) \o SubSeq(source, a + 1, e) = SubSeq(source, begun + 1, e)
    <3>1. source \in Seq(Chars) /\ begun \in Nat /\ a \in Nat /\ e \in Nat /\ begun <= a /\ a <= e /\ e <= Len(source)
      BY <1>3, <1>5, <2>2
    <3> QED BY ONLY <3>1, PiecesJoined
  <2>4. input \in Seq(Chars) /\ Unread(ib) \in Seq(Chars) /\ Len(Unread(ib)) = Left(ib)
    BY <1>3, <1>4, UnreadIs, InputIs
  <2>5. inp = SubSeq(source, begun + 1, e)
    BY <2>1, <2>3
  <2>6. Len(input \o Unread(ib)) = Len(input) + Len(Unread(ib))
    BY <2>4
  <2> QED BY <2>4, <2>5, <2>6
<1>8. m.kind \in {"match", "nomatch", "partial"} /\ (m.kind = "partial" => Left(ib) > 0)
      /\ (m.kind = "nomatch" => PcreExec(regex, Abstract!Rest, 0, FALSE).kind = "nomatch")
  <2> DEFINE f == PcreExec(regex, SubSeq(source, begun + 1, e), 0, hard)
             w == PcreExec(regex, Abstract!Rest, 0, FALSE)
  <2>1. f = m /\ (hard => Left(ib) > 0)
    BY <1>5, <1>7 DEF Partial
  <2> HIDE DEF hard, e, m
  <2>2. /\ f.kind \in {"match", "nomatch", "partial"} /\ (f.kind = "partial" => hard)
        /\ f.kind # "partial" => w.kind = f.kind
    <3>1. e \in Nat /\ regex \in Patterns
      BY <1>3, <1>5
    <3> QED BY ONLY InbufInv, <1>6, <3>1, ScanFinds
  <2>3. "nomatch" # "partial"
    OBVIOUS
  <2> HIDE DEF f, w
  <2>4. m.kind \in {"match", "nomatch", "partial"} /\ (m.kind = "partial" => Left(ib) > 0)
        /\ (m.kind = "nomatch" => w.kind = "nomatch")
    BY ONLY <2>1, <2>2, <2>3
  <2> QED BY <2>4 DEF w
<1>9. CASE /\ m.kind = "match" /\ inp # << >> /\ Len(input) <= m.end /\ m.end <= Len(input) + Left(ib)
           /\ \/ ~HasCallouts(regex) /\ Return(AfterMatch(ib, m.end), "scan", Captured(m, inp))
              \/ HasCallouts(regex) /\ Delivered(AfterMatch(ib, m.end), Recorded(m, inp))
  <2>1. inp = input \o Unread(ib) /\ m = PcreExec(regex, inp, 0, Partial(Left(ib) = 0))
        /\ inp = SubSeq(source, begun + 1, ib.taken)
    BY <1>7
  <2> HIDE DEF inp, m
  <2> QED BY <1>1, <1>9, <2>1, MatchStep
<1>10. CASE call' = "aborted" /\ UNCHANGED <<source, ibuf, regex, input, result, begun, runs>>
  <2>1. At(ibuf)' = At(ibuf) /\ Filling(ibuf)'
    BY <1>3, <1>10 DEF At, Left, Filling
  <2>2. InbufInv'
    BY <1>3, <1>10, <2>1 DEF InbufInv
  <2>3. UNCHANGED Abstract!svars
    BY <1>10, GoesOn
  <2> QED BY <2>2, <2>3 DEF Seen
<1>11. CASE (m.kind = "nomatch" \/ inp = << >>) /\ Return(ib, "failed", << >>)
  <2> DEFINE n == At(ib) - begun
  <2>1. Len(Abstract!Rest) = Len(source) - begun /\ Len(source) \in Nat
    BY RestIs
  <2>2. n \in 0 .. Len(Abstract!Rest) /\ n \in Int /\ At(ib) = begun + n /\ ~("failed" \in {"read", "char"})
    <3> DEFINE a == At(ib)
    <3>1. a \in Nat /\ begun \in Nat /\ begun <= a /\ a <= Len(source)
      BY <1>3, <1>4, <1>5
    <3> HIDE DEF a
    <3>2. a - begun \in 0 .. Len(source) - begun /\ a = begun + (a - begun)
      BY <2>1, <3>1
    <3> QED BY <2>1, <3>1, <3>2 DEF a
  <2> HIDE DEF n
  <2>3. InbufInv' /\ Abstract!Consume(n, "failed", << >>)
    BY <1>4, <1>11, <2>2, Returns
  <2>4. Abstract!Scan(regex)
    <3>1. PcreExec(regex, Abstract!Rest, 0, FALSE).kind = "nomatch" \/ Abstract!Rest = << >>
      <4>1. ASSUME inp = << >> PROVE Abstract!Rest = << >>
        <5>1. Left(ib) = 0 /\ e = Len(source)
          <6>1. Len(inp) = 0 /\ Len(input) \in Nat
            BY <4>1, InputIs
          <6>2. Left(ib) = 0
            <7> DEFINE x == Len(input)
                       y == Left(ib)
            <7>1. x \in Nat /\ y \in Nat /\ 0 = x + y
              BY <1>5, <1>7, <6>1
            <7> HIDE DEF x, y
            <7>2. y = 0
              BY ONLY <7>1
            <7> QED BY <7>2 DEF y
          <6> QED BY <1>4, <6>2
        <5>2. inp = SubSeq(source, begun + 1, Len(source))
          BY <1>7, <5>1
        <5> QED BY <1>3, <4>1, <5>2, RestIs DEF Abstract!Rest
      <4> QED BY <1>8, <1>11, <4>1
    <3> QED BY <2>2, <2>3, <3>1 DEF Abstract!Scan
  <2> QED BY <1>3, <2>3, <2>4 DEF Abstract!Serve, Seen
<1>12. CASE /\ m.kind = "partial" /\ input' = inp /\ ibuf' = [ib EXCEPT !.pos = Len(ib.s)]
            /\ runs' = runs + 1 /\ UNCHANGED <<source, call, regex, result, begun>>
  <2>1. Filling([ib EXCEPT !.pos = Len(ib.s)])
        /\ At([ib EXCEPT !.pos = Len(ib.s)]) = At(ib) + Len(ib.s) - ib.pos
    <3>1. Len(ib.s) \in Nat /\ Len(ib.s) <= Len(ib.s)
      BY <1>5
    <3> QED BY <1>3, <1>4, <3>1, PosMoved
  <2>2. At(ibuf)' = e /\ Filling(ibuf)'
    <3>1. At([ib EXCEPT !.pos = Len(ib.s)]) = e
      <4> DEFINE x == Len(ib.s)
                 y == ib.pos
                 z == At(ib)
                 u == At([ib EXCEPT !.pos = Len(ib.s)])
      <4>1. x \in Nat /\ y \in Nat /\ z \in Nat /\ Left(ib) = x - y /\ z + Left(ib) = e /\ u = z + x - y
        BY <1>5, <2>1
      <4> HIDE DEF x, y, z, u, e
      <4>2. u = e
        BY ONLY <4>1
      <4> QED BY <4>2 DEF u
    <3> QED BY <1>12, <2>1, <3>1 DEF At, Left, Filling
  <2>3. /\ source' \in Streams /\ begun' \in Nat /\ begun' <= At(ibuf)' /\ call' = "scan" /\ regex' \in Patterns
        /\ input' = SubSeq(source', begun' + 1, At(ibuf)')
    <3>1. source' = source /\ call' = call /\ regex' = regex /\ begun' = begun /\ input' = inp
      BY <1>12
    <3> HIDE DEF inp, e
    <3> QED BY <1>1, <1>3, <1>6, <1>7, <2>2, <3>1
  <2>4. runs' \in Nat /\ runs' <= Len(input')
    <3>1. runs' = runs + 1 /\ Left(ib) > 0 /\ Len(input') = Len(input) + Left(ib) /\ Len(input) \in Nat
      <4>1. input \in Seq(Chars)
        BY InputIs
      <4>2. Len(input) \in Nat
        BY <4>1
      <4>3. Left(ib) > 0
        BY <1>8, <1>12
      <4>4. Len(input') = Len(input) + Left(ib)
        BY <1>7, <1>12
      <4> QED BY <1>12, <4>2, <4>3, <4>4
    <3>2. runs \in Nat /\ runs <= Len(input) /\ Left(ib) \in Nat
      BY <1>3, <1>5
    <3> QED BY ONLY <3>1, <3>2
  <2>5. InbufInv'
    BY <2>2, <2>3, <2>4 DEF InbufInv
  <2>6. UNCHANGED Abstract!svars
    BY <1>12, <2>3, GoesOn
  <2> QED BY <2>5, <2>6 DEF Seen
<1> QED BY <1>2, <1>9, <1>10, <1>11, <1>12 DEF RunExec

LEMMA InbufStarts == InbufInit => InbufInv /\ Abstract!Start
<1> SUFFICES ASSUME InbufInit PROVE InbufInv /\ Abstract!Start
  OBVIOUS
<1>1. /\ source \in Streams /\ ibuf = [s |-> << >>, pos |-> 0, taken |-> 0] /\ call = "idle" /\ input = << >>
      /\ result = [op |-> "none", value |-> << >>] /\ begun = 0 /\ runs = 0
  BY DEF InbufInit
<1>2. ibuf.s = << >> /\ ibuf.pos = 0 /\ ibuf.taken = 0 /\ ibuf \in [s : Seq(Chars), pos : Nat, taken : Nat]
  BY <1>1
<1>3. Left(ibuf) = 0 /\ At(ibuf) = 0 /\ Consumed = 0
  <2>1. Len(ibuf.s) = 0
    BY <1>2
  <2>2. Left(ibuf) = 0
    BY <1>2, <2>1 DEF Left
  <2> QED BY <1>2, <2>2 DEF At, Consumed
<1>4. SubSeq(source, 1, 0) = << >> /\ source \in Seq(Chars)
  BY <1>1, StreamsAssumption, SubSeqEmpty
<1>5. Filling(ibuf)
  <2>1. Len(ibuf.s) = 0 /\ Len(source) \in Nat
    BY <1>2, <1>4
  <2>2. SubSeq(source, ibuf.taken - Len(ibuf.s) + 1, ibuf.taken) = << >>
    BY <1>2, <1>4, <2>1
  <2> QED BY <1>2, <2>1, <2>2 DEF Filling
<1>6. InbufInv
  <2>1. input = SubSeq(source, begun + 1, At(ibuf))
    BY <1>1, <1>3, <1>4
  <2>2. Len(input) = 0
    BY <1>1
  <2> QED BY <1>1, <1>3, <1>5, <2>1, <2>2 DEF InbufInv
<1>7. Abstract!Start
  BY <1>1, <1>3 DEF Abstract!Start
<1> QED BY <1>6, <1>7

LEMMA InbufStep == High = {} /\ InbufInv /\ [InbufNext]_ivars => InbufInv' /\ Seen
<1> SUFFICES ASSUME High = {}, InbufInv, [InbufNext]_ivars PROVE InbufInv' /\ Seen
  OBVIOUS
<1>1. CASE Call("line", NoPattern)
  BY <1>1, CallStep
<1>2. ASSUME NEW q \in Patterns, Call("scan", q) PROVE InbufInv' /\ Seen
  BY <1>2, CallStep
<1>3. CASE OutOfMemory \/ PrepareFails \/ StudyFails
  BY <1>3, FailsStep DEF OutOfMemory, PrepareFails, StudyFails
<1>4. CASE UNCHANGED ivars
  <2>1. InbufInv'
    BY <1>4 DEF ivars, InbufInv, Filling, At, Left
  <2>2. UNCHANGED Abstract!svars
    BY <1>4 DEF ivars, Abstract!svars, Consumed, Left
  <2> QED BY <2>1, <2>2 DEF Seen
<1> QED BY <1>1, <1>2, <1>3, <1>4, ReadStep, GetcharStep, BackStep, LineStep, RunStep DEF InbufNext

\* inbuf.c, inbuf_readline.c and inbuf_scan.c: what a call has consumed so far is
\* what it has in its hands, whatever portions it came in.
THEOREM InbufInvariant == High = {} => (InbufSpec => []InbufInv)
<1> SUFFICES ASSUME High = {} PROVE InbufSpec => []InbufInv
  OBVIOUS
<1>1. InbufInit => InbufInv
  BY InbufStarts
<1>2. InbufInv /\ [InbufNext]_ivars => InbufInv'
  BY InbufStep
<1> QED BY <1>1, <1>2, PTL DEF InbufSpec

\* inbuf_scan_exec, inbuf_readline: a loop that goes on has brought more of the
\* stream, so no call waits at its end.
THEOREM RunsBringInput == High = {} => (InbufSpec => []EveryRunBringsInput)
<1> SUFFICES ASSUME High = {} PROVE InbufSpec => []EveryRunBringsInput
  OBVIOUS
<1>1. InbufInv => EveryRunBringsInput
  BY DEF InbufInv, EveryRunBringsInput
<1>2. InbufSpec => []InbufInv
  BY InbufInvariant
<1> QED BY <1>1, <1>2, PTL

\* inbuf.c, inbuf_readline.c, inbuf_scan.c: for streams without characters that
\* are negative as a char, the callers see the stream as if it were there as a
\* whole, and never the portions in which it arrives.
THEOREM InbufRefines == High = {} => (InbufSpec => ImplementsStream)
<1> SUFFICES ASSUME High = {} PROVE InbufSpec => ImplementsStream
  OBVIOUS
<1>1. InbufInit => Abstract!Start
  BY InbufStarts
<1>2. InbufInv /\ [InbufNext]_ivars => [Abstract!Serve]_(Abstract!svars)
  BY InbufStep DEF Seen
<1>3. InbufSpec => []InbufInv
  BY InbufInvariant
<1> QED BY <1>1, <1>2, <1>3, PTL DEF InbufSpec, ImplementsStream, Abstract!StreamSpec
=============================================================================
