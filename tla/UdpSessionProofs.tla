-------------------------- MODULE UdpSessionProofs --------------------------
(***************************************************************************)
(* DispatchIsSafe, SentInOrder and PendingOutputIsSent for any number of   *)
(* sessions, datagrams and packets and any max_retries, whatever fails and *)
(* whatever the handlers write to and close.                               *)
(***************************************************************************)
EXTENDS UdpSession, SequenceTheorems, FiniteSetTheorems, WellFoundedInduction, TLAPS
-----------------------------------------------------------------------------
(* Lists.  The prover has no induction, but every set of numbers that is   *)
(* not empty has a least one, which does for a fixed set.                  *)

\* A set of numbers that is not empty has a least one.
LEMMA LeastNumber == ASSUME NEW S \in SUBSET Nat, S # {} PROVE \E x \in S : \A y \in S : x <= y
<1>1. PICK x \in S : \A y \in S : ~ (<<y, x>> \in OpToRel(<, Nat))
  BY NatLessThanWellFounded, WFMin
<1>2. \A y \in S : ~(y < x)
  BY <1>1 DEF OpToRel
<1> QED BY <1>2

\* The equations of the function in the definition of Only, up to element n
OnlyAt(f, s, S, i) == IF i = 0 THEN << >> ELSE IF s[i] \in S THEN Append(f[i - 1], s[i]) ELSE f[i - 1]
Kept(f, s, S, n) == f = [i \in 0 .. n |-> OnlyAt(f, s, S, i)]

\* The members of r are those of the first n members of s that are in S, in
\* the order of s; pos says where they come from.
Picks(r, s, S, n, pos) ==
    /\ pos \in [1 .. Len(r) -> 1 .. n]
    /\ \A k, l \in 1 .. Len(r) : k < l => pos[k] < pos[l]
    /\ \A k \in 1 .. Len(r) : r[k] = s[pos[k]] /\ r[k] \in S
    /\ \A i \in 1 .. n : s[i] \in S => \E k \in 1 .. Len(r) : pos[k] = i

\* They have a solution: suppose not, and look at the least n without one.
LEMMA KeptExists == ASSUME NEW s, NEW S, NEW n \in Nat PROVE \E f : Kept(f, s, S, n)
<1> DEFINE Bad == {m \in Nat : ~ \E f : Kept(f, s, S, m)}
<1> SUFFICES ASSUME n \in Bad PROVE FALSE
  OBVIOUS
<1>1. PICK m \in Bad : \A l \in Bad : m <= l
  BY LeastNumber
<1>2. CASE m = 0
  <2>1. Kept([i \in 0 .. 0 |-> << >>], s, S, 0)
    BY DEF Kept, OnlyAt
  <2> QED BY <1>1, <1>2, <2>1
<1>3. CASE m # 0
  <2>1. m - 1 \in Nat /\ m - 1 \notin Bad
    BY <1>1, <1>3
  <2>2. PICK g : Kept(g, s, S, m - 1)
    BY <2>1
  <2> DEFINE h == [i \in 0 .. m |-> IF i = m THEN IF s[m] \in S THEN Append(g[m - 1], s[m]) ELSE g[m - 1] ELSE g[i]]
  <2>3. \A i \in 0 .. m - 1 : h[i] = g[i]
    BY <2>1
  <2>4. ASSUME NEW i \in 0 .. m PROVE h[i] = OnlyAt(h, s, S, i)
    <3>1. CASE i = m
      BY <1>3, <2>1, <2>3, <3>1 DEF OnlyAt
    <3>2. CASE i # m
      <4>1. i \in 0 .. m - 1 /\ (i # 0 => i - 1 \in 0 .. m - 1)
        BY <2>1, <3>2
      <4>2. g[i] = OnlyAt(g, s, S, i)
        BY <2>2, <4>1 DEF Kept
      <4> HIDE DEF h
      <4> QED BY <2>3, <4>1, <4>2 DEF OnlyAt
    <3> QED BY <3>1, <3>2
  <2>5. h = [i \in 0 .. m |-> h[i]]
    OBVIOUS
  <2>6. Kept(h, s, S, m)
    <3> HIDE DEF h
    <3> QED BY <2>4, <2>5 DEF Kept
  <2> QED BY <1>1, <2>6
<1> QED BY <1>2, <1>3

\* Whoever solves them picks the members of S, in order.
LEMMA KeptPicks ==
  ASSUME NEW T, NEW s \in Seq(T), NEW S, NEW f, Kept(f, s, S, Len(s))
  PROVE  f[Len(s)] \in Seq(T) /\ \E pos : Picks(f[Len(s)], s, S, Len(s), pos)
<1> DEFINE Good(n) == f[n] \in Seq(T) /\ \E pos : Picks(f[n], s, S, n, pos)
           Bad == {m \in 0 .. Len(s) : ~Good(m)}
<1>0. Len(s) \in Nat
  OBVIOUS
<1> SUFFICES ASSUME Len(s) \in Bad PROVE FALSE
  BY <1>0
<1>1. PICK m \in Bad : \A l \in Bad : m <= l
  <2>1. Bad \in SUBSET Nat /\ Bad # {}
    BY <1>0
  <2> QED BY <2>1, LeastNumber
<1>2. CASE m = 0
  <2>1. f[0] = << >>
    <3>1. f[0] = OnlyAt(f, s, S, 0)
      BY <1>0 DEF Kept
    <3> QED BY <3>1 DEF OnlyAt
  <2>2. Picks(<< >>, s, S, 0, << >>)
    BY DEF Picks
  <2>3. << >> \in Seq(T)
    OBVIOUS
  <2> QED BY <1>1, <1>2, <2>1, <2>2, <2>3
<1>3. CASE m # 0
  <2>1. m - 1 \in 0 .. Len(s) /\ m \in 1 .. Len(s) /\ m - 1 \notin Bad
    BY <1>0, <1>1, <1>3
  <2>2. f[m - 1] \in Seq(T)
    BY <2>1
  <2>3. PICK pos : Picks(f[m - 1], s, S, m - 1, pos)
    BY <2>1
  <2>4. f[m] = IF s[m] \in S THEN Append(f[m - 1], s[m]) ELSE f[m - 1]
    <3>1. f[m] = OnlyAt(f, s, S, m)
      BY <2>1 DEF Kept
    <3> QED BY <1>3, <3>1 DEF OnlyAt
  <2> DEFINE r == f[m - 1]
             n == Len(r)
  <2>5. n \in Nat /\ r \in Seq(T) /\ s[m] \in T
    BY <2>1, <2>2
  <2>6. CASE s[m] \notin S
    <3>1. Picks(r, s, S, m, pos)
      BY <2>1, <2>3, <2>6 DEF Picks
    <3> QED BY <1>1, <2>2, <2>4, <2>6, <3>1
  <2>7. CASE s[m] \in S
    <3> DEFINE q == Append(r, s[m])
               new == [k \in 1 .. n + 1 |-> IF k = n + 1 THEN m ELSE pos[k]]
    <3>1. q \in Seq(T) /\ Len(q) = n + 1 /\ q[n + 1] = s[m] /\ \A k \in 1 .. n : q[k] = r[k]
      BY <2>5, AppendProperties
    <3>2. pos \in [1 .. n -> 1 .. m - 1]
      BY <2>3 DEF Picks
    <3>3. new \in [1 .. n + 1 -> 1 .. m] /\ new[n + 1] = m /\ \A k \in 1 .. n : new[k] = pos[k] /\ new[k] < m
      <4> HIDE DEF n
      <4> QED BY <2>1, <2>5, <3>2
    <3> HIDE DEF r, n, q, new
    <3>4. ASSUME NEW k \in 1 .. n + 1, NEW l \in 1 .. n + 1, k < l PROVE new[k] < new[l]
      <4>1. k \in 1 .. n
        BY <2>5, <3>4
      <4>2. CASE l = n + 1
        BY <3>3, <4>1, <4>2
      <4>3. CASE l # n + 1
        <5>1. l \in 1 .. n
          BY <2>5, <3>4, <4>3
        <5>2. pos[k] < pos[l]
          BY <2>3, <3>4, <4>1, <5>1 DEF Picks, n, r
        <5> QED BY <3>3, <4>1, <5>1, <5>2
      <4> QED BY <4>2, <4>3
    <3>5. \A k \in 1 .. n + 1 : q[k] = s[new[k]] /\ q[k] \in S
      <4> SUFFICES ASSUME NEW k \in 1 .. n + 1 PROVE q[k] = s[new[k]] /\ q[k] \in S
        OBVIOUS
      <4>1. CASE k = n + 1
        BY <2>7, <3>1, <3>3, <4>1
      <4>2. CASE k # n + 1
        <5>1. k \in 1 .. n
          BY <2>5, <4>2
        <5>2. r[k] = s[pos[k]] /\ r[k] \in S
          BY <2>3, <5>1 DEF Picks, n, r
        <5> QED BY <3>1, <3>3, <5>1, <5>2
      <4> QED BY <4>1, <4>2
    <3>6. \A i \in 1 .. m : s[i] \in S => \E k \in 1 .. n + 1 : new[k] = i
      <4> SUFFICES ASSUME NEW i \in 1 .. m, s[i] \in S PROVE \E k \in 1 .. n + 1 : new[k] = i
        OBVIOUS
      <4>1. CASE i = m
        BY <2>5, <3>3, <4>1
      <4>2. CASE i # m
        <5>1. PICK k \in 1 .. n : pos[k] = i
          BY <2>1, <2>3, <4>2 DEF Picks, n, r
        <5> QED BY <2>5, <3>3, <5>1
      <4> QED BY <4>1, <4>2
    <3>7. Picks(q, s, S, m, new)
      BY <3>1, <3>3, <3>4, <3>5, <3>6 DEF Picks
    <3> QED BY <1>1, <2>4, <2>7, <3>1, <3>7 DEF q, r
  <2> QED BY <2>6, <2>7
<1> QED BY <1>2, <1>3

\* Only picks the members of S, in order.
LEMMA OnlyPicks ==
  ASSUME NEW T, NEW s \in Seq(T), NEW S
  PROVE  Only(s, S) \in Seq(T) /\ \E pos : Picks(Only(s, S), s, S, Len(s), pos)
<1> DEFINE f == CHOOSE g : Kept(g, s, S, Len(s))
<1>1. Kept(f, s, S, Len(s))
  BY KeptExists
<1>2. Only(s, S) = f[Len(s)]
  BY Zenon DEF Only, Kept, OnlyAt
<1> QED BY <1>1, <1>2, KeptPicks

\* What is left of a list without duplicates has none, and nothing is lost.
LEMMA OnlyMembers ==
  ASSUME NEW T, NEW s \in Seq(T), IsInjective(s), NEW S
  PROVE  /\ Only(s, S) \in Seq(T) /\ IsInjective(Only(s, S))
         /\ \A c : Contains(Only(s, S), c) <=> Contains(s, c) /\ c \in S
<1> DEFINE r == Only(s, S)
<1>1. r \in Seq(T)
  BY OnlyPicks
<1>2. PICK pos : Picks(r, s, S, Len(s), pos)
  BY OnlyPicks
<1> HIDE DEF r
<1>3. Len(r) \in Nat /\ DOMAIN r = 1 .. Len(r) /\ Len(s) \in Nat /\ DOMAIN s = 1 .. Len(s)
  BY <1>1
<1>4. IsInjective(r)
  <2> SUFFICES ASSUME NEW k \in 1 .. Len(r), NEW l \in 1 .. Len(r), r[k] = r[l], k < l PROVE FALSE
    BY <1>3 DEF IsInjective
  <2>1. pos[k] \in 1 .. Len(s) /\ pos[l] \in 1 .. Len(s) /\ pos[k] < pos[l] /\ s[pos[k]] = s[pos[l]]
    BY <1>2 DEF Picks
  <2>2. pos[k] = pos[l]
    BY <1>3, <2>1 DEF IsInjective
  <2> QED BY <2>1, <2>2
<1>5. ASSUME NEW c PROVE Contains(r, c) <=> Contains(s, c) /\ c \in S
  <2>1. ASSUME Contains(r, c) PROVE Contains(s, c) /\ c \in S
    BY <1>2, <2>1 DEF Contains, Picks
  <2>2. ASSUME Contains(s, c), c \in S PROVE Contains(r, c)
    <3>1. PICK i \in 1 .. Len(s) : s[i] = c
      BY <2>2 DEF Contains
    <3>2. PICK k \in 1 .. Len(r) : pos[k] = i
      BY <1>2, <2>2, <3>1 DEF Picks
    <3> QED BY <1>2, <3>1, <3>2 DEF Contains, Picks
  <2> QED BY <2>1, <2>2
<1> QED BY <1>1, <1>4, <1>5 DEF r

-----------------------------------------------------------------------------
Jobs == {Main} \cup {In(s) : s \in Sessions} \cup {Out(s) : s \in Sessions}
Packets == [nr : Nat, attempts : Nat, timeouts : Nat]

\* The multiplexor and its sessions have their types.
TypeOK ==
    /\ pc \in {"setup", "poll", "dispatch", "returned", "aborted"} /\ max_retries \in Nat
    /\ list \in Seq(Sessions) /\ jobs \in Seq(Jobs)
    /\ closed \in [Sessions -> BOOLEAN] /\ broken \in [Sessions -> BOOLEAN]
    /\ oq \in [Sessions -> Seq(Packets)] /\ sent \in [Sessions -> Seq(Nat)]
    /\ wrote \in [Sessions -> Nat] /\ closes \in [Sessions -> Nat]

\* There are events only while they are handled.
JobsAreTimely ==
    /\ pc \in {"setup", "poll"} => jobs = << >>
    /\ pc = "dispatch" => jobs # << >>

\* Of a link there is at most one event of each kind, and the input is handled
\* before the output.
JobsAreOrdered == \A k, l \in 1 .. Len(jobs) :
    k < l /\ jobs[k] # Main /\ jobs[l] # Main /\ jobs[k][2] = jobs[l][2]
        => jobs[k][1] = "in" /\ jobs[l][1] = "out"

\* Output is reported for a queue whose first packet was not sent yet.
Due(q) == q # << >> /\ q[1].attempts = 0

JobsAreSafe == \A k \in 1 .. Len(jobs) : jobs[k] # Main =>
    Linked(jobs[k][2]) /\ (jobs[k][1] = "out" => Due(oq[jobs[k][2]]))

LastOf(out) == IF out = << >> THEN 0 ELSE out[Len(out)]

\* The queue q of a session to which w packets were written, l being the last
\* one that was sent: the rest of them, of which only the first may have been
\* sent, and this at most once.  No timeout was ever counted.
QueueIs(q, w, l) ==
    /\ Len(q) <= w /\ l = w - Len(q) + IF q # << >> /\ q[1].attempts > 0 THEN 1 ELSE 0
    /\ \A k \in 1 .. Len(q) :
         /\ q[k].nr = w - Len(q) + k /\ q[k].timeouts = 0
         /\ q[k].attempts = 0 \/ (k = 1 /\ q[k].attempts = 1)

\* No packet is skipped in what was sent, and none is sent after its successor.
InOrder(out) == \A k \in 1 .. Len(out) : out[k] - (IF k = 1 THEN 0 ELSE out[k - 1]) \in {0, 1}

\* All w packets were sent, or one of them was sent often enough.
Finished(w, out, retries) ==
    \/ w = LastOf(out)
    \/ \E n \in 1 .. w : Cardinality({k \in 1 .. Len(out) : out[k] = n}) >= retries

\* A session is unlinked for good, with an empty queue.
SessionsAreRight == \A s \in Sessions :
    /\ Linked(s) => closes[s] = 0
    /\ ~Linked(s) => oq[s] = << >>
    /\ closes[s] = 0 => QueueIs(oq[s], wrote[s], LastOf(sent[s]))
    /\ closes[s] > 0 /\ ~broken[s] => Finished(wrote[s], sent[s], max_retries)
    /\ InOrder(sent[s])

\* The inductive invariant of the UDP sessions
UdpInv == /\ TypeOK /\ IsInjective(list) /\ JobsAreTimely /\ JobsAreOrdered /\ JobsAreSafe
          /\ SessionsAreRight
-----------------------------------------------------------------------------
\* The kinds of events can be told apart.
LEMMA JobKinds ==
  /\ \A s \in Sessions : In(s) # Main /\ Out(s) # Main /\ In(s) # Out(s)
  /\ \A s \in Sessions : In(s)[1] = "in" /\ In(s)[2] = s /\ Out(s)[1] = "out" /\ Out(s)[2] = s
  /\ \A j \in Jobs : j # Main => j[2] \in Sessions /\ (j = In(j[2]) \/ j = Out(j[2]))
<1>1. \A s \in Sessions : In(s)[1] = "in" /\ In(s)[2] = s /\ Out(s)[1] = "out" /\ Out(s)[2] = s
  BY DEF In, Out
<1>2. Main[1] = "main"
  BY DEF Main
<1>3. \A s \in Sessions : In(s) # Main /\ Out(s) # Main /\ In(s) # Out(s)
  BY <1>1, <1>2
<1>4. \A j \in Jobs : j # Main => j[2] \in Sessions /\ (j = In(j[2]) \/ j = Out(j[2]))
  BY <1>1 DEF Jobs
<1> QED BY <1>1, <1>3, <1>4

\* poll reports what it reports in the order of pollfds: of each link first the
\* input, then the output.
LEMMA JobsOfLinks ==
  ASSUME NEW s \in Seq(Sessions), IsInjective(s), NEW R \in SUBSET Jobs, Main \notin R
  PROVE  LET r == Only(JobsOf(s), R)
         IN /\ r \in Seq(Jobs)
            /\ \A k \in 1 .. Len(r) : r[k] # Main /\ r[k] \in R /\ Contains(s, r[k][2])
            /\ \A k, l \in 1 .. Len(r) : k < l /\ r[k][2] = r[l][2] => r[k][1] = "in" /\ r[l][1] = "out"
<1> DEFINE js == JobsOf(s)
           r == Only(js, R)
<1>1. Len(s) \in Nat
  OBVIOUS
<1>2. /\ js = [k \in 1 .. 2 * Len(s) |-> IF k % 2 = 1 THEN In(s[(k + 1) \div 2]) ELSE Out(s[k \div 2])]
      /\ 2 * Len(s) \in Nat
  BY <1>1 DEF JobsOf
<1>3. \A k \in 1 .. 2 * Len(s) : /\ k % 2 = 1 => (k + 1) \div 2 \in 1 .. Len(s)
                                 /\ k % 2 # 1 => k \div 2 \in 1 .. Len(s)
  BY <1>1
<1>4. \A k \in 1 .. 2 * Len(s) : js[k] \in Jobs
  BY <1>2, <1>3 DEF Jobs
<1>5. js \in Seq(Jobs) /\ Len(js) = 2 * Len(s)
  BY <1>2, <1>4
<1> HIDE DEF js
<1>6. r \in Seq(Jobs) /\ \E pos : Picks(r, js, R, Len(js), pos)
  BY <1>5, OnlyPicks
<1>7. PICK pos : Picks(r, js, R, Len(js), pos)
  BY <1>6
<1> HIDE DEF r
<1> DEFINE At(k) == IF k % 2 = 1 THEN (k + 1) \div 2 ELSE k \div 2
<1>8. ASSUME NEW k \in 1 .. 2 * Len(s)
      PROVE  /\ At(k) \in 1 .. Len(s) /\ js[k][2] = s[At(k)] /\ s[At(k)] \in Sessions
             /\ js[k][1] = IF k % 2 = 1 THEN "in" ELSE "out"
  <2>1. CASE k % 2 = 1
    BY <1>2, <1>3, <2>1 DEF In, js
  <2>2. CASE k % 2 # 1
    BY <1>2, <1>3, <2>2 DEF Out, js
  <2> QED BY <2>1, <2>2
<1>9. ASSUME NEW k \in 1 .. Len(r) PROVE r[k] # Main /\ r[k] \in R /\ Contains(s, r[k][2])
  <2>1. r[k] = js[pos[k]] /\ r[k] \in R /\ pos[k] \in 1 .. 2 * Len(s)
    BY <1>5, <1>7 DEF Picks
  <2> HIDE DEF At
  <2> QED BY <1>8, <2>1 DEF Contains
<1>10. ASSUME NEW k \in 1 .. Len(r), NEW l \in 1 .. Len(r), k < l, r[k][2] = r[l][2]
       PROVE  r[k][1] = "in" /\ r[l][1] = "out"
  <2>1. /\ r[k] = js[pos[k]] /\ pos[k] \in 1 .. 2 * Len(s)
        /\ r[l] = js[pos[l]] /\ pos[l] \in 1 .. 2 * Len(s) /\ pos[k] < pos[l]
    BY <1>5, <1>7, <1>10 DEF Picks
  <2>2. At(pos[k]) = At(pos[l])
    <3> HIDE DEF At
    <3>1. At(pos[k]) \in 1 .. Len(s) /\ js[pos[k]][2] = s[At(pos[k])]
      BY <1>8, <2>1
    <3>2. At(pos[l]) \in 1 .. Len(s) /\ js[pos[l]][2] = s[At(pos[l])]
      BY <1>8, <2>1
    <3>3. s[At(pos[k])] = s[At(pos[l])]
      BY <1>10, <2>1, <3>1, <3>2
    <3>4. DOMAIN s = 1 .. Len(s)
      BY LenProperties
    <3> QED BY <3>1, <3>2, <3>3, <3>4 DEF IsInjective
  <2>3. ASSUME NEW p \in Nat, NEW q \in Nat, p < q, At(p) = At(q) PROVE p % 2 = 1 /\ q % 2 # 1
    BY <2>3
  <2>4. pos[k] % 2 = 1 /\ pos[l] % 2 # 1
    <3> HIDE DEF At
    <3>1. pos[k] \in Nat /\ pos[l] \in Nat
      BY <1>1, <2>1
    <3> QED BY <2>1, <2>2, <2>3, <3>1
  <2> HIDE DEF At
  <2> QED BY <1>8, <2>1, <2>4
<1> QED BY <1>6, <1>9, <1>10 DEF r, js
-----------------------------------------------------------------------------
(* Queues                                                                   *)

\* write_to_udp_link appends the next packet; the first one stays.
LEMMA QueueWritten ==
  ASSUME NEW q \in Seq(Packets), NEW w \in Nat
  PROVE  /\ Append(q, Packet(w + 1)) \in Seq(Packets) /\ Append(q, Packet(w + 1)) # << >>
         /\ q # << >> => Append(q, Packet(w + 1))[1] = q[1]
         /\ \A l : QueueIs(q, w, l) => QueueIs(Append(q, Packet(w + 1)), w + 1, l)
<1> DEFINE p == Packet(w + 1)
           r == Append(q, p)
           n == Len(q)
<1>1. p \in Packets /\ p.nr = w + 1 /\ p.attempts = 0 /\ p.timeouts = 0
  BY DEF Packets, Packet
<1> HIDE DEF p
<1>2. n \in Nat /\ r \in Seq(Packets) /\ r # << >> /\ Len(r) = n + 1 /\ r[n + 1] = p /\ \A k \in 1 .. n : r[k] = q[k]
  BY <1>1, AppendProperties
<1>3. q # << >> => 1 \in 1 .. n
  OBVIOUS
<1> HIDE DEF r, n
<1>4. ASSUME NEW l, QueueIs(q, w, l) PROVE QueueIs(r, w + 1, l)
  <2>1. /\ n <= w /\ l = w - n + IF q # << >> /\ q[1].attempts > 0 THEN 1 ELSE 0
        /\ \A k \in 1 .. n : q[k].nr = w - n + k /\ q[k].timeouts = 0
                             /\ (q[k].attempts = 0 \/ (k = 1 /\ q[k].attempts = 1))
    BY <1>4 DEF QueueIs, n
  <2>2. (w + 1) - (n + 1) = w - n /\ n + 1 <= w + 1
    BY <1>2, <2>1
  <2>3. \A k \in 1 .. n + 1 : r[k].nr = w - n + k /\ r[k].timeouts = 0
                              /\ (r[k].attempts = 0 \/ (k = 1 /\ r[k].attempts = 1))
    <3> SUFFICES ASSUME NEW k \in 1 .. n + 1
                 PROVE  r[k].nr = w - n + k /\ r[k].timeouts = 0
                        /\ (r[k].attempts = 0 \/ (k = 1 /\ r[k].attempts = 1))
      OBVIOUS
    <3>1. CASE k \in 1 .. n
      BY <1>2, <2>1, <3>1
    <3>2. CASE k = n + 1
      BY <1>1, <1>2, <3>2
    <3> QED BY <1>2, <3>1, <3>2
  <2>4. l = w - n + IF r # << >> /\ r[1].attempts > 0 THEN 1 ELSE 0
    <3>1. CASE q = << >>
      <4>1. n = 0
        BY <3>1 DEF n
      <4>2. r[1].attempts = 0
        BY <1>1, <1>2, <4>1
      <4> QED BY <2>1, <3>1, <4>2
    <3>2. CASE q # << >>
      BY <1>2, <1>3, <2>1, <3>2
    <3> QED BY <3>1, <3>2
  <2> QED BY <1>2, <2>2, <2>3, <2>4 DEF QueueIs
<1> QED BY <1>2, <1>3, <1>4 DEF r, p

\* A packet that was sent leaves the queue.
LEMMA QueueConfirmed ==
  ASSUME NEW q \in Seq(Packets), NEW w \in Nat, NEW l, QueueIs(q, w, l), q # << >>, q[1].attempts > 0
  PROVE  Tail(q) \in Seq(Packets) /\ QueueIs(Tail(q), w, l)
<1> DEFINE r == Tail(q)
           n == Len(q)
<1>1. /\ r \in Seq(Packets) /\ Len(r) = n - 1 /\ n \in Nat \ {0} /\ 1 \in 1 .. n
      /\ \A k \in 1 .. Len(r) : r[k] = q[k + 1]
  BY HeadTailProperties
<1>2. /\ n <= w /\ l = w - n + 1
      /\ \A k \in 1 .. n : q[k].nr = w - n + k /\ q[k].timeouts = 0
                           /\ (q[k].attempts = 0 \/ (k = 1 /\ q[k].attempts = 1))
  BY DEF QueueIs
<1> HIDE DEF r, n
<1>3. \A k \in 1 .. n - 1 : r[k].nr = w - (n - 1) + k /\ r[k].timeouts = 0 /\ r[k].attempts = 0
  <2> SUFFICES ASSUME NEW k \in 1 .. n - 1
               PROVE  r[k].nr = w - (n - 1) + k /\ r[k].timeouts = 0 /\ r[k].attempts = 0
    OBVIOUS
  <2>1. k + 1 \in 1 .. n /\ k + 1 # 1 /\ r[k] = q[k + 1] /\ w - n + (k + 1) = w - (n - 1) + k
    BY <1>1
  <2> QED BY <1>2, <2>1
<1>4. l = w - (n - 1) + IF r # << >> /\ r[1].attempts > 0 THEN 1 ELSE 0
  <2>1. r # << >> => 1 \in 1 .. n - 1
    BY <1>1
  <2> QED BY <1>1, <1>2, <1>3, <2>1
<1> QED BY <1>1, <1>2, <1>3, <1>4 DEF QueueIs, r

\* write_to_socket sends the packet after the last one that was sent.
LEMMA QueueSent ==
  ASSUME NEW q \in Seq(Packets), NEW w \in Nat, NEW l, QueueIs(q, w, l), Due(q)
  PROVE  /\ l \in Nat /\ q[1].nr = l + 1
         /\ AfterSend(q) \in Seq(Packets) /\ QueueIs(AfterSend(q), w, l + 1)
<1> DEFINE n == Len(q)
<1>1. n \in Nat \ {0} /\ 1 \in 1 .. n /\ q # << >> /\ q[1].attempts = 0
  BY DEF Due
<1>2. /\ n <= w /\ l = w - n
      /\ \A k \in 1 .. n : q[k].nr = w - n + k /\ q[k].timeouts = 0
                           /\ (q[k].attempts = 0 \/ (k = 1 /\ q[k].attempts = 1))
  BY <1>1 DEF QueueIs
<1>3. l \in Nat /\ q[1].nr = l + 1
  BY <1>1, <1>2
<1>4. CASE n > 1
  <2> DEFINE r == Tail(q)
  <2>1. AfterSend(q) = r
    BY <1>1, <1>4 DEF AfterSend, DiscardHead
  <2>2. r \in Seq(Packets) /\ Len(r) = n - 1 /\ \A k \in 1 .. Len(r) : r[k] = q[k + 1]
    BY <1>1, HeadTailProperties
  <2> HIDE DEF r, n
  <2>3. \A k \in 1 .. n - 1 : r[k].nr = w - (n - 1) + k /\ r[k].timeouts = 0 /\ r[k].attempts = 0
    <3> SUFFICES ASSUME NEW k \in 1 .. n - 1
                 PROVE  r[k].nr = w - (n - 1) + k /\ r[k].timeouts = 0 /\ r[k].attempts = 0
      OBVIOUS
    <3>1. k + 1 \in 1 .. n /\ k + 1 # 1 /\ r[k] = q[k + 1] /\ w - n + (k + 1) = w - (n - 1) + k
      BY <1>1, <2>2
    <3> QED BY <1>2, <3>1
  <2>4. r[1].attempts = 0
    BY <1>1, <1>4, <2>3
  <2>5. l + 1 = w - (n - 1) + IF r # << >> /\ r[1].attempts > 0 THEN 1 ELSE 0
    BY <1>1, <1>2, <2>4
  <2>6. n - 1 <= w
    BY <1>1, <1>2
  <2>7. QueueIs(r, w, l + 1)
    BY <2>2, <2>3, <2>5, <2>6 DEF QueueIs
  <2> QED BY <1>3, <2>1, <2>2, <2>7
<1>5. CASE n = 1
  <2> DEFINE p == [q[1] EXCEPT !.attempts = @ + 1]
             r == [q EXCEPT ![1].attempts = @ + 1]
  <2>1. AfterSend(q) = r
    BY <1>5 DEF AfterSend
  <2>2. q[1] \in Packets
    BY <1>1
  <2>3. p \in Packets /\ p.nr = q[1].nr /\ p.timeouts = q[1].timeouts /\ p.attempts = 1
    <3>1. q[1].attempts = 0
      BY <1>1
    <3>2. p.nr = q[1].nr /\ p.timeouts = q[1].timeouts /\ p.attempts = 1 /\ p = [q[1] EXCEPT !.attempts = 1]
      BY <2>2, <3>1 DEF Packets
    <3> HIDE DEF p
    <3> QED BY <2>2, <3>2 DEF Packets
  <2>4. r = [q EXCEPT ![1] = p]
    OBVIOUS
  <2> HIDE DEF p, r
  <2>5. r \in Seq(Packets) /\ Len(r) = n /\ r[1] = p
    BY <1>1, <2>3, <2>4
  <2>lens. n \in Nat /\ n = 1 /\ Len(r) = 1
    BY <1>5, <2>5
  <2> HIDE DEF n
  <2>6. r # << >>
    <3>1. Len(<< >>) = 0
      BY ONLY EmptySeq
    <3> QED BY ONLY <2>lens, <3>1
  <2>7. l + 1 = w - n + IF r # << >> /\ r[1].attempts > 0 THEN 1 ELSE 0
    BY <1>1, <1>2, <2>3, <2>5, <2>6
  <2>8. \A k \in 1 .. n : r[k].nr = w - n + k /\ r[k].timeouts = 0 /\ k = 1 /\ r[k].attempts = 1
    BY <1>1, <1>2, <1>5, <2>3, <2>5
  <2> QED BY <1>2, <1>3, <2>1, <2>5, <2>7, <2>8 DEF QueueIs
<1> HIDE DEF n
<1> QED BY <1>1, <1>3, <1>4, <1>5

\* What is sent next is in order.
LEMMA OutInOrder ==
  ASSUME NEW out \in Seq(Nat), InOrder(out)
  PROVE  /\ LastOf(out) \in Nat
         /\ LET new == Append(out, LastOf(out) + 1)
            IN  new \in Seq(Nat) /\ InOrder(new) /\ LastOf(new) = LastOf(out) + 1
<1> DEFINE n == Len(out)
           x == LastOf(out) + 1
           new == Append(out, x)
<1>1. n \in Nat /\ (out # << >> => n \in 1 .. n) /\ (out = << >> => n = 0)
  OBVIOUS
<1>2. LastOf(out) \in Nat
  BY <1>1 DEF LastOf
<1>3. x \in Nat
  BY <1>2
<1> HIDE DEF x
<1>4. /\ new \in Seq(Nat) /\ new # << >> /\ Len(new) = n + 1 /\ new[n + 1] = x
      /\ \A k \in 1 .. n : new[k] = out[k]
  BY <1>3, AppendProperties
<1> HIDE DEF new
<1>5. LastOf(new) = x
  BY <1>4 DEF LastOf
<1>6. InOrder(new)
  <2> SUFFICES ASSUME NEW k \in 1 .. n + 1 PROVE new[k] - (IF k = 1 THEN 0 ELSE new[k - 1]) \in {0, 1}
    BY <1>4 DEF InOrder
  <2>1. CASE k \in 1 .. n
    <3>1. k # 1 => k - 1 \in 1 .. n
      BY <1>1, <2>1
    <3>2. new[k] = out[k] /\ (k # 1 => new[k - 1] = out[k - 1])
      BY <1>4, <2>1, <3>1
    <3>3. out[k] - (IF k = 1 THEN 0 ELSE out[k - 1]) \in {0, 1}
      BY <2>1 DEF InOrder
    <3> QED BY <3>2, <3>3
  <2>2. CASE k = n + 1
    <3>1. CASE n = 0
      <4>1. LastOf(out) = 0
        BY <1>1, <3>1 DEF LastOf
      <4>2. x = 1
        BY <4>1 DEF x
      <4> QED BY <1>4, <2>2, <3>1, <4>2
    <3>2. CASE n # 0
      <4>1. LastOf(out) = out[n] /\ n \in 1 .. n /\ k # 1 /\ k - 1 = n
        BY <1>1, <2>2, <3>2 DEF LastOf
      <4>2. new[k] = x /\ new[k - 1] = LastOf(out)
        BY <1>4, <2>2, <4>1
      <4> QED BY <1>2, <4>1, <4>2 DEF x
    <3> QED BY <3>1, <3>2
  <2> QED BY <1>1, <2>1, <2>2
<1> QED BY <1>2, <1>4, <1>5, <1>6 DEF new, x

\* A queue that is empty, or that is given up, is finished.
LEMMA QueueFinished ==
  ASSUME NEW q \in Seq(Packets), NEW w \in Nat, NEW out \in Seq(Nat), NEW retries \in Nat,
         QueueIs(q, w, LastOf(out)), q = << >> \/ q[1].attempts >= retries
  PROVE  Finished(w, out, retries)
<1> DEFINE n == Len(q)
           Sent(i) == {k \in 1 .. Len(out) : out[k] = i}
<1>1. CASE q = << >>
  <2>1. LastOf(out) = w
    BY <1>1 DEF QueueIs
  <2> QED BY <2>1 DEF Finished
<1>2. CASE q # << >>
  <2>1. n \in Nat \ {0} /\ 1 \in 1 .. n /\ Len(out) \in Nat
    BY <1>2
  <2>2. /\ n <= w /\ LastOf(out) = w - n + IF q[1].attempts > 0 THEN 1 ELSE 0
        /\ q[1].attempts = 0 \/ q[1].attempts = 1
    BY <1>2, <2>1 DEF QueueIs
  <2> HIDE DEF n
  <2>3. ASSUME NEW i PROVE IsFiniteSet(Sent(i)) /\ Cardinality(Sent(i)) \in Nat
    <3>1. IsFiniteSet(1 .. Len(out))
      BY <2>1, FS_Interval
    <3>2. Sent(i) \subseteq 1 .. Len(out)
      OBVIOUS
    <3> HIDE DEF Sent
    <3>3. IsFiniteSet(Sent(i))
      BY <3>1, <3>2, FS_Subset
    <3> QED BY <3>3, FS_CardinalityType
  <2>4. CASE q[1].attempts = 0
    <3>1. retries = 0 /\ w \in 1 .. w
      BY <1>2, <2>1, <2>2, <2>4
    <3>2. Cardinality(Sent(w)) >= retries
      <4> HIDE DEF Sent
      <4> QED BY <2>3, <3>1
    <3> QED BY <3>1, <3>2 DEF Finished
  <2>5. CASE q[1].attempts = 1
    <3> DEFINE i == LastOf(out)
    <3>1. retries \in {0, 1} /\ i \in 1 .. w
      BY <1>2, <2>1, <2>2, <2>5
    <3>2. out # << >> /\ Len(out) \in 1 .. Len(out) /\ out[Len(out)] = i
      BY <3>1 DEF LastOf
    <3>3. Sent(i) # {}
      BY <3>2
    <3> HIDE DEF i, Sent
    <3>4. Cardinality(Sent(i)) # 0
      BY <2>3, <3>3, FS_EmptySet
    <3>5. Cardinality(Sent(i)) >= retries
      BY <2>3, <3>1, <3>4
    <3> QED BY <3>1, <3>5 DEF Finished, Sent
  <2> QED BY <2>2, <2>4, <2>5
<1> QED BY <1>1, <1>2
-----------------------------------------------------------------------------
(* The operations                                                           *)

\* The service starts without sessions and events.
LEMMA UdpInit == Init => UdpInv
<1> SUFFICES ASSUME Init PROVE UdpInv
  OBVIOUS
<1>1. TypeOK
  BY BoundsAssumption DEF Init, TypeOK
<1>2. IsInjective(list) /\ JobsAreTimely /\ JobsAreOrdered /\ JobsAreSafe
  BY DEF Init, JobsAreTimely, JobsAreOrdered, JobsAreSafe, IsInjective
<1>3. SessionsAreRight
  BY DEF Init, SessionsAreRight, QueueIs, InOrder, LastOf, Linked, Contains
<1> QED BY <1>1, <1>2, <1>3 DEF UdpInv

\* remove_link for links that are in the list
LEMMA UnlinkStep ==
  ASSUME UdpInv, NEW S \in SUBSET Sessions, \A s \in S : Linked(s), Unlink(S)
  PROVE  /\ list' \in Seq(Sessions) /\ IsInjective(list')
         /\ \A s \in Sessions : Contains(list', s) <=> Linked(s) /\ s \notin S
         /\ closes' \in [Sessions -> Nat]
         /\ \A s \in Sessions : closes'[s] = IF s \in S THEN 1 ELSE closes[s]
<1>1. list \in Seq(Sessions) /\ IsInjective(list)
  BY DEF UdpInv, TypeOK
<1>2. list' = Only(list, Sessions \ S)
  BY DEF Unlink
<1>3. /\ list' \in Seq(Sessions) /\ IsInjective(list')
      /\ \A s : Contains(list', s) <=> Contains(list, s) /\ s \in Sessions \ S
  BY <1>1, <1>2, OnlyMembers
<1>4. closes' = [s \in Sessions |-> closes[s] + IF s \in S THEN 1 ELSE 0]
  BY DEF Unlink
<1>5. \A s \in Sessions : closes[s] \in Nat /\ (s \in S => closes[s] = 0)
  BY DEF UdpInv, TypeOK, SessionsAreRight
<1> QED BY <1>3, <1>4, <1>5 DEF Linked

\* The loop over pollfds takes the next event.
LEMMA DispatchStep ==
  ASSUME UdpInv, NEW j, Dispatch(j)
  PROVE  /\ j \in Jobs /\ (j # Main => Linked(j[2]) /\ (j[1] = "out" => Due(oq[j[2]])))
         /\ jobs' \in Seq(Jobs) /\ pc' \in {"setup", "dispatch"}
         /\ JobsAreTimely' /\ JobsAreOrdered'
         /\ \A k \in 1 .. Len(jobs') : jobs'[k] # Main =>
              /\ Linked(jobs'[k][2]) /\ (jobs'[k][1] = "out" => Due(oq[jobs'[k][2]]))
              /\ j # Main /\ jobs'[k][2] = j[2] => j[1] = "in" /\ jobs'[k][1] = "out"
<1>1. jobs \in Seq(Jobs) /\ jobs # << >> /\ j = Head(jobs) /\ jobs' = Tail(jobs)
  BY DEF Dispatch, UdpInv, TypeOK, JobsAreTimely
<1>2. Len(jobs) \in Nat \ {0} /\ j = jobs[1] /\ j \in Jobs
  BY <1>1
<1>3. /\ jobs' \in Seq(Jobs) /\ Len(jobs') = Len(jobs) - 1
      /\ \A k \in 1 .. Len(jobs') : jobs'[k] = jobs[k + 1]
  BY <1>1, HeadTailProperties
<1>4. \A k \in 1 .. Len(jobs') : k + 1 \in 1 .. Len(jobs) /\ 1 < k + 1
  BY <1>2, <1>3
<1>5. j # Main => Linked(j[2]) /\ (j[1] = "out" => Due(oq[j[2]]))
  BY <1>2 DEF UdpInv, JobsAreSafe
<1>6. pc' \in {"setup", "dispatch"} /\ JobsAreTimely'
  BY DEF Dispatch, JobsAreTimely
<1>7. JobsAreOrdered'
  <2> SUFFICES ASSUME NEW k \in 1 .. Len(jobs'), NEW l \in 1 .. Len(jobs'), k < l,
                      jobs'[k] # Main, jobs'[l] # Main, jobs'[k][2] = jobs'[l][2]
               PROVE  jobs'[k][1] = "in" /\ jobs'[l][1] = "out"
    BY DEF JobsAreOrdered
  <2>1. k + 1 \in 1 .. Len(jobs) /\ l + 1 \in 1 .. Len(jobs) /\ k + 1 < l + 1
    BY <1>2, <1>3
  <2>2. jobs'[k] = jobs[k + 1] /\ jobs'[l] = jobs[l + 1]
    BY <1>3
  <2>3. ASSUME NEW a \in 1 .. Len(jobs), NEW b \in 1 .. Len(jobs), a < b,
               jobs[a] # Main, jobs[b] # Main, jobs[a][2] = jobs[b][2]
        PROVE  jobs[a][1] = "in" /\ jobs[b][1] = "out"
    BY <2>3 DEF UdpInv, JobsAreOrdered
  <2> HIDE DEF UdpInv, JobsAreOrdered
  <2> QED BY <2>1, <2>2, <2>3
<1>8. ASSUME NEW k \in 1 .. Len(jobs'), jobs'[k] # Main
      PROVE  /\ Linked(jobs'[k][2]) /\ (jobs'[k][1] = "out" => Due(oq[jobs'[k][2]]))
             /\ j # Main /\ jobs'[k][2] = j[2] => j[1] = "in" /\ jobs'[k][1] = "out"
  <2>1. jobs'[k] = jobs[k + 1] /\ k + 1 \in 1 .. Len(jobs) /\ 1 \in 1 .. Len(jobs) /\ 1 < k + 1
    BY <1>2, <1>3, <1>4
  <2>2. Linked(jobs'[k][2]) /\ (jobs'[k][1] = "out" => Due(oq[jobs'[k][2]]))
    BY <1>8, <2>1 DEF UdpInv, JobsAreSafe
  <2>3. j # Main /\ jobs'[k][2] = j[2] => j[1] = "in" /\ jobs'[k][1] = "out"
    BY <1>2, <1>8, <2>1 DEF UdpInv, JobsAreOrdered
  <2> QED BY <2>2, <2>3
<1> QED BY <1>2, <1>3, <1>5, <1>6, <1>7, <1>8

\* The events that remain stay safe when other links stay as they are, and the
\* link of the event itself stays if its output is due as well.
LEMMA EventStep ==
  ASSUME UdpInv, NEW j, Dispatch(j),
         \A d \in Sessions : Linked(d) /\ (j = Main \/ j[2] # d)
                               => Contains(list', d) /\ (Due(oq[d]) => Due(oq'[d])),
         \A d \in Sessions : j = In(d) /\ Due(oq[d]) => Contains(list', d) /\ Due(oq'[d])
  PROVE  jobs' \in Seq(Jobs) /\ pc' \in {"setup", "dispatch"} /\ JobsAreTimely' /\ JobsAreOrdered' /\ JobsAreSafe'
<1>1. /\ j \in Jobs /\ jobs' \in Seq(Jobs) /\ pc' \in {"setup", "dispatch"}
      /\ JobsAreTimely' /\ JobsAreOrdered'
      /\ \A k \in 1 .. Len(jobs') : jobs'[k] # Main =>
           /\ Linked(jobs'[k][2]) /\ (jobs'[k][1] = "out" => Due(oq[jobs'[k][2]]))
           /\ j # Main /\ jobs'[k][2] = j[2] => j[1] = "in" /\ jobs'[k][1] = "out"
  BY DispatchStep
<1>2. JobsAreSafe'
  <2> SUFFICES ASSUME NEW k \in 1 .. Len(jobs'), jobs'[k] # Main
               PROVE  Contains(list', jobs'[k][2]) /\ (jobs'[k][1] = "out" => Due(oq'[jobs'[k][2]]))
    BY DEF JobsAreSafe, Linked, Due
  <2> DEFINE d == jobs'[k][2]
  <2>1. d \in Sessions
    BY <1>1, JobKinds
  <2>2. /\ Linked(d) /\ (jobs'[k][1] = "out" => Due(oq[d]))
        /\ j # Main /\ j[2] = d => j[1] = "in" /\ jobs'[k][1] = "out"
    BY <1>1
  <2>3. j # Main /\ j[2] = d => j = In(d)
    BY <1>1, <2>2, JobKinds
  <2> HIDE DEF d
  <2>4. Contains(list', d) /\ (jobs'[k][1] = "out" => Due(oq'[d]))
    BY <2>1, <2>2, <2>3
  <2> QED BY <2>4 DEF d
<1> QED BY <1>1, <1>2

\* A handler writes to links that exist.
LEMMA HandlerStep ==
  ASSUME UdpInv, NEW live \in SUBSET Sessions, NEW queue \in [Sessions -> Seq(Packets)],
         NEW shut \in [Sessions -> BOOLEAN], Handler(live, queue, shut)
  PROVE  /\ oq' \in [Sessions -> Seq(Packets)] /\ wrote' \in [Sessions -> Nat] /\ closed' \in [Sessions -> BOOLEAN]
         /\ \A s \in Sessions :
              /\ s \notin live => oq'[s] = queue[s] /\ wrote'[s] = wrote[s]
              /\ \A l : QueueIs(queue[s], wrote[s], l) => QueueIs(oq'[s], wrote'[s], l)
              /\ Due(queue[s]) => Due(oq'[s])
<1>1. PICK W \in SUBSET live, X \in SUBSET live : WriteToUdpLink(W, queue) /\ CloseUdpLink(X, shut)
  BY DEF Handler
<1>2. wrote \in [Sessions -> Nat]
  BY DEF UdpInv, TypeOK
<1>3. closed' \in [Sessions -> BOOLEAN]
  BY <1>1 DEF CloseUdpLink
<1>4. /\ oq' = [s \in Sessions |-> IF s \in W THEN Append(queue[s], Packet(wrote[s] + 1)) ELSE queue[s]]
      /\ wrote' = [s \in Sessions |-> wrote[s] + IF s \in W THEN 1 ELSE 0]
  BY <1>1 DEF WriteToUdpLink
<1>5. ASSUME NEW s \in Sessions
      PROVE  /\ oq'[s] \in Seq(Packets) /\ wrote'[s] \in Nat
             /\ s \notin live => oq'[s] = queue[s] /\ wrote'[s] = wrote[s]
             /\ \A l : QueueIs(queue[s], wrote[s], l) => QueueIs(oq'[s], wrote'[s], l)
             /\ Due(queue[s]) => Due(oq'[s])
  <2>1. queue[s] \in Seq(Packets) /\ wrote[s] \in Nat
    BY <1>2
  <2>2. CASE s \in W
    <3>1. oq'[s] = Append(queue[s], Packet(wrote[s] + 1)) /\ wrote'[s] = wrote[s] + 1 /\ s \in live
      BY <1>4, <2>2
    <3>2. /\ oq'[s] \in Seq(Packets) /\ oq'[s] # << >>
          /\ queue[s] # << >> => oq'[s][1] = queue[s][1]
          /\ \A l : QueueIs(queue[s], wrote[s], l) => QueueIs(oq'[s], wrote'[s], l)
      <4> DEFINE q == queue[s]
                 r == Append(q, Packet(wrote[s] + 1))
      <4>1. /\ r \in Seq(Packets) /\ r # << >> /\ (q # << >> => r[1] = q[1])
            /\ \A l : QueueIs(q, wrote[s], l) => QueueIs(r, wrote[s] + 1, l)
        BY ONLY <2>1, QueueWritten
      <4> HIDE DEF r
      <4>2. oq'[s] = r /\ wrote'[s] = wrote[s] + 1
        BY <3>1 DEF r
      <4> QED BY ONLY <4>1, <4>2
    <3> QED BY <2>1, <3>1, <3>2 DEF Due
  <2>3. CASE s \notin W
    <3>1. oq'[s] = queue[s] /\ wrote'[s] = wrote[s]
      BY <1>2, <1>4, <2>3
    <3> QED BY <2>1, <3>1
  <2> QED BY <2>2, <2>3
<1> QED BY <1>3, <1>4, <1>5

\* What the invariant says of one session
LEMMA OneSession ==
  ASSUME UdpInv, NEW s \in Sessions
  PROVE  /\ oq[s] \in Seq(Packets) /\ wrote[s] \in Nat /\ sent[s] \in Seq(Nat) /\ closes[s] \in Nat
         /\ max_retries \in Nat
         /\ Linked(s) => closes[s] = 0 /\ QueueIs(oq[s], wrote[s], LastOf(sent[s]))
BY DEF UdpInv, TypeOK, SessionsAreRight

\* The sessions stay right: one that is still in use has a queue that fits, one
\* that is removed by this step is finished or broken, and nothing changes for
\* those that were removed before.
LEMMA SessionsStep ==
  ASSUME UdpInv, max_retries' = max_retries,
         \A s \in Sessions :
           \/ /\ closes[s] = 0 /\ closes'[s] = 0
              /\ Contains(list', s) \/ oq'[s] = << >>
              /\ QueueIs(oq'[s], wrote'[s], LastOf(sent'[s])) /\ InOrder(sent'[s])
           \/ /\ closes[s] = 0 /\ closes'[s] > 0 /\ ~Contains(list', s) /\ oq'[s] = << >>
              /\ broken'[s] \/ Finished(wrote'[s], sent'[s], max_retries)
              /\ sent'[s] = sent[s]
           \/ /\ closes[s] > 0 /\ closes'[s] = closes[s] /\ ~Contains(list', s) /\ oq'[s] = << >>
              /\ wrote'[s] = wrote[s] /\ sent'[s] = sent[s] /\ broken'[s] = broken[s]
  PROVE  SessionsAreRight'
<1>1. SessionsAreRight
  BY DEF UdpInv
<1> SUFFICES ASSUME NEW s \in Sessions
             PROVE  /\ Contains(list', s) => closes'[s] = 0
                    /\ ~Contains(list', s) => oq'[s] = << >>
                    /\ closes'[s] = 0 => QueueIs(oq'[s], wrote'[s], LastOf(sent'[s]))
                    /\ closes'[s] > 0 /\ ~broken'[s] => Finished(wrote'[s], sent'[s], max_retries')
                    /\ InOrder(sent'[s])
  BY DEF SessionsAreRight, Linked, QueueIs, LastOf, Finished, InOrder
<1>2. closes[s] \in Nat
  BY OneSession
<1> QED BY <1>1, <1>2 DEF SessionsAreRight

\* setup_polls: who gives up, or is closed and has nothing left to send for the
\* first time, is removed.
LEMMA SetupStep == ASSUME UdpInv, Setup PROVE UdpInv'
<1> DEFINE R == {s \in Sessions : Linked(s) /\ closed'[s] /\ oq'[s] = << >>}
<1>1. /\ pc = "setup" /\ pc' = "poll" /\ UNCHANGED <<max_retries, jobs, wrote, sent, broken>>
      /\ oq' = [s \in Sessions |-> IF Linked(s) THEN WeededQueue(s) ELSE oq[s]]
      /\ closed' = [s \in Sessions |-> closed[s] \/ GivesUp(s)]
      /\ Unlink(R)
  BY DEF Setup
<1>2. R \in SUBSET Sessions /\ \A s \in R : Linked(s) /\ oq'[s] = << >>
  OBVIOUS
<1>3. ASSUME NEW s \in Sessions, Linked(s)
      PROVE  /\ oq'[s] \in Seq(Packets)
             /\ s \in R => Finished(wrote[s], sent[s], max_retries)
             /\ s \notin R => QueueIs(oq'[s], wrote[s], LastOf(sent[s]))
  <2>1. /\ oq[s] \in Seq(Packets) /\ wrote[s] \in Nat /\ sent[s] \in Seq(Nat) /\ max_retries \in Nat
        /\ QueueIs(oq[s], wrote[s], LastOf(sent[s]))
    BY <1>3, OneSession
  <2>2. oq'[s] = WeededQueue(s) /\ (oq[s] # << >> => oq[s][1].attempts \in Nat)
    <3>1. oq[s] # << >> => oq[s][1] \in Packets
      BY <2>1
    <3> QED BY <1>1, <1>3, <3>1 DEF Packets
  <2>3. CASE oq[s] # << >> /\ oq[s][1].attempts >= max_retries
    <3>1. oq'[s] = << >>
      <4>1. ~(Waiting(s) /\ oq[s][1].attempts < max_retries /\ closed[s])
        BY <2>1, <2>2, <2>3
      <4> QED BY <2>2, <2>3, <4>1 DEF WeededQueue
    <3>2. closed'[s]
      BY <1>1, <1>3, <2>3 DEF GivesUp
    <3>3. Finished(wrote[s], sent[s], max_retries)
      BY <2>1, <2>3, QueueFinished
    <3> QED BY <1>3, <3>1, <3>2, <3>3
  <2>4. CASE Waiting(s) /\ oq[s][1].attempts < max_retries /\ closed[s]
    <3>1. oq[s] # << >> /\ oq[s][1].attempts > 0 /\ oq[s][1].attempts \in Nat
      BY <2>2, <2>4 DEF Waiting
    <3>2. ~(oq[s] # << >> /\ oq[s][1].attempts >= max_retries)
      BY <2>1, <2>4, <3>1
    <3>3. oq'[s] = Tail(oq[s])
      BY <2>2, <2>4, <3>1, <3>2 DEF WeededQueue, DiscardHead
    <3>4. oq'[s] \in Seq(Packets) /\ QueueIs(oq'[s], wrote[s], LastOf(sent[s]))
      BY <2>1, <3>1, <3>3, QueueConfirmed
    <3>5. oq'[s] = << >> => Finished(wrote[s], sent[s], max_retries)
      BY <2>1, <3>4, QueueFinished
    <3> QED BY <3>4, <3>5
  <2>5. CASE /\ ~(oq[s] # << >> /\ oq[s][1].attempts >= max_retries)
             /\ ~(Waiting(s) /\ oq[s][1].attempts < max_retries /\ closed[s])
    <3>1. oq'[s] = oq[s]
      BY <2>2, <2>5 DEF WeededQueue
    <3>2. oq'[s] = << >> => Finished(wrote[s], sent[s], max_retries)
      BY <2>1, <3>1, QueueFinished
    <3> QED BY <2>1, <3>1, <3>2
  <2> QED BY <2>3, <2>4, <2>5
<1>4. ASSUME NEW s \in Sessions, ~Linked(s) PROVE oq'[s] = << >> /\ oq[s] = << >>
  BY <1>1, <1>4 DEF UdpInv, SessionsAreRight
<1> HIDE DEF R
<1>5. /\ list' \in Seq(Sessions) /\ IsInjective(list')
      /\ \A s \in Sessions : Contains(list', s) <=> Linked(s) /\ s \notin R
      /\ closes' \in [Sessions -> Nat]
      /\ \A s \in Sessions : closes'[s] = IF s \in R THEN 1 ELSE closes[s]
  BY <1>1, <1>2, UnlinkStep
<1>6. jobs = << >> /\ jobs' = << >>
  BY <1>1 DEF UdpInv, JobsAreTimely
<1>7. TypeOK'
  <2>1. \A s \in Sessions : oq'[s] \in Seq(Packets)
    <3>1. << >> \in Seq(Packets)
      OBVIOUS
    <3> QED BY <1>3, <1>4, <3>1
  <2>2. oq' \in [Sessions -> Seq(Packets)]
    BY <1>1, <2>1
  <2>3. closed' \in [Sessions -> BOOLEAN]
    BY <1>1
  <2> QED BY <1>1, <1>5, <1>6, <2>2, <2>3 DEF UdpInv, TypeOK
<1>8. JobsAreTimely' /\ JobsAreOrdered' /\ JobsAreSafe'
  BY <1>1, <1>6 DEF JobsAreTimely, JobsAreOrdered, JobsAreSafe
<1>9. SessionsAreRight'
  <2>1. ASSUME NEW s \in Sessions
        PROVE  \/ /\ closes[s] = 0 /\ closes'[s] = 0
                  /\ Contains(list', s) \/ oq'[s] = << >>
                  /\ QueueIs(oq'[s], wrote'[s], LastOf(sent'[s])) /\ InOrder(sent'[s])
               \/ /\ closes[s] = 0 /\ closes'[s] > 0 /\ ~Contains(list', s) /\ oq'[s] = << >>
                  /\ broken'[s] \/ Finished(wrote'[s], sent'[s], max_retries)
                  /\ sent'[s] = sent[s]
               \/ /\ closes[s] > 0 /\ closes'[s] = closes[s] /\ ~Contains(list', s) /\ oq'[s] = << >>
                  /\ wrote'[s] = wrote[s] /\ sent'[s] = sent[s] /\ broken'[s] = broken[s]
    <3>1. /\ closes[s] \in Nat /\ InOrder(sent[s]) /\ (Linked(s) => closes[s] = 0)
          /\ closes[s] = 0 => QueueIs(oq[s], wrote[s], LastOf(sent[s]))
      BY DEF UdpInv, TypeOK, SessionsAreRight
    <3>2. wrote'[s] = wrote[s] /\ sent'[s] = sent[s] /\ broken'[s] = broken[s]
      BY <1>1
    <3>3. CASE s \in R
      <4>1. Linked(s) /\ oq'[s] = << >> /\ ~Contains(list', s) /\ closes'[s] = 1
        BY <1>2, <1>5, <3>3
      <4> QED BY <1>3, <3>1, <3>2, <3>3, <4>1
    <3>4. CASE s \notin R /\ Linked(s)
      <4>1. Contains(list', s) /\ closes'[s] = closes[s]
        BY <1>5, <3>4
      <4> QED BY <1>3, <3>1, <3>2, <3>4, <4>1
    <3>5. CASE s \notin R /\ ~Linked(s)
      <4>1. ~Contains(list', s) /\ closes'[s] = closes[s] /\ oq'[s] = << >> /\ oq[s] = << >>
        BY <1>4, <1>5, <3>5
      <4> QED BY <3>1, <3>2, <4>1
    <3> QED BY <3>3, <3>4, <3>5
  <2> QED BY <1>1, <2>1, SessionsStep
<1> QED BY <1>5, <1>7, <1>8, <1>9 DEF UdpInv

\* What poll reports is about links of the list, and output about those whose
\* first packet was not sent yet, as no timeout is ever counted.
LEMMA PollStep == ASSUME UdpInv, Poll PROVE UdpInv'
<1>1. /\ UNCHANGED <<max_retries, list, closed, oq, wrote, sent, broken, closes>>
      /\ pc' = "dispatch" /\ jobs' = Events /\ Events # << >>
  BY DEF Poll
<1> DEFINE R == {In(s) : s \in {d \in Sessions : AsksForInput(d) /\ inbox[d] > 0}}
                \cup {Out(s) : s \in {d \in Sessions : AsksForOutput(d)}}
           r == Only(JobsOf(list), R)
           top == IF first > 0 \/ ~mainfd THEN <<Main>> ELSE << >>
<1>2. R \in SUBSET Jobs /\ Main \notin R
  BY JobKinds DEF Jobs
<1>3. \A j \in R : j[1] = "out" => AsksForOutput(j[2])
  BY JobKinds
<1>4. jobs' = top \o r
  BY <1>1 DEF Events, LinkEvents
<1>5. top \in Seq(Jobs) /\ \A k \in 1 .. Len(top) : top[k] = Main
  <2>1. Main \in Jobs /\ top \in {<<Main>>, << >>}
    BY DEF Jobs
  <2>2. CASE top = <<Main>>
    <3> HIDE DEF top
    <3> QED BY <2>1, <2>2
  <2>3. CASE top = << >>
    <3> HIDE DEF top
    <3> QED BY <2>3
  <2> QED BY <2>1, <2>2, <2>3
<1> HIDE DEF R
<1>6. /\ r \in Seq(Jobs)
      /\ \A k \in 1 .. Len(r) : r[k] # Main /\ r[k] \in R /\ Linked(r[k][2])
      /\ \A k, l \in 1 .. Len(r) : k < l /\ r[k][2] = r[l][2] => r[k][1] = "in" /\ r[l][1] = "out"
  BY <1>2, JobsOfLinks DEF UdpInv, TypeOK, Linked
<1> HIDE DEF r, top
<1> DEFINE n == Len(top)
<1>7. /\ n \in Nat /\ Len(r) \in Nat /\ jobs' \in Seq(Jobs) /\ Len(jobs') = n + Len(r)
      /\ \A k \in 1 .. n : jobs'[k] = Main
      /\ \A k \in n + 1 .. n + Len(r) : jobs'[k] = r[k - n]
  BY <1>4, <1>5, <1>6, ConcatProperties
<1> HIDE DEF n
<1>8. \A k \in 1 .. Len(jobs') : jobs'[k] # Main => k - n \in 1 .. Len(r) /\ jobs'[k] = r[k - n]
  BY <1>7
<1>9. TypeOK' /\ IsInjective(list')
  BY <1>1, <1>7 DEF UdpInv, TypeOK
<1>10. SessionsAreRight'
  BY <1>1 DEF UdpInv, SessionsAreRight, Linked
<1>11. JobsAreTimely'
  BY <1>1 DEF JobsAreTimely
<1>12. JobsAreOrdered'
  <2> SUFFICES ASSUME NEW k \in 1 .. Len(jobs'), NEW l \in 1 .. Len(jobs'), k < l,
                      jobs'[k] # Main, jobs'[l] # Main, jobs'[k][2] = jobs'[l][2]
               PROVE  jobs'[k][1] = "in" /\ jobs'[l][1] = "out"
    BY DEF JobsAreOrdered
  <2>1. k - n \in 1 .. Len(r) /\ l - n \in 1 .. Len(r) /\ jobs'[k] = r[k - n] /\ jobs'[l] = r[l - n]
    BY <1>8
  <2>2. k - n < l - n
    BY <1>7
  <2> QED BY <1>6, <2>1, <2>2
<1>13. JobsAreSafe'
  <2> SUFFICES ASSUME NEW k \in 1 .. Len(jobs'), jobs'[k] # Main
               PROVE  Contains(list', jobs'[k][2]) /\ (jobs'[k][1] = "out" => Due(oq'[jobs'[k][2]]))
    BY DEF JobsAreSafe, Linked, Due
  <2> DEFINE d == jobs'[k][2]
  <2>1. Linked(d) /\ (jobs'[k][1] = "out" => AsksForOutput(d)) /\ d \in Sessions
    <3>1. k - n \in 1 .. Len(r) /\ jobs'[k] = r[k - n]
      BY <1>8
    <3>2. jobs'[k] \in R /\ jobs'[k] \in Jobs
      BY <1>2, <1>6, <3>1
    <3> QED BY <1>3, <1>6, <3>1, <3>2, JobKinds
  <2> HIDE DEF d
  <2>2. AsksForOutput(d) => Due(oq[d])
    <3>1. QueueIs(oq[d], wrote[d], LastOf(sent[d])) /\ oq[d] \in Seq(Packets)
      BY <2>1, OneSession
    <3>2. oq[d] # << >> => oq[d][1].timeouts = 0
      BY <3>1 DEF QueueIs
    <3> QED BY <3>2 DEF AsksForOutput, Due
  <2> QED BY <1>1, <2>1, <2>2 DEF d, Linked
<1> QED BY <1>9, <1>10, <1>11, <1>12, <1>13 DEF UdpInv

\* poll without events, a service that gives up and datagrams that arrive do
\* nothing to the sessions: whoever is asked for a timeout has none to count.
LEMMA QuietStep ==
  ASSUME UdpInv, Timeout \/ GiveUp \/ ArriveFirst \/ (\E s \in Sessions : Arrive(s)) \/ UNCHANGED vars
  PROVE  UdpInv'
<1>1. UNCHANGED <<max_retries, list, jobs, closed, wrote, sent, broken, closes>>
  BY DEF Timeout, GiveUp, ArriveFirst, Arrive, vars
<1>2. oq' = oq
  <2>1. CASE Timeout
    <3>1. ASSUME NEW s \in Sessions, oq[s] # << >>, AsksForOutput(s)
          PROVE  ~(oq[s][1].timeouts < oq[s][1].attempts)
      <4>1. oq[s][1] \in Packets
        BY <3>1, OneSession
      <4> QED BY <3>1, <4>1 DEF AsksForOutput, Packets
    <3>2. oq' = [s \in Sessions |-> oq[s]]
      BY <2>1, <3>1 DEF Timeout
    <3> QED BY <3>2 DEF UdpInv, TypeOK
  <2>2. CASE GiveUp \/ ArriveFirst \/ (\E s \in Sessions : Arrive(s)) \/ UNCHANGED vars
    BY <2>2 DEF GiveUp, ArriveFirst, Arrive, vars
  <2> QED BY <2>1, <2>2
<1>3. /\ pc' \in {"setup", "poll", "dispatch", "returned", "aborted"}
      /\ pc' = pc \/ pc' = "returned" \/ (pc = "poll" /\ pc' = "setup")
  BY DEF Timeout, GiveUp, ArriveFirst, Arrive, vars, UdpInv, TypeOK
<1>4. TypeOK' /\ IsInjective(list') /\ JobsAreOrdered'
  BY <1>1, <1>2, <1>3 DEF UdpInv, TypeOK, JobsAreOrdered
<1>5. JobsAreTimely'
  BY <1>1, <1>3 DEF UdpInv, JobsAreTimely
<1>6. JobsAreSafe' /\ SessionsAreRight'
  BY <1>1, <1>2 DEF UdpInv, JobsAreSafe, SessionsAreRight, Linked
<1> QED BY <1>4, <1>5, <1>6 DEF UdpInv

\* add_connection: a new link is appended; it was not in the list before.
LEMMA AddStep == ASSUME UdpInv, NEW s \in Sessions, AddConnection(s) PROVE UdpInv'
<1> DEFINE live == {d \in Sessions : Linked(d)} \cup {s}
<1>1. /\ Dispatch(Main) /\ ~Linked(s) /\ closes[s] = 0 /\ list' = Append(list, s) /\ Handler(live, oq, closed)
      /\ UNCHANGED <<max_retries, sent, broken, closes>>
  BY DEF AddConnection
<1>2. /\ list \in Seq(Sessions) /\ IsInjective(list) /\ oq \in [Sessions -> Seq(Packets)]
      /\ closed \in [Sessions -> BOOLEAN] /\ live \in SUBSET Sessions
  BY DEF UdpInv, TypeOK
<1>3. /\ list' \in Seq(Sessions) /\ Len(list') = Len(list) + 1 /\ Len(list) \in Nat
      /\ list'[Len(list) + 1] = s /\ \A k \in 1 .. Len(list) : list'[k] = list[k]
  BY <1>1, <1>2, AppendProperties
<1>4. \A d \in Sessions : Contains(list', d) <=> d \in live
  BY <1>3 DEF Linked, Contains
<1>5. IsInjective(list')
  <2> SUFFICES ASSUME NEW k \in 1 .. Len(list'), NEW l \in 1 .. Len(list'), list'[k] = list'[l], k < l PROVE FALSE
    BY <1>3 DEF IsInjective
  <2>1. k \in 1 .. Len(list)
    BY <1>3
  <2>2. CASE l = Len(list) + 1
    BY <1>1, <1>3, <2>1, <2>2 DEF Linked, Contains
  <2>3. CASE l # Len(list) + 1
    <3>1. l \in 1 .. Len(list)
      BY <1>3, <2>3
    <3>2. list[k] = list[l]
      BY <1>3, <2>1, <3>1
    <3>3. k \in DOMAIN list /\ l \in DOMAIN list
      BY <1>2, <2>1, <3>1
    <3> QED BY <1>2, <3>2, <3>3 DEF IsInjective
  <2> QED BY <2>2, <2>3
<1>6. \A d \in Sessions : Linked(d) => d \in live
  OBVIOUS
<1>7. \A d \in Sessions : closes[d] > 0 => d \notin live
  BY <1>1 DEF UdpInv, SessionsAreRight
<1> HIDE DEF live
<1>8. /\ oq' \in [Sessions -> Seq(Packets)] /\ wrote' \in [Sessions -> Nat] /\ closed' \in [Sessions -> BOOLEAN]
      /\ \A d \in Sessions :
           /\ d \notin live => oq'[d] = oq[d] /\ wrote'[d] = wrote[d]
           /\ \A l : QueueIs(oq[d], wrote[d], l) => QueueIs(oq'[d], wrote'[d], l)
           /\ Due(oq[d]) => Due(oq'[d])
  BY <1>1, <1>2, HandlerStep
<1>9. jobs' \in Seq(Jobs) /\ pc' \in {"setup", "dispatch"} /\ JobsAreTimely' /\ JobsAreOrdered' /\ JobsAreSafe'
  <2>1. \A d \in Sessions : In(d) # Main
    BY JobKinds
  <2> QED BY <1>1, <1>4, <1>6, <1>8, <2>1, EventStep
<1>10. TypeOK'
  BY <1>1, <1>3, <1>8, <1>9 DEF UdpInv, TypeOK
<1>11. SessionsAreRight'
  <2>1. ASSUME NEW d \in Sessions
        PROVE  \/ /\ closes[d] = 0 /\ closes'[d] = 0
                  /\ Contains(list', d) \/ oq'[d] = << >>
                  /\ QueueIs(oq'[d], wrote'[d], LastOf(sent'[d])) /\ InOrder(sent'[d])
               \/ /\ closes[d] > 0 /\ closes'[d] = closes[d] /\ ~Contains(list', d) /\ oq'[d] = << >>
                  /\ wrote'[d] = wrote[d] /\ sent'[d] = sent[d] /\ broken'[d] = broken[d]
    <3>1. /\ closes[d] \in Nat /\ InOrder(sent[d]) /\ (~Linked(d) => oq[d] = << >>)
          /\ closes[d] = 0 => QueueIs(oq[d], wrote[d], LastOf(sent[d]))
      BY DEF UdpInv, TypeOK, SessionsAreRight
    <3>2. d \notin live => oq'[d] = << >> /\ wrote'[d] = wrote[d]
      BY <1>6, <1>8, <3>1
    <3> QED BY <1>1, <1>4, <1>7, <1>8, <3>1, <3>2
  <2> QED BY <1>1, <2>1, SessionsStep
<1> QED BY <1>5, <1>9, <1>10, <1>11 DEF UdpInv

\* A session that cannot be started does nothing to the others.
LEMMA AddFailsStep == ASSUME UdpInv, AddConnectionFails PROVE UdpInv'
<1>1. UNCHANGED <<max_retries, list, closed, oq, wrote, sent, broken, closes>>
  BY DEF AddConnectionFails
<1>2. /\ jobs' \in Seq(Jobs) /\ pc' \in {"setup", "dispatch", "aborted"}
      /\ JobsAreTimely' /\ JobsAreOrdered' /\ JobsAreSafe'
  <2>1. CASE Dispatch(Main)
    <3>1. \A d \in Sessions : In(d) # Main
      BY JobKinds
    <3>2. \A d \in Sessions : Linked(d) => Contains(list', d) /\ (Due(oq[d]) => Due(oq'[d]))
      BY <1>1 DEF Linked
    <3> QED BY <2>1, <3>1, <3>2, EventStep
  <2>2. CASE pc' = "aborted" /\ jobs' = << >>
    BY <2>2 DEF JobsAreTimely, JobsAreOrdered, JobsAreSafe
  <2> QED BY <2>1, <2>2 DEF AddConnectionFails
<1>3. TypeOK' /\ IsInjective(list')
  BY <1>1, <1>2 DEF UdpInv, TypeOK
<1>4. SessionsAreRight'
  BY <1>1 DEF UdpInv, SessionsAreRight, Linked
<1> QED BY <1>2, <1>3, <1>4 DEF UdpInv

\* The link after POLLIN: a packet that is due stays.
LEMMA ConfirmedQueues ==
  ASSUME UdpInv, NEW s \in Sessions, Linked(s)
  PROVE  /\ Confirmed(s) \in [Sessions -> Seq(Packets)]
         /\ \A d \in Sessions : d # s => Confirmed(s)[d] = oq[d]
         /\ Due(oq[s]) => Confirmed(s)[s] = oq[s]
         /\ QueueIs(Confirmed(s)[s], wrote[s], LastOf(sent[s]))
<1>1. /\ oq[s] \in Seq(Packets) /\ wrote[s] \in Nat /\ QueueIs(oq[s], wrote[s], LastOf(sent[s]))
      /\ oq \in [Sessions -> Seq(Packets)]
  BY OneSession DEF UdpInv, TypeOK
<1>2. CASE Waiting(s)
  <2>1. oq[s] # << >> /\ oq[s][1].attempts > 0
    BY <1>2 DEF Waiting
  <2>2. Confirmed(s) = [oq EXCEPT ![s] = Tail(oq[s])]
    BY <1>2, <2>1 DEF Confirmed, DiscardHead
  <2>3. Tail(oq[s]) \in Seq(Packets) /\ QueueIs(Tail(oq[s]), wrote[s], LastOf(sent[s]))
    BY <1>1, <2>1, QueueConfirmed
  <2>4. ~Due(oq[s])
    BY <2>1 DEF Due
  <2> QED BY <1>1, <2>2, <2>3, <2>4
<1>3. CASE ~Waiting(s)
  BY <1>1, <1>3 DEF Confirmed
<1> QED BY <1>2, <1>3

\* The input handler removes its link only when its read failed and nothing is
\* to be sent.
LEMMA InputStep == ASSUME UdpInv, NEW s \in Sessions, Input(s) \/ InputFails(s) PROVE UdpInv'
<1>1. Dispatch(In(s)) /\ UNCHANGED <<max_retries, sent>>
  BY DEF Input, InputFails
<1>2. Linked(s) /\ In(s) # Main /\ In(s)[2] = s
  BY <1>1, DispatchStep, JobKinds
<1>3. /\ list \in Seq(Sessions) /\ IsInjective(list) /\ closed \in [Sessions -> BOOLEAN]
      /\ broken \in [Sessions -> BOOLEAN] /\ closes \in [Sessions -> Nat]
  BY DEF UdpInv, TypeOK
<1>4. PICK S \in SUBSET {s}, shut \in [Sessions -> BOOLEAN] :
        /\ S # {} => Confirmed(s)[s] = << >> /\ broken'[s]
        /\ Handler({d \in Sessions : Linked(d)} \ S, Confirmed(s), shut)
        /\ list' \in Seq(Sessions) /\ IsInjective(list')
        /\ \A d \in Sessions : Contains(list', d) <=> Linked(d) /\ d \notin S
        /\ closes' \in [Sessions -> Nat]
        /\ \A d \in Sessions : closes'[d] = IF d \in S THEN 1 ELSE closes[d]
        /\ broken' \in [Sessions -> BOOLEAN] /\ \A d \in Sessions : d # s => broken'[d] = broken[d]
  <2>1. CASE Input(s)
    <3>1. Handler({d \in Sessions : Linked(d)} \ {}, Confirmed(s), closed) /\ UNCHANGED <<list, closes, broken>>
      <4>1. {d \in Sessions : Linked(d)} \ {} = {d \in Sessions : Linked(d)}
        OBVIOUS
      <4> QED BY <2>1, <4>1 DEF Input
    <3>2. \A d \in Sessions : Contains(list', d) <=> Linked(d) /\ d \notin {}
      BY <3>1 DEF Linked
    <3>3. \A d \in Sessions : closes'[d] = IF d \in {} THEN 1 ELSE closes[d]
      BY <3>1
    <3>4. /\ list' \in Seq(Sessions) /\ IsInjective(list')
          /\ closes' \in [Sessions -> Nat] /\ broken' \in [Sessions -> BOOLEAN]
      BY <1>3, <3>1
    <3> closed \in [Sessions -> BOOLEAN]
      BY <1>3
    <3> WITNESS {} \in SUBSET {s}, closed \in [Sessions -> BOOLEAN]
    <3> QED BY <3>1, <3>2, <3>3, <3>4
  <2>2. CASE InputFails(s)
    <3> DEFINE S == RemovedAtFailure(s)
               shut == [closed EXCEPT ![s] = TRUE]
    <3>1. /\ Handler({d \in Sessions : Linked(d)} \ S, Confirmed(s), shut)
          /\ Unlink(S) /\ broken' = [broken EXCEPT ![s] = TRUE]
      BY <2>2 DEF InputFails
    <3>2. S \in SUBSET {s} /\ (S # {} => Confirmed(s)[s] = << >>)
      BY DEF RemovedAtFailure
    <3>3. shut \in [Sessions -> BOOLEAN] /\ broken' \in [Sessions -> BOOLEAN] /\ broken'[s]
          /\ \A d \in Sessions : d # s => broken'[d] = broken[d]
      BY <1>3, <3>1
    <3> HIDE DEF S, shut
    <3>4. S \in SUBSET Sessions /\ \A d \in S : Linked(d)
      BY <1>2, <3>2
    <3>5. /\ list' \in Seq(Sessions) /\ IsInjective(list')
          /\ \A d \in Sessions : Contains(list', d) <=> Linked(d) /\ d \notin S
          /\ closes' \in [Sessions -> Nat]
          /\ \A d \in Sessions : closes'[d] = IF d \in S THEN 1 ELSE closes[d]
      BY <3>1, <3>4, UnlinkStep
    <3> QED BY <3>1, <3>2, <3>3, <3>5
  <2> QED BY <2>1, <2>2
<1> DEFINE live == {d \in Sessions : Linked(d)} \ S
<1>5. live \in SUBSET Sessions /\ \A d \in Sessions : d \in live <=> Linked(d) /\ d \notin S
  OBVIOUS
<1>6. /\ Confirmed(s) \in [Sessions -> Seq(Packets)]
      /\ \A d \in Sessions : d # s => Confirmed(s)[d] = oq[d]
      /\ Due(oq[s]) => Confirmed(s)[s] = oq[s]
      /\ QueueIs(Confirmed(s)[s], wrote[s], LastOf(sent[s]))
  BY <1>2, ConfirmedQueues
<1>7. Handler(live, Confirmed(s), shut)
  BY <1>4
<1> HIDE DEF live
<1>8. /\ oq' \in [Sessions -> Seq(Packets)] /\ wrote' \in [Sessions -> Nat] /\ closed' \in [Sessions -> BOOLEAN]
      /\ \A d \in Sessions :
           /\ d \notin live => oq'[d] = Confirmed(s)[d] /\ wrote'[d] = wrote[d]
           /\ \A l : QueueIs(Confirmed(s)[d], wrote[d], l) => QueueIs(oq'[d], wrote'[d], l)
           /\ Due(Confirmed(s)[d]) => Due(oq'[d])
  BY <1>5, <1>6, <1>7, HandlerStep
<1>9. jobs' \in Seq(Jobs) /\ pc' \in {"setup", "dispatch"} /\ JobsAreTimely' /\ JobsAreOrdered' /\ JobsAreSafe'
  <2>1. ASSUME NEW d \in Sessions, Linked(d), d # s PROVE Contains(list', d) /\ (Due(oq[d]) => Due(oq'[d]))
    BY <1>4, <1>6, <1>8, <2>1
  <2>2. ASSUME NEW d \in Sessions, In(s) = In(d), Due(oq[d]) PROVE Contains(list', d) /\ Due(oq'[d])
    <3>1. d = s
      BY <2>2, JobKinds
    <3>2. Due(Confirmed(s)[s]) /\ Confirmed(s)[s] # << >>
      BY <1>6, <2>2, <3>1 DEF Due
    <3> QED BY <1>2, <1>4, <1>8, <3>1, <3>2
  <2> QED BY <1>1, <1>2, <2>1, <2>2, EventStep
<1>10. TypeOK'
  BY <1>1, <1>4, <1>8, <1>9 DEF UdpInv, TypeOK
<1>11. SessionsAreRight'
  <2>1. ASSUME NEW d \in Sessions
        PROVE  \/ /\ closes[d] = 0 /\ closes'[d] = 0
                  /\ Contains(list', d) \/ oq'[d] = << >>
                  /\ QueueIs(oq'[d], wrote'[d], LastOf(sent'[d])) /\ InOrder(sent'[d])
               \/ /\ closes[d] = 0 /\ closes'[d] > 0 /\ ~Contains(list', d) /\ oq'[d] = << >>
                  /\ broken'[d] \/ Finished(wrote'[d], sent'[d], max_retries)
                  /\ sent'[d] = sent[d]
               \/ /\ closes[d] > 0 /\ closes'[d] = closes[d] /\ ~Contains(list', d) /\ oq'[d] = << >>
                  /\ wrote'[d] = wrote[d] /\ sent'[d] = sent[d] /\ broken'[d] = broken[d]
    <3>1. /\ closes[d] \in Nat /\ InOrder(sent[d]) /\ (Linked(d) => closes[d] = 0)
          /\ ~Linked(d) => oq[d] = << >>
          /\ closes[d] = 0 => QueueIs(oq[d], wrote[d], LastOf(sent[d]))
          /\ sent'[d] = sent[d]
      BY <1>1 DEF UdpInv, TypeOK, SessionsAreRight
    <3>2. CASE d \in S
      <4>1. d = s /\ d \notin live /\ closes'[d] = 1 /\ ~Contains(list', d) /\ broken'[d] /\ Confirmed(s)[d] = << >>
        BY <1>4, <1>5, <3>2
      <4>2. oq'[d] = << >>
        BY <1>8, <4>1
      <4>3. closes[d] = 0 /\ closes'[d] > 0
        BY <1>2, <3>1, <4>1
      <4>4. broken'[d] \/ Finished(wrote'[d], sent'[d], max_retries)
        BY <4>1, Zenon
      <4> QED BY <3>1, <4>1, <4>2, <4>3, <4>4
    <3>3. CASE d \notin S /\ Linked(d)
      <4>1. Contains(list', d) /\ closes'[d] = closes[d] /\ closes[d] = 0
        BY <1>4, <3>1, <3>3
      <4>2. QueueIs(Confirmed(s)[d], wrote[d], LastOf(sent[d]))
        BY <1>6, <3>1, <4>1
      <4>3. QueueIs(oq'[d], wrote'[d], LastOf(sent'[d]))
        BY <1>8, <3>1, <4>2
      <4> QED BY <3>1, <4>1, <4>3
    <3>4. CASE ~Linked(d)
      <4>1. d # s /\ d \notin S /\ d \notin live
        BY <1>2, <1>5, <3>4
      <4>2. /\ oq'[d] = oq[d] /\ wrote'[d] = wrote[d] /\ closes'[d] = closes[d]
            /\ ~Contains(list', d) /\ broken'[d] = broken[d]
        BY <1>4, <1>6, <1>8, <3>4, <4>1
      <4> QED BY <3>1, <3>4, <4>2
    <3> QED BY <3>2, <3>3, <3>4
  <2> QED BY <1>1, <2>1, SessionsStep
<1> QED BY <1>4, <1>9, <1>10, <1>11 DEF UdpInv

\* write_to_socket sends the packet that is due.
LEMMA OutputStep == ASSUME UdpInv, NEW s \in Sessions, Output(s) PROVE UdpInv'
<1>1. /\ Dispatch(Out(s)) /\ UNCHANGED <<max_retries, list, closed, wrote, broken, closes>>
      /\ sent' = [sent EXCEPT ![s] = Append(sent[s], oq[s][1].nr)]
      /\ oq' = [oq EXCEPT ![s] = AfterSend(oq[s])]
  BY DEF Output
<1>2. Linked(s) /\ Due(oq[s]) /\ Out(s) # Main /\ Out(s)[2] = s /\ \A d \in Sessions : Out(s) # In(d)
  <2>1. Out(s)[1] = "out" /\ \A d \in Sessions : In(d)[1] = "in"
    BY JobKinds
  <2> QED BY <1>1, <2>1, DispatchStep, JobKinds
<1>3. /\ oq[s] \in Seq(Packets) /\ wrote[s] \in Nat /\ sent[s] \in Seq(Nat) /\ closes[s] = 0
      /\ QueueIs(oq[s], wrote[s], LastOf(sent[s])) /\ InOrder(sent[s])
      /\ oq \in [Sessions -> Seq(Packets)] /\ sent \in [Sessions -> Seq(Nat)]
  BY <1>2 DEF UdpInv, TypeOK, SessionsAreRight
<1>4. /\ oq[s][1].nr = LastOf(sent[s]) + 1
      /\ AfterSend(oq[s]) \in Seq(Packets) /\ QueueIs(AfterSend(oq[s]), wrote[s], LastOf(sent[s]) + 1)
  BY <1>2, <1>3, QueueSent
<1>5. /\ sent' = [sent EXCEPT ![s] = Append(sent[s], LastOf(sent[s]) + 1)]
      /\ \A d \in Sessions : d # s => oq'[d] = oq[d] /\ sent'[d] = sent[d]
  BY <1>1, <1>3, <1>4
<1>6. sent'[s] \in Seq(Nat) /\ InOrder(sent'[s]) /\ LastOf(sent'[s]) = LastOf(sent[s]) + 1
  BY <1>3, <1>5, OutInOrder
<1>7. oq' \in [Sessions -> Seq(Packets)] /\ sent' \in [Sessions -> Seq(Nat)]
  BY <1>1, <1>3, <1>4, <1>5, <1>6
<1>8. QueueIs(oq'[s], wrote'[s], LastOf(sent'[s]))
  BY <1>1, <1>3, <1>4, <1>6
<1>9. jobs' \in Seq(Jobs) /\ pc' \in {"setup", "dispatch"} /\ JobsAreTimely' /\ JobsAreOrdered' /\ JobsAreSafe'
  <2>1. \A d \in Sessions : Linked(d) /\ d # s => Contains(list', d) /\ (Due(oq[d]) => Due(oq'[d]))
    BY <1>1, <1>5 DEF Linked
  <2> QED BY <1>1, <1>2, <2>1, EventStep
<1>10. TypeOK' /\ IsInjective(list')
  BY <1>1, <1>7, <1>9 DEF UdpInv, TypeOK
<1>11. SessionsAreRight'
  <2>1. ASSUME NEW d \in Sessions
        PROVE  \/ /\ closes[d] = 0 /\ closes'[d] = 0
                  /\ Contains(list', d) \/ oq'[d] = << >>
                  /\ QueueIs(oq'[d], wrote'[d], LastOf(sent'[d])) /\ InOrder(sent'[d])
               \/ /\ closes[d] > 0 /\ closes'[d] = closes[d] /\ ~Contains(list', d) /\ oq'[d] = << >>
                  /\ wrote'[d] = wrote[d] /\ sent'[d] = sent[d] /\ broken'[d] = broken[d]
    <3>1. CASE d = s
      BY <1>1, <1>2, <1>3, <1>6, <1>8, <3>1 DEF Linked
    <3>2. CASE d # s
      <4>1. UNCHANGED <<list, oq[d], sent[d], wrote[d], closes[d], broken[d]>>
        BY <1>1, <1>5, <3>2
      <4>2. /\ closes[d] \in Nat /\ InOrder(sent[d]) /\ (Linked(d) => closes[d] = 0)
            /\ ~Linked(d) => oq[d] = << >>
            /\ closes[d] = 0 => QueueIs(oq[d], wrote[d], LastOf(sent[d]))
        BY DEF UdpInv, TypeOK, SessionsAreRight
      <4> QED BY <4>1, <4>2 DEF Linked
    <3> QED BY <3>1, <3>2
  <2> QED BY <1>1, <2>1, SessionsStep
<1> QED BY <1>9, <1>10, <1>11 DEF UdpInv

\* A send that fails is the end of the session.
LEMMA OutputFailsStep == ASSUME UdpInv, NEW s \in Sessions, OutputFails(s) PROVE UdpInv'
<1>1. /\ Dispatch(Out(s)) /\ UNCHANGED <<max_retries, closed, wrote, sent>> /\ Unlink({s})
      /\ broken' = [broken EXCEPT ![s] = TRUE] /\ oq' = [oq EXCEPT ![s] = << >>]
  BY DEF OutputFails
<1>2. Linked(s) /\ Out(s) # Main /\ Out(s)[2] = s /\ \A d \in Sessions : Out(s) # In(d)
  <2>1. Out(s)[1] = "out" /\ \A d \in Sessions : In(d)[1] = "in"
    BY JobKinds
  <2> QED BY <1>1, <2>1, DispatchStep, JobKinds
<1>3. oq \in [Sessions -> Seq(Packets)] /\ broken \in [Sessions -> BOOLEAN] /\ << >> \in Seq(Packets)
  BY DEF UdpInv, TypeOK
<1>4. /\ oq' \in [Sessions -> Seq(Packets)] /\ broken' \in [Sessions -> BOOLEAN] /\ oq'[s] = << >> /\ broken'[s]
      /\ \A d \in Sessions : d # s => oq'[d] = oq[d] /\ broken'[d] = broken[d]
  BY <1>1, <1>3
<1>5. /\ list' \in Seq(Sessions) /\ IsInjective(list')
      /\ \A d \in Sessions : Contains(list', d) <=> Linked(d) /\ d # s
      /\ closes' \in [Sessions -> Nat]
      /\ \A d \in Sessions : closes'[d] = IF d = s THEN 1 ELSE closes[d]
  <2>1. {s} \in SUBSET Sessions /\ \A d \in {s} : Linked(d)
    BY <1>2
  <2> QED BY <1>1, <2>1, UnlinkStep
<1>6. jobs' \in Seq(Jobs) /\ pc' \in {"setup", "dispatch"} /\ JobsAreTimely' /\ JobsAreOrdered' /\ JobsAreSafe'
  <2>1. \A d \in Sessions : Linked(d) /\ d # s => Contains(list', d) /\ (Due(oq[d]) => Due(oq'[d]))
    BY <1>4, <1>5
  <2> QED BY <1>1, <1>2, <2>1, EventStep
<1>7. TypeOK'
  BY <1>1, <1>4, <1>5, <1>6 DEF UdpInv, TypeOK
<1>8. SessionsAreRight'
  <2>1. ASSUME NEW d \in Sessions
        PROVE  \/ /\ closes[d] = 0 /\ closes'[d] = 0
                  /\ Contains(list', d) \/ oq'[d] = << >>
                  /\ QueueIs(oq'[d], wrote'[d], LastOf(sent'[d])) /\ InOrder(sent'[d])
               \/ /\ closes[d] = 0 /\ closes'[d] > 0 /\ ~Contains(list', d) /\ oq'[d] = << >>
                  /\ broken'[d] \/ Finished(wrote'[d], sent'[d], max_retries)
                  /\ sent'[d] = sent[d]
               \/ /\ closes[d] > 0 /\ closes'[d] = closes[d] /\ ~Contains(list', d) /\ oq'[d] = << >>
                  /\ wrote'[d] = wrote[d] /\ sent'[d] = sent[d] /\ broken'[d] = broken[d]
    <3>1. /\ closes[d] \in Nat /\ InOrder(sent[d]) /\ (Linked(d) => closes[d] = 0)
          /\ ~Linked(d) => oq[d] = << >>
          /\ closes[d] = 0 => QueueIs(oq[d], wrote[d], LastOf(sent[d]))
          /\ wrote'[d] = wrote[d] /\ sent'[d] = sent[d]
      BY <1>1 DEF UdpInv, TypeOK, SessionsAreRight
    <3>2. CASE d = s
      <4>1. closes[d] = 0 /\ closes'[d] > 0 /\ ~Contains(list', d) /\ oq'[d] = << >>
        BY <1>2, <1>4, <1>5, <3>1, <3>2
      <4>2. broken'[d] \/ Finished(wrote'[d], sent'[d], max_retries)
        BY <1>4, <3>2, Zenon
      <4> QED BY <3>1, <4>1, <4>2
    <3>3. CASE d # s
      BY <1>4, <1>5, <3>1, <3>3
    <3> QED BY <3>2, <3>3
  <2> QED BY <1>1, <2>1, SessionsStep
<1> QED BY <1>5, <1>6, <1>7, <1>8 DEF UdpInv

\* Nothing the service, the handlers or the network do breaks the invariant.
LEMMA UdpStep == UdpInv /\ [Next]_vars => UdpInv'
BY SetupStep, PollStep, QuietStep, AddStep, AddFailsStep, InputStep, OutputStep, OutputFailsStep DEF Next, Handle
-----------------------------------------------------------------------------
\* The invariant of the UDP sessions holds in every state.
THEOREM UdpInvariant == Spec => []UdpInv
BY UdpInit, UdpStep, PTL DEF Spec

\* udp_session.c, run_udp_service and write_to_socket: link->oqhead is there
\* whenever an event is handled, although handlers remove links and confirmed
\* packets leave their queues in the same round.
THEOREM DispatchHolds == Spec => []DispatchIsSafe
<1>1. UdpInv => DispatchIsSafe
  BY DEF UdpInv, JobsAreSafe, Due, DispatchIsSafe
<1> QED BY <1>1, UdpInvariant, PTL

\* udp_session.c, write_to_socket and discard_oq_head: packets go out in the
\* order in which they were written, none is skipped, none comes back.
THEOREM OrderHolds == Spec => []SentInOrder
<1>1. ASSUME UdpInv PROVE SentInOrder
  <2> SUFFICES ASSUME NEW s \in Sessions
               PROVE  /\ InOrder(sent[s])
                      /\ oq[s] # << >> => oq[s][1].nr =
                           (IF sent[s] = << >> THEN 1 ELSE Last(sent[s]) + IF Waiting(s) THEN 0 ELSE 1)
    BY DEF SentInOrder, InOrder
  <2>1. InOrder(sent[s])
    BY <1>1 DEF UdpInv, SessionsAreRight
  <2>2. ASSUME oq[s] # << >>
        PROVE  oq[s][1].nr = (IF sent[s] = << >> THEN 1 ELSE Last(sent[s]) + IF Waiting(s) THEN 0 ELSE 1)
    <3> DEFINE n == Len(oq[s])
               l == LastOf(sent[s])
    <3>1. Linked(s)
      BY <1>1, <2>2 DEF UdpInv, SessionsAreRight
    <3>2. oq[s] \in Seq(Packets) /\ wrote[s] \in Nat /\ QueueIs(oq[s], wrote[s], l)
      BY <1>1, <3>1, OneSession
    <3>3. n \in Nat \ {0} /\ 1 \in 1 .. n
      BY <2>2, <3>2
    <3>4. n <= wrote[s] /\ oq[s][1].nr = wrote[s] - n + 1 /\ l = wrote[s] - n + IF Waiting(s) THEN 1 ELSE 0
      BY <2>2, <3>2, <3>3 DEF QueueIs, Waiting
    <3>5. l = IF sent[s] = << >> THEN 0 ELSE Last(sent[s])
      BY DEF LastOf, Last
    <3> HIDE DEF n, l
    <3>6. oq[s][1].nr = l + (IF Waiting(s) THEN 0 ELSE 1) /\ (Waiting(s) => l # 0)
      BY <3>2, <3>3, <3>4
    <3> QED BY <3>5, <3>6
  <2> QED BY <2>1, <2>2
<1> QED BY <1>1, UdpInvariant, PTL

\* udp_session.c, setup_polls and close_udp_link: a session is not removed with
\* packets that were never sent, unless it failed or was given up.
THEOREM PendingHolds == Spec => []PendingOutputIsSent
<1>1. UdpInv => PendingOutputIsSent
  BY DEF UdpInv, SessionsAreRight, Finished, LastOf, Last, PendingOutputIsSent
<1> QED BY <1>1, UdpInvariant, PTL

\* Every packet that waits in a queue was sent once or not at all, and no
\* timeout was counted for it.
SentAtMostOnce == \A s \in Sessions : \A k \in 1 .. Len(oq[s]) :
    oq[s][k].timeouts = 0 /\ oq[s][k].attempts \in {0, 1}

\* udp_session.c:347: run_udp_service counts a timeout only for links that
\* asked for POLLOUT, and setup_polls asks for it, after the first attempt, only
\* once a timeout was counted.  So nothing is ever retransmitted, whatever
\* max_retries is (see PacketIsSentAgain).
THEOREM NothingIsRetransmitted == Spec => []SentAtMostOnce
<1>1. ASSUME UdpInv PROVE SentAtMostOnce
  <2> SUFFICES ASSUME NEW s \in Sessions, NEW k \in 1 .. Len(oq[s])
               PROVE  oq[s][k].timeouts = 0 /\ oq[s][k].attempts \in {0, 1}
    BY DEF SentAtMostOnce
  <2>1. oq[s] # << >>
    OBVIOUS
  <2>2. closes[s] = 0
    BY <1>1, <2>1 DEF UdpInv, SessionsAreRight
  <2>3. QueueIs(oq[s], wrote[s], LastOf(sent[s]))
    BY <1>1, <2>2 DEF UdpInv, SessionsAreRight
  <2> QED BY <2>3 DEF QueueIs
<1> QED BY <1>1, UdpInvariant, PTL
=============================================================================
