-------------------------- MODULE SharedSetupProofs --------------------------
(***************************************************************************)
(* ResourcesAreReleased and LayoutIsSound for every number of processes,   *)
(* every size of the buffers and of the extra space, every size of the     *)
(* structs and every alignment.                                            *)
(***************************************************************************)
EXTENDS SharedSetup, FiniteSetTheorems, TLAPS

All == {"path", "file", "sd", "map"}

\* The objects initialized so far: those of the buffers before buffer i, and
\* the first `part' objects of buffer i.
Done == {x \in Buffers : x[1] < i \/ (x[1] = i /\ x[2] < part)}

\* What the creator holds depends on where it is, and on nothing else.
HeldIsRight ==
    /\ pc = "mkstemp" => held = {"path"}
    /\ pc \in {"ftruncate", "malloc"} => held = File
    /\ pc = "mmap" => held = File \cup {"sd"}
    /\ pc \in {"header", "fail"} => held = All
    /\ pc \in {"buffer", "cleanup", "ready"} => held = All \cup Header
    /\ pc = "failed" => held \subseteq {"sd"}
    /\ pc = "freed" => held = {}

BufsAreRight ==
    /\ pc \in {"mkstemp", "ftruncate", "malloc", "mmap", "header"} =>
         bufs = {} /\ i = 1 /\ part = 0
    /\ pc = "buffer" => i \in 1 .. N /\ part \in Parts /\ bufs = Done
    /\ pc = "cleanup" => bufs \cap Buffer(i) = {}
    /\ pc = "ready" => bufs = Buffers
    /\ pc = "freed" => bufs = {}

\* The header has the sizes that sd_setup was called with.
HeaderIsRight ==
    /\ size \in [bufsize : BufSizes, extra_space_size : ExtraSizes]
    /\ pc \in {"buffer", "ready"} =>
         header = [nofprocesses |-> N, bufsize |-> size.bufsize, extra_space_size |-> size.extra_space_size,
                   extra_space_offset |-> MemSize(size.bufsize, size.extra_space_size) - size.extra_space_size]

ConnectorIsRight == cpc = "refused" => cheld = {}

\* The inductive invariant of the setup
SetupInv == HeldIsRight /\ BufsAreRight /\ HeaderIsRight /\ ConnectorIsRight
-----------------------------------------------------------------------------
\* The invariant holds when sd_setup_with_extra_space is called.
LEMMA SetupInit == Init => SetupInv
  BY DEF Init, SetupInv, HeldIsRight, BufsAreRight, HeaderIsRight, ConnectorIsRight

\* init_header comes before the first object of the first buffer.
LEMMA InitHeaderStep == ASSUME BufsAreRight, InitHeader PROVE BufsAreRight'
<1>1. bufs' = {} /\ i' = 1 /\ part' = 0 /\ pc' \in {"fail", "buffer"}
  BY DEF InitHeader, BufsAreRight, Keep, KeepButSegment
<1>2. \A x \in Buffers : x[1] \in 1 .. N /\ x[2] \in 0 .. 4
  BY DEF Buffers, Buffer, Parts
<1>3. Done' = {x \in Buffers : x[1] < 1 \/ (x[1] = 1 /\ x[2] < 0)}
  BY <1>1 DEF Done
<1>4. Done' = {}
  BY <1>2, <1>3
<1>5. i' \in 1 .. N /\ part' \in Parts /\ bufs' = Done'
  BY <1>1, <1>4, NAssumption DEF Parts
<1> QED BY <1>1, <1>5 DEF BufsAreRight

\* init_buffer initializes the next object of the next buffer, and ends with
\* the last object of the last one.
LEMMA InitBufferStep == ASSUME BufsAreRight, InitBuffer PROVE BufsAreRight'
<1> USE NAssumption DEF InitBuffer, Parts
<1>1. i \in 1 .. N /\ part \in 0 .. 4 /\ bufs = Done /\ bufs' = bufs \cup {<<i, part>>}
  BY DEF BufsAreRight
<1>2. <<i, part>> \in Buffers
  BY <1>1 DEF Buffers, Buffer
<1>3. \A x \in Buffers : x = <<x[1], x[2]>> /\ x[1] \in 1 .. N /\ x[2] \in 0 .. 4
  BY DEF Buffers, Buffer
<1>4. CASE part # 4
  <2>1. pc' = "buffer" /\ i' = i /\ part' = part + 1
    BY <1>1, <1>4
  <2>2. Done' = {x \in Buffers : x[1] < i \/ (x[1] = i /\ x[2] < part + 1)}
    BY <2>1 DEF Done
  <2>3. Done' = bufs'
    BY <1>1, <1>2, <1>3, <2>2 DEF Done
  <2> QED BY <1>1, <1>4, <2>1, <2>3 DEF BufsAreRight
<1>5. CASE part = 4 /\ i # N
  <2>1. pc' = "buffer" /\ i' = i + 1 /\ part' = 0
    BY <1>1, <1>5
  <2>2. Done' = {x \in Buffers : x[1] < i + 1 \/ (x[1] = i + 1 /\ x[2] < 0)}
    BY <2>1 DEF Done
  <2>3. Done' = bufs'
    BY <1>1, <1>2, <1>3, <1>5, <2>2 DEF Done
  <2> QED BY <1>1, <1>5, <2>1, <2>3 DEF BufsAreRight
<1>6. CASE part = 4 /\ i = N
  <2>1. pc' = "ready"
    BY <1>1, <1>6
  <2>2. bufs' = Buffers
    BY <1>1, <1>2, <1>3, <1>6 DEF Done
  <2> QED BY <2>1, <2>2 DEF BufsAreRight
<1> QED BY <1>1, <1>4, <1>5, <1>6

\* A failing init_buffer undoes what it has done for buffer i.
LEMMA UndoStep == ASSUME BufsAreRight, InitBufferFails PROVE BufsAreRight'
<1> USE DEF InitBufferFails
<1>1. i \in 1 .. N /\ part \in 0 .. 4 /\ bufs = Done /\ pc' = "cleanup" /\ i' = i
  BY DEF BufsAreRight, Parts
<1>2. bufs' = bufs \ {<<i, k>> : k \in 0 .. part - 1}
  BY DEF Undo
<1>3. ASSUME NEW k \in Parts PROVE <<i, k>> \notin bufs'
  <2>1. CASE k < part
    BY <1>1, <1>2, <2>1 DEF Parts
  <2>2. CASE ~(k < part)
    BY <1>1, <1>2, <2>2 DEF Done
  <2> QED BY <2>1, <2>2
<1>4. (bufs \cap Buffer(i))' = {}
  BY <1>1, <1>3 DEF Buffer
<1> QED BY <1>1, <1>4 DEF BufsAreRight

\* A step of the other process leaves everything of the creator alone.
LEMMA ConnectorStep ==
  ASSUME SetupInv, UNCHANGED <<pc, i, part, j, held, bufs, misused, terminating, segment>>, ConnectorIsRight'
  PROVE  SetupInv'
  BY DEF SetupInv, HeldIsRight, BufsAreRight, HeaderIsRight, Done, segment

\* Every call of the creator and of the process that connects keeps it.
LEMMA SetupStep == SetupInv /\ [Next]_vars => SetupInv'
<1> SUFFICES ASSUME SetupInv, [Next]_vars PROVE SetupInv'
  OBVIOUS
<1> USE DEF SetupInv, HeldIsRight, HeaderIsRight, ConnectorIsRight,
     Try, Fail, Keep, KeepButSegment, segment, connector, File, Header, All
<1>1. CASE UNCHANGED vars \/ Finished
  BY <1>1, ConnectorStep DEF vars, Finished
<1>2. CASE Mkstemp
  BY <1>2 DEF Mkstemp, BufsAreRight
<1>3. CASE Ftruncate
  BY <1>3 DEF Ftruncate, BufsAreRight
<1>4. CASE Malloc
  BY <1>4 DEF Malloc, BufsAreRight
<1>5. CASE Mmap
  BY <1>5 DEF Mmap, BufsAreRight
<1>6. CASE InitHeader
  BY <1>6, InitHeaderStep DEF InitHeader
<1>7. CASE InitBuffer
  BY <1>7, InitBufferStep DEF InitBuffer
<1>8. CASE InitBufferFails
  BY <1>8, UndoStep DEF InitBufferFails
<1>9. CASE Cleanup
  BY <1>9 DEF Cleanup, FreeBuffer, BufsAreRight
<1>10. CASE CleanupEnds
  BY <1>10 DEF CleanupEnds, BufsAreRight
<1>11. CASE ReleaseRest
  BY <1>11 DEF ReleaseRest, BufsAreRight
<1>12. CASE Shutdown
  BY <1>12 DEF Shutdown, BufsAreRight
<1>13. CASE Free
  BY <1>13 DEF Free, Freed, BufsAreRight
<1>14. CASE Open \/ ReadHeader \/ Map \/ Alloc \/ CheckTerminating \/ Disconnect
  BY <1>14, ConnectorStep DEF Open, ReadHeader, Map, Alloc, CheckTerminating, Disconnect, Go
<1> QED BY <1>1, <1>2, <1>3, <1>4, <1>5, <1>6, <1>7, <1>8, <1>9, <1>10, <1>11, <1>12, <1>13,
           <1>14 DEF Next

\* The inductive invariant holds in every reachable state.
LEMMA SetupInvHolds == Spec => []SetupInv
  BY SetupInit, SetupStep, PTL DEF Spec

\* No failure, at whichever call of whichever buffer, leaves a file, a
\* descriptor, a mapping or an object of the header or of the buffer that
\* failed behind; sd_free and a refused sd_connect leave nothing.
THEOREM NothingLeaks == Spec => []ResourcesAreReleased
<1>1. SetupInv => ResourcesAreReleased
  BY DEF SetupInv, HeldIsRight, BufsAreRight, ConnectorIsRight, ResourcesAreReleased, File, Header, All
<1> QED BY <1>1, SetupInvHolds, PTL
-----------------------------------------------------------------------------
IsMultiple(n, a) == \E q \in Nat : n = q * a

\* A power of two is a positive number.
LEMMA AlignmentsArePositive == Align \in Nat \ {0} /\ MaxAlign \in Nat \ {0}
  BY SizesAssumption

\* alignto rounds up to a multiple of the alignment.
LEMMA AlignToRoundsUp ==
  ASSUME NEW n \in Nat, NEW a \in Nat \ {0}
  PROVE  /\ AlignTo(n, a) \in Nat /\ AlignTo(n, a) >= n
         /\ IsMultiple(AlignTo(n, a), a)
<1> DEFINE m == n + a - 1
           q == m \div a
<1>1. m \in Nat
  OBVIOUS
<1>2. q \in Nat /\ m = a * q + (m % a) /\ m % a \in 0 .. a - 1
  BY <1>1
<1>3. AlignTo(n, a) = q * a
  BY DEF AlignTo
<1> HIDE DEF q
<1>4. q * a \in Nat /\ q * a = a * q
  BY <1>2
<1>5. q * a >= n
  BY <1>1, <1>2, <1>4
<1>6. IsMultiple(AlignTo(n, a), a)
  BY <1>2, <1>3 DEF IsMultiple
<1> QED BY <1>2, <1>3, <1>4, <1>5, <1>6

\* A multiple of the alignment is aligned, and so is the sum of two.
LEMMA MultiplesAreAligned ==
  ASSUME NEW a \in Nat \ {0}, NEW p \in Nat, NEW q \in Nat, NEW k \in Nat
  PROVE  (p * a) % a = 0 /\ (p * a + (q * a) * k) % a = 0
<1>1. (p * a) % a = 0
  OBVIOUS
<1>2. p * a + (q * a) * k = (p + q * k) * a /\ p + q * k \in Nat
  OBVIOUS
<1> DEFINE r == p + q * k
<1> HIDE DEF r
<1>3. ASSUME NEW x \in Nat PROVE (x * a) % a = 0
  OBVIOUS
<1> QED BY <1>1, <1>2, <1>3 DEF r

\* Buffers that follow each other are a stride apart.
LEMMA StrideApart ==
  ASSUME NEW S \in Nat, NEW b \in Nat, NEW c \in Nat, b < c
  PROVE  S * b \in Nat /\ S * c \in Nat /\ S * b + S <= S * c
  OBVIOUS

\* The numbers of one layout, for a buffer size `bs' and an extra space `es':
\* the first buffer and the stride, the end of the buffers, the extra space.
LEMMA LayoutNumbers ==
  ASSUME NEW bs \in Nat \ {0}, NEW es \in Nat
  PROVE  /\ FirstBuffer \in Nat /\ FirstBuffer >= HeaderSize
         /\ Stride(bs) \in Nat /\ Stride(bs) >= StructSize + bs
         /\ IsMultiple(FirstBuffer, Align)
         /\ IsMultiple(Stride(bs), Align)
         /\ MemSize(bs, es) - es \in Nat
         /\ MemSize(bs, es) - es >= FirstBuffer + Stride(bs) * N
         /\ es > 0 => (MemSize(bs, es) - es) % MaxAlign = 0
<1> USE NAssumption, AlignmentsArePositive
<1>0. HeaderSize \in Nat /\ StructSize + bs \in Nat
  BY SizesAssumption
<1>1. /\ FirstBuffer \in Nat /\ FirstBuffer >= HeaderSize
      /\ IsMultiple(FirstBuffer, Align)
  BY <1>0, AlignToRoundsUp DEF FirstBuffer
<1>2. /\ Stride(bs) \in Nat /\ Stride(bs) >= StructSize + bs
      /\ IsMultiple(Stride(bs), Align)
  BY <1>0, AlignToRoundsUp DEF Stride
<1> DEFINE n == FirstBuffer + Stride(bs) * N
<1>3. n \in Nat
  BY <1>1, <1>2
<1> HIDE DEF n
<1>4. MemSize(bs, es) = IF es = 0 THEN n ELSE AlignTo(n, MaxAlign) + es
  BY DEF MemSize, n
<1>5. AlignTo(n, MaxAlign) \in Nat /\ AlignTo(n, MaxAlign) >= n
  BY <1>3, AlignToRoundsUp
<1>6. AlignTo(n, MaxAlign) % MaxAlign = 0
  <2>1. PICK q \in Nat : AlignTo(n, MaxAlign) = q * MaxAlign
    BY <1>3, AlignToRoundsUp DEF IsMultiple
  <2> QED BY <2>1, MultiplesAreAligned
<1>7. /\ MemSize(bs, es) - es \in Nat /\ MemSize(bs, es) - es >= n
      /\ es > 0 => MemSize(bs, es) - es = AlignTo(n, MaxAlign)
  BY <1>3, <1>4, <1>5
<1> QED BY <1>1, <1>2, <1>6, <1>7 DEF n

\* The addresses of `len' bytes from n on, of buffer b and of the extra space
Bytes(n, len) == n .. n + len - 1
PlaceOf(bs, b) == Bytes(FirstBuffer + Stride(bs) * (b - 1), StructSize + bs)
ExtraOf(bs, es) == Bytes(MemSize(bs, es) - es, es)
HeaderBytes == Bytes(0, HeaderSize)
AllPlaces(bs) == {PlaceOf(bs, b) : b \in 1 .. N}

\* Where a buffer begins and ends: behind the header, before the end of the
\* buffers, at least a stride before the next buffer.
LEMMA BufferBounds ==
  ASSUME NEW bs \in Nat \ {0}, NEW b \in 1 .. N
  PROVE  LET start == FirstBuffer + Stride(bs) * (b - 1)
         IN /\ start \in Nat /\ start >= HeaderSize
            /\ start + Stride(bs) <= FirstBuffer + Stride(bs) * N
            /\ \A c \in 1 .. N : b < c => start + Stride(bs) <= FirstBuffer + Stride(bs) * (c - 1)
            /\ start % Align = 0
<1> DEFINE S == Stride(bs)
           F == FirstBuffer
           start == F + S * (b - 1)
<1>1. F \in Nat /\ F >= HeaderSize /\ S \in Nat /\ IsMultiple(F, Align) /\ IsMultiple(S, Align)
  BY LayoutNumbers, NAssumption
<1> HIDE DEF S, F
<1>2. b - 1 \in Nat /\ N \in Nat /\ HeaderSize \in Nat
  BY NAssumption, SizesAssumption
<1>3. S * (b - 1) \in Nat /\ S * (b - 1) + S <= S * N
  BY <1>1, <1>2, StrideApart
<1>4. ASSUME NEW c \in 1 .. N, b < c PROVE S * (b - 1) + S <= S * (c - 1)
  <2>1. c - 1 \in Nat /\ b - 1 < c - 1
    BY <1>2, <1>4
  <2> QED BY <1>1, <1>2, <2>1, StrideApart
<1>5. start % Align = 0
  <2>1. PICK p \in Nat, q \in Nat : F = p * Align /\ S = q * Align
    BY <1>1 DEF IsMultiple
  <2> QED BY <1>2, <2>1, MultiplesAreAligned, AlignmentsArePositive
<1>6. S * N \in Nat /\ \A c \in 1 .. N : S * (c - 1) \in Nat
  BY <1>1, <1>2
<1>7. start \in Nat /\ start >= HeaderSize /\ start + S <= F + S * N
  BY <1>1, <1>2, <1>3, <1>6
<1>8. \A c \in 1 .. N : b < c => start + S <= F + S * (c - 1)
  BY <1>1, <1>2, <1>3, <1>4, <1>6
<1> QED BY <1>5, <1>7, <1>8 DEF S, F

\* Two buffers, or a buffer and the header, have no byte in common, and each
\* of them has a byte.
LEMMA BuffersAreApart ==
  ASSUME NEW bs \in Nat \ {0}, NEW b \in 1 .. N
  PROVE  /\ \A c \in 1 .. N : b # c => PlaceOf(bs, b) \cap PlaceOf(bs, c) = {}
         /\ PlaceOf(bs, b) \cap HeaderBytes = {}
         /\ PlaceOf(bs, b) # {} /\ HeaderBytes # {}
<1> DEFINE At(c) == FirstBuffer + Stride(bs) * (c - 1)
           len == StructSize + bs
<1>1. \A c \in 1 .. N : /\ At(c) \in Nat /\ At(c) >= HeaderSize
                        /\ \A d \in 1 .. N : c < d => At(c) + Stride(bs) <= At(d)
  BY BufferBounds
<1>2. Stride(bs) \in Nat /\ Stride(bs) >= len
  BY LayoutNumbers, NAssumption
<1>3. HeaderSize \in Nat \ {0} /\ len \in Nat \ {0}
  BY SizesAssumption
<1>4. \A c \in 1 .. N : PlaceOf(bs, c) = At(c) .. At(c) + len - 1
  BY DEF PlaceOf, Bytes
<1>5. HeaderBytes = 0 .. HeaderSize - 1
  BY <1>3 DEF HeaderBytes, Bytes
<1> HIDE DEF At, len
<1>6. ASSUME NEW c \in 1 .. N, NEW d \in 1 .. N, c < d PROVE PlaceOf(bs, c) \cap PlaceOf(bs, d) = {}
  <2>1. At(c) + len <= At(d) /\ At(c) \in Nat /\ At(d) \in Nat
    BY <1>1, <1>2, <1>3, <1>6
  <2> QED BY <1>3, <1>4, <2>1
<1>7. ASSUME NEW c \in 1 .. N, b # c PROVE PlaceOf(bs, b) \cap PlaceOf(bs, c) = {}
  <2>1. b < c \/ c < b
    BY <1>7, NAssumption
  <2>2. CASE b < c
    BY <2>2, <1>6
  <2>3. CASE c < b
    BY <2>3, <1>6
  <2> QED BY <2>1, <2>2, <2>3
<1>8. PlaceOf(bs, b) \cap HeaderBytes = {}
  BY <1>1, <1>3, <1>4, <1>5
<1>9. At(b) \in PlaceOf(bs, b) /\ 0 \in HeaderBytes
  BY <1>1, <1>3, <1>4, <1>5
<1> QED BY <1>7, <1>8, <1>9

\* There are as many places as buffers.
LEMMA PlacesAreDistinct ==
  ASSUME NEW bs \in Nat \ {0}
  PROVE  IsFiniteSet(AllPlaces(bs)) /\ Cardinality(AllPlaces(bs)) = N
<1> DEFINE f == [b \in 1 .. N |-> PlaceOf(bs, b)]
<1>1. \A b, c \in 1 .. N : f[b] = f[c] => b = c
  BY BuffersAreApart
<1>2. f \in Bijection(1 .. N, AllPlaces(bs))
  BY <1>1 DEF AllPlaces, Bijection, Injection, Surjection, IsInjective
<1>3. ExistsBijection(1 .. N, AllPlaces(bs)) /\ N \in Nat
  BY <1>2, NAssumption DEF ExistsBijection
<1>4. Cardinality(AllPlaces(bs)) = N
  BY <1>3, FS_CountingElements
<1>5. IsFiniteSet(AllPlaces(bs))
  BY <1>3, FS_NatBijection
<1> QED BY <1>4, <1>5

\* The extra space lies behind everything else and ends with the segment.
LEMMA ExtraIsBehind ==
  ASSUME NEW bs \in Nat \ {0}, NEW es \in Nat
  PROVE  /\ \A b \in 1 .. N : PlaceOf(bs, b) \cap ExtraOf(bs, es) = {}
         /\ HeaderBytes \cap ExtraOf(bs, es) = {}
         /\ \A b \in 1 .. N : PlaceOf(bs, b) \subseteq Bytes(0, MemSize(bs, es))
         /\ HeaderBytes \cup ExtraOf(bs, es) \subseteq Bytes(0, MemSize(bs, es))
<1> DEFINE off == MemSize(bs, es) - es
           limit == FirstBuffer + Stride(bs) * N
           len == StructSize + bs
           At(c) == FirstBuffer + Stride(bs) * (c - 1)
<1>1. /\ FirstBuffer \in Nat /\ FirstBuffer >= HeaderSize /\ Stride(bs) \in Nat /\ Stride(bs) >= len
      /\ off \in Nat /\ off >= limit /\ N \in Nat
  BY LayoutNumbers, NAssumption
<1>2. HeaderSize \in Nat \ {0} /\ len \in Nat \ {0}
  BY SizesAssumption
<1>3. Stride(bs) * N \in Nat
  BY <1>1
<1>4. limit \in Nat /\ limit >= HeaderSize
  BY <1>1, <1>2, <1>3
<1>5. \A c \in 1 .. N : At(c) \in Nat /\ At(c) + Stride(bs) <= limit
  BY BufferBounds
<1>6. \A c \in 1 .. N : PlaceOf(bs, c) = At(c) .. At(c) + len - 1
  BY DEF PlaceOf, Bytes
<1>7. HeaderBytes = 0 .. HeaderSize - 1 /\ ExtraOf(bs, es) = off .. off + es - 1
  BY <1>2 DEF HeaderBytes, ExtraOf, Bytes
<1>8. Bytes(0, MemSize(bs, es)) = 0 .. off + es - 1
  <2>1. AlignTo(limit, MaxAlign) \in Nat
    BY <1>4, AlignToRoundsUp, AlignmentsArePositive
  <2>2. MemSize(bs, es) = IF es = 0 THEN limit ELSE AlignTo(limit, MaxAlign) + es
    BY DEF MemSize
  <2>3. MemSize(bs, es) \in Nat
    <3> HIDE DEF limit
    <3> QED BY <1>4, <2>1, <2>2
  <2> QED BY <2>3 DEF Bytes
<1> HIDE DEF off, limit, len, At
<1>9. ASSUME NEW b \in 1 .. N
      PROVE  PlaceOf(bs, b) \cap ExtraOf(bs, es) = {} /\ PlaceOf(bs, b) \subseteq Bytes(0, MemSize(bs, es))
  <2>1. At(b) \in Nat /\ At(b) + len <= off
    BY <1>1, <1>2, <1>4, <1>5
  <2>2. PlaceOf(bs, b) = At(b) .. At(b) + len - 1 /\ off \in Nat /\ len \in Nat
    BY <1>1, <1>2, <1>6
  <2>3. PlaceOf(bs, b) \cap ExtraOf(bs, es) = {}
    BY ONLY <1>7, <2>1, <2>2, es \in Nat
  <2>4. PlaceOf(bs, b) \subseteq Bytes(0, MemSize(bs, es))
    BY ONLY <1>8, <2>1, <2>2, es \in Nat
  <2> QED BY <2>3, <2>4
<1>10. HeaderBytes \cap ExtraOf(bs, es) = {} /\ HeaderBytes \cup ExtraOf(bs, es) \subseteq Bytes(0, MemSize(bs, es))
  BY <1>1, <1>2, <1>4, <1>7, <1>8
<1> QED BY <1>9, <1>10

\* The whole layout: disjoint, and N + 2 of them, one of which, the extra
\* space, may be empty.
LEMMA PlacesAreSound ==
  ASSUME NEW bs \in Nat \ {0}, NEW es \in Nat
  PROVE  LET places == AllPlaces(bs) \cup {HeaderBytes, ExtraOf(bs, es)}
         IN /\ \A p, q \in places : p = q \/ p \cap q = {}
            /\ Cardinality(places) = N + 2
            /\ UNION places \subseteq Bytes(0, MemSize(bs, es))
<1> DEFINE places == AllPlaces(bs) \cup {HeaderBytes, ExtraOf(bs, es)}
<1>1. \A p \in AllPlaces(bs) : /\ p # {} /\ p \cap HeaderBytes = {} /\ p \cap ExtraOf(bs, es) = {}
                               /\ p \subseteq Bytes(0, MemSize(bs, es))
                               /\ \A q \in AllPlaces(bs) : p = q \/ p \cap q = {}
  BY BuffersAreApart, ExtraIsBehind DEF AllPlaces
<1>2. HeaderBytes # {}
  BY BuffersAreApart, NAssumption
<1>3. \A p, q \in places : p = q \/ p \cap q = {}
  BY <1>1, ExtraIsBehind
<1>4. UNION places \subseteq Bytes(0, MemSize(bs, es))
  BY <1>1, ExtraIsBehind
<1>5. HeaderBytes \notin AllPlaces(bs)
  BY <1>1, <1>2
<1>6. ExtraOf(bs, es) \notin AllPlaces(bs) \cup {HeaderBytes}
  BY <1>1, <1>2, ExtraIsBehind
<1>7. /\ IsFiniteSet(AllPlaces(bs) \cup {HeaderBytes})
      /\ Cardinality(AllPlaces(bs) \cup {HeaderBytes}) = N + 1
  BY <1>5, PlacesAreDistinct, FS_AddElement
<1>8. Cardinality((AllPlaces(bs) \cup {HeaderBytes}) \cup {ExtraOf(bs, es)}) = N + 1 + 1
  BY <1>6, <1>7, FS_AddElement
<1>9. places = (AllPlaces(bs) \cup {HeaderBytes}) \cup {ExtraOf(bs, es)}
  OBVIOUS
<1>10. Cardinality(places) = N + 2
  BY <1>8, <1>9, NAssumption
<1> QED BY <1>3, <1>4, <1>10

\* Header, buffers and extra space lie side by side, aligned and inside of the
\* segment, and a process that connects finds them where the creator has put
\* them, for every number of processes, all sizes and all alignments.
THEOREM LayoutHolds == Spec => []LayoutIsSound
<1>1. ASSUME SetupInv PROVE LayoutIsSound
  <2> SUFFICES ASSUME pc = "ready" PROVE LayoutIsSound
    BY DEF LayoutIsSound
  <2> DEFINE bs == size.bufsize
             es == size.extra_space_size
  <2>1. bs \in Nat \ {0} /\ es \in Nat
    <3>1. bs \in BufSizes /\ es \in ExtraSizes
      BY <1>1 DEF SetupInv, HeaderIsRight
    <3>2. BufSizes \subseteq Nat \ {0} /\ ExtraSizes \subseteq Nat
      BY SizesAssumption
    <3> QED BY <3>1, <3>2
  <2>2. /\ header.bufsize = bs /\ header.extra_space_size = es
        /\ header.extra_space_offset = MemSize(bs, es) - es
    BY <1>1 DEF SetupInv, HeaderIsRight
  <2>3. \A b \in 1 .. N : GetBuffer(header, b) = FirstBuffer + Stride(bs) * (b - 1)
    BY <2>2 DEF GetBuffer
  <2> HIDE DEF bs, es
  <2> DEFINE From(n, len) == n .. n + len - 1
             Place(b) == From(GetBuffer(header, b), StructSize + bs)
             extra == From(header.extra_space_offset, es)
             places == {Place(b) : b \in 1 .. N} \cup {From(0, HeaderSize), extra}
  <2>4. places = AllPlaces(bs) \cup {HeaderBytes, ExtraOf(bs, es)}
    <3>1. \A b \in 1 .. N : Place(b) = PlaceOf(bs, b)
      BY <2>3 DEF PlaceOf, Bytes
    <3>2. {Place(b) : b \in 1 .. N} = AllPlaces(bs)
      BY <3>1 DEF AllPlaces
    <3>3. From(0, HeaderSize) = HeaderBytes /\ extra = ExtraOf(bs, es)
      BY <2>2 DEF HeaderBytes, ExtraOf, Bytes
    <3> QED BY <3>2, <3>3
  <2>5. /\ \A p, q \in places : p = q \/ p \cap q = {}
        /\ Cardinality(places) = N + 2
        /\ UNION places \subseteq From(0, MemSize(bs, es))
    BY <2>1, <2>4, PlacesAreSound DEF Bytes
  <2>6. \A b \in 1 .. N : GetBuffer(header, b) % Align = 0
    BY <2>1, <2>3, BufferBounds
  <2>7. es > 0 => header.extra_space_offset % MaxAlign = 0
    BY <2>1, <2>2, LayoutNumbers
  <2>8. MemSize(header.bufsize, header.extra_space_size) = MemSize(bs, es)
    BY <2>2
  <2> QED BY <2>5, <2>6, <2>7, <2>8 DEF LayoutIsSound, bs, es
<1> QED BY <1>1, SetupInvHolds, PTL
=============================================================================
