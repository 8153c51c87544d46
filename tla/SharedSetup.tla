----------------------------- MODULE SharedSetup -----------------------------
(***************************************************************************)
(* What sd_setup_with_extra_space, sd_connect and sd_free of               *)
(* shared_domain.c acquire and release, when every call may fail.  The     *)
(* creator sets the domain up; afterwards another process may connect; the *)
(* creator may shut down, and both free what they have.                    *)
(***************************************************************************)
EXTENDS Naturals, FiniteSets

CONSTANTS
    N,                      \* nofprocesses
    BufSizes, ExtraSizes,   \* the values of bufsize and extra_space_size
    HeaderSize, StructSize, \* sizeof of the structs shared_mem_header and shared_mem_buffer
    Align, MaxAlign         \* alignof(struct shared_mem_buffer) and of max_align_t

ASSUME NAssumption == N \in Nat \ {0}
ASSUME SizesAssumption ==
    /\ BufSizes \subseteq Nat \ {0} /\ ExtraSizes \subseteq Nat
    /\ HeaderSize \in Nat \ {0} /\ StructSize \in Nat \ {0}
    /\ {Align, MaxAlign} \subseteq {1, 2, 4, 8, 16, 32, 64, 128, 256, 512, 1024}  \* powers of two

\* The mutex of a buffer and its four condition variables, in the order of
\* their creation; buffer i is number i of 1 .. N.
Parts == 0 .. 4
Buffer(i) == {<<i, k>> : k \in Parts}
Buffers == UNION {Buffer(i) : i \in 1 .. N}
Header == {"header mutex", "header cv"}
File == {"path", "file", "fd"}

VARIABLES
    pc,           \* where the creator is
    i, part,      \* the buffer and the object of it that come next
    j,            \* the loop variable of the cleanup
    held,         \* what the creator has acquired and not released
    bufs,         \* the same of the objects in the buffers
    misused,      \* the objects released without being held
    terminating,  \* sd_shutdown was called
    size,         \* the parameters bufsize and extra_space_size
    header,       \* the header in the segment
    cpc, cheld    \* the same of the process that connects

segment == <<size, header>>
vars == <<pc, i, part, j, held, bufs, misused, terminating, segment, cpc, cheld>>
connector == <<cpc, cheld>>

Init ==
    /\ pc = "mkstemp" /\ i = 1 /\ part = 0 /\ j = 1
    /\ held = {"path"} /\ bufs = {} /\ misused = {} /\ terminating = FALSE
    /\ size \in [bufsize : BufSizes, extra_space_size : ExtraSizes] /\ header = [nofprocesses |-> 0]
    /\ cpc = "none" /\ cheld = {}

KeepButSegment == UNCHANGED <<i, part, j, bufs, misused, terminating, connector>>
Keep == KeepButSegment /\ UNCHANGED segment
\* One call of the setup: it acquires `got' and goes on, or fails.
Try(l, got, next) == pc = l /\ held' = held \cup got /\ pc' = next /\ Keep
Fail(l, lost) == pc = l /\ held' = held \ lost /\ pc' = "failed" /\ Keep
-----------------------------------------------------------------------------
(* The layout of the segment: the header, N buffers, the extra space.      *)

\* alignto; (size + a - 1) & ~(a - 1) rounds up as a is a power of two
AlignTo(n, a) == ((n + a - 1) \div a) * a

\* compute_shared_mem_buffer_stride
Stride(bufsize) == AlignTo(StructSize + bufsize, Align)

\* The address of the first buffer, relative to the segment
FirstBuffer == AlignTo(HeaderSize, Align)

\* Wrong on purpose: the extra space follows the last buffer without a gap.
MemSizeUnaligned(bufsize, extra) == FirstBuffer + Stride(bufsize) * N + extra

\* compute_shared_mem_size
MemSize(bufsize, extra) ==
    LET n == FirstBuffer + Stride(bufsize) * N
    IN IF extra = 0 THEN n ELSE AlignTo(n, MaxAlign) + extra

\* get_buffer for buffer b of a domain with this header
GetBuffer(h, b) == FirstBuffer + Stride(h.bufsize) * (b - 1)
-----------------------------------------------------------------------------
(* sd_setup_with_extra_space                                               *)

Mkstemp == Try("mkstemp", File, "ftruncate") \/ Fail("mkstemp", {"path"})
Ftruncate == Try("ftruncate", {}, "malloc") \/ Fail("ftruncate", File)
Malloc == Try("malloc", {"sd"}, "mmap") \/ Fail("malloc", File)

\* The file descriptor is closed in any case; sd is not freed on failure.
Mmap ==
    \/ /\ pc = "mmap" /\ held' = (held \ {"fd"}) \cup {"map"}
       /\ pc' = "header" /\ Keep
    \/ Fail("mmap", File)

\* init_header
InitHeader ==
    \/ /\ pc = "header" /\ pc' = "buffer" /\ held' = held \cup Header
       /\ header' = [nofprocesses |-> N, bufsize |-> size.bufsize, extra_space_size |-> size.extra_space_size,
                     extra_space_offset |-> MemSize(size.bufsize, size.extra_space_size) - size.extra_space_size]
       /\ KeepButSegment /\ UNCHANGED size
    \/ pc = "header" /\ pc' = "fail" /\ UNCHANGED held /\ Keep

\* init_buffer: the next object of the buffer
InitBuffer ==
    /\ pc = "buffer"
    /\ bufs' = bufs \cup {<<i, part>>}
    /\ part' = (part + 1) % 5
    /\ i' = IF part = 4 THEN i + 1 ELSE i
    /\ pc' = IF part = 4 /\ i = N THEN "ready" ELSE "buffer"
    /\ UNCHANGED <<j, held, misused, terminating, segment, connector>>

\* init_buffer undoes everything done so far for this buffer.
Undo == bufs \ {<<i, k>> : k \in 0 .. part - 1}

\* init_buffer fails
InitBufferFails ==
    /\ pc = "buffer"
    /\ bufs' = Undo
    /\ pc' = "cleanup"
    /\ UNCHANGED <<i, part, j, held, misused, terminating, segment, connector>>

\* free_buffer for buffer b
FreeBuffer(b) ==
    /\ misused' = misused \cup (Buffer(b) \ bufs)
    /\ bufs' = bufs \ Buffer(b)

\* The loop over j < i, whose body addresses buffer i.
Cleanup ==
    /\ pc = "cleanup" /\ j < i
    /\ FreeBuffer(i)
    /\ j' = j + 1
    /\ UNCHANGED <<pc, i, part, held, terminating, segment, connector>>

\* free_header
CleanupEnds ==
    /\ pc = "cleanup" /\ j >= i
    /\ held' = held \ Header /\ pc' = "fail" /\ Keep

\* The label fail
ReleaseRest == Fail("fail", {"sd", "file", "path", "map"})

\* sd_shutdown, as far as sd_connect can see it
Shutdown ==
    /\ pc = "ready" /\ ~terminating /\ terminating' = TRUE
    /\ UNCHANGED <<pc, i, part, j, held, bufs, misused, segment, connector>>

\* Wrong on purpose: the last buffer is forgotten.
AllButLast == UNION {Buffer(b) : b \in 1 .. N - 1}

\* The buffers sd_free frees.
Freed == Buffers

\* sd_free of the creator
Free ==
    /\ pc = "ready"
    /\ held' = held \ (Header \cup {"sd", "file", "path", "map"})
    /\ bufs' = bufs \ Freed
    /\ pc' = "freed"
    /\ UNCHANGED <<i, part, j, misused, terminating, segment, connector>>
-----------------------------------------------------------------------------
(* sd_connect and sd_free of another process                               *)

Go(l, now, next) == cpc = l /\ cheld' = now /\ cpc' = next
                    /\ UNCHANGED <<pc, i, part, j, held, bufs, misused, terminating, segment>>

\* open; it fails once the creator has unlinked the file
Open ==
    \/ pc = "ready" /\ Go("none", {"cfd"}, "read")
    \/ pc # "mkstemp" /\ Go("none", {}, "refused")
ReadHeader == Go("read", cheld, "map") \/ Go("read", {}, "refused")
Map == Go("map", {"cmap"}, "alloc") \/ Go("map", {}, "refused")

Alloc == Go("alloc", {"cmap", "csd"}, "check") \/ Go("alloc", {}, "refused")

\* if (sd_terminating(sd)) { free(sd); goto fail; }
CheckTerminating ==
    IF terminating THEN Go("check", {}, "refused") ELSE Go("check", cheld, "connected")
Disconnect == Go("connected", {}, "refused")

Finished == pc \in {"failed", "freed"} /\ cpc = "refused" /\ UNCHANGED vars

Next ==
    \/ Mkstemp \/ Ftruncate \/ Malloc \/ Mmap \/ InitHeader \/ InitBuffer \/ InitBufferFails
    \/ Cleanup \/ CleanupEnds \/ ReleaseRest \/ Shutdown \/ Free
    \/ Open \/ ReadHeader \/ Map \/ Alloc \/ CheckTerminating \/ Disconnect
    \/ Finished

Spec == Init /\ [][Next]_vars
-----------------------------------------------------------------------------
\* Whatever call fails, no file, descriptor, mapping or header object stays
\* behind, and a failed init_buffer leaves no object of its own buffer, at
\* whichever of them it failed.  Whoever is ready has all objects of all
\* buffers, sd_free releases them all, and a process that sd_connect refuses, or
\* that has left, keeps nothing.
ResourcesAreReleased ==
    /\ pc = "failed" => held \cap (File \cup {"map"} \cup Header) = {}
    /\ pc = "cleanup" => bufs \cap Buffer(i) = {}
    /\ pc = "ready" => held = Header \cup {"path", "file", "sd", "map"} /\ bufs = Buffers
    /\ pc = "freed" => held = {} /\ bufs = {}
    /\ cpc = "refused" => cheld = {}

\* The header, the buffers with their rings and the extra space do not overlap
\* and are all inside the segment that ftruncate and mmap were asked for, the
\* structs and the extra space are aligned, and a process that connects looks
\* for them with the header's sizes where the creator has put them.
LayoutIsSound == pc = "ready" =>
    LET From(n, len) == n .. n + len - 1
        Place(b) == From(GetBuffer(header, b), StructSize + size.bufsize)
        extra == From(header.extra_space_offset, size.extra_space_size)
        places == {Place(b) : b \in 1 .. N} \cup {From(0, HeaderSize), extra}
    IN /\ \A p, q \in places : p = q \/ p \cap q = {}
       /\ Cardinality(places) = N + 2
       /\ UNION places \subseteq From(0, MemSize(size.bufsize, size.extra_space_size))
       /\ \A b \in 1 .. N : GetBuffer(header, b) % Align = 0
       /\ size.extra_space_size > 0 => header.extra_space_offset % MaxAlign = 0
       /\ MemSize(header.bufsize, header.extra_space_size) = MemSize(size.bufsize, size.extra_space_size)

\* "if successful this has to be undone by free_buffer": a failed setup has
\* released all buffers that were initialized, and no others.  It does not hold:
\* the cleanup loop over j frees buffer i.  No run checks it.
BuffersAreUndone == pc = "failed" => bufs = {} /\ misused = {}
=============================================================================
