-------------------------- MODULE SharedBufferProofs --------------------------
(***************************************************************************)
(* The byte stream of sd_write and sd_read for every number of threads,    *)
(* every size of the ring, every sequence of calls and every combination   *)
(* of deaths, spurious wakeups and a shutdown.                             *)
(***************************************************************************)
EXTENDS SharedBuffer, SequenceTheorems, TLAPS

\* The explicit function that a chunk is: a sequence of its length.
LEMMA FunctionIsSeq ==
  ASSUME NEW S, NEW n \in Nat, NEW f \in [1 .. n -> S]
  PROVE  f \in Seq(S) /\ Len(f) = n
<1>1. f \in Seq(S)
  BY SeqDef
<1>2. DOMAIN f = 1 .. n /\ DOMAIN f = 1 .. Len(f) /\ Len(f) \in Nat
  BY <1>1, LenProperties
<1> QED BY <1>1, <1>2

\* An index that reaches the end of the ring, and never exceeds it, wraps to 0.
LEMMA AdvanceIs ==
  ASSUME NEW i \in 0 .. BufSize - 1, NEW c \in Nat, i + c <= BufSize
  PROVE  Advance(i, c) = IF i + c = BufSize THEN 0 ELSE i + c
<1>1. CASE i + c = BufSize
  BY <1>1, BufSizeAssumption DEF Advance
<1>2. CASE i + c < BufSize
  BY <1>2, BufSizeAssumption DEF Advance
<1> QED BY <1>1, <1>2, BufSizeAssumption

\* Positions in the ring: where a chunk of c bytes goes behind f bytes that
\* begin at r, ...
LEMMA WriteWraps ==
  ASSUME NEW r \in 0 .. BufSize - 1, NEW f \in 0 .. BufSize, NEW c \in Nat,
         NEW w, w = Wrap(r + f), f + c <= BufSize, w + c <= BufSize
  PROVE  /\ Advance(w, c) = Wrap(r + (f + c))
         /\ \A i \in 0 .. f + c - 1 : Wrap(r + i) \in 0 .. BufSize - 1
         /\ \A i \in 0 .. f - 1 : Wrap(r + i) \notin w .. w + c - 1
         /\ \A i \in f .. f + c - 1 : Wrap(r + i) = w + (i - f)
<1> USE BufSizeAssumption
<1>1. w \in 0 .. BufSize - 1
  BY DEF Wrap
<1>2. Advance(w, c) = IF w + c = BufSize THEN 0 ELSE w + c
  BY <1>1, AdvanceIs
<1>3. Advance(w, c) = Wrap(r + (f + c))
  BY <1>2 DEF Wrap
<1>4. \A i \in 0 .. f + c - 1 : Wrap(r + i) \in 0 .. BufSize - 1
  BY DEF Wrap
<1>5. \A i \in 0 .. f - 1 : Wrap(r + i) \notin w .. w + c - 1
  BY DEF Wrap
<1>6. \A i \in f .. f + c - 1 : Wrap(r + i) = w + (i - f)
  BY DEF Wrap
<1> QED BY <1>3, <1>4, <1>5, <1>6

\* ... and where the rest of the f bytes is after the first c were taken.
LEMMA ReadWraps ==
  ASSUME NEW r \in 0 .. BufSize - 1, NEW f \in 0 .. BufSize, NEW c \in Nat,
         c <= f, r + c <= BufSize
  PROVE  /\ \A i \in 0 .. f - c : Wrap(Advance(r, c) + i) = Wrap(r + (c + i))
         /\ \A j \in 1 .. c : /\ r + j - 1 \in 0 .. BufSize - 1
                             /\ Wrap(r + (j - 1)) = r + j - 1
<1> USE BufSizeAssumption
<1>1. Advance(r, c) = IF r + c = BufSize THEN 0 ELSE r + c
  BY AdvanceIs
<1>2. \A i \in 0 .. f - c : Wrap(Advance(r, c) + i) = Wrap(r + (c + i))
  BY <1>1 DEF Wrap
<1>3. \A j \in 1 .. c : r + j - 1 \in 0 .. BufSize - 1 /\ Wrap(r + (j - 1)) = r + j - 1
  BY DEF Wrap
<1> QED BY <1>2, <1>3

\* A chunk is never empty, fits into the room and ends before the ring does.
LEMMA CountIsRight ==
  ASSUME TypeOK, NEW t \in Threads, done[t] < nbytes[t], Room(side[t]) # 0
  PROVE  /\ Count(t) \in Nat \ {0}
         /\ Count(t) <= nbytes[t] - done[t]
         /\ Count(t) <= Room(side[t])
         /\ index[side[t]] + Count(t) <= BufSize
<1>1. /\ index[side[t]] \in 0 .. BufSize - 1 /\ filled \in 0 .. BufSize
      /\ nbytes[t] \in Nat /\ done[t] \in Nat /\ side[t] \in Sides
  BY DEF TypeOK
<1>2. Room(side[t]) \in 0 .. BufSize
  BY <1>1, BufSizeAssumption DEF Room, Sides
<1> QED BY <1>1, <1>2, BufSizeAssumption DEF Count, Least

\* The bytes of a chunk are bytes of the call, in order.
LEMMA ChunkType ==
  ASSUME TypeOK, NEW t \in Threads, NEW c \in Nat
  PROVE  /\ Chunk(t, c) \in Seq(Bytes) /\ Len(Chunk(t, c)) = c
         /\ \A k \in 1 .. c : /\ Chunk(t, c)[k] \in Bytes
                              /\ Chunk(t, c)[k] = [thread |-> t, off |-> done[t] + k, of |-> nbytes[t]]
<1>1. nbytes[t] \in Nat /\ done[t] \in Nat
  BY DEF TypeOK
<1>2. \A k \in 1 .. c : [thread |-> t, off |-> done[t] + k, of |-> nbytes[t]] \in Bytes
  BY <1>1 DEF Bytes
<1>3. Chunk(t, c) \in [1 .. c -> Bytes]
  BY <1>2 DEF Chunk
<1>4. Chunk(t, c) \in Seq(Bytes) /\ Len(Chunk(t, c)) = c
  BY <1>3, FunctionIsSeq
<1> QED BY <1>2, <1>4 DEF Chunk
-----------------------------------------------------------------------------
(* Type correctness                                                        *)

\* A chunk moves bytes between ring and history and keeps their types.
LEMMA CopyType ==
  ASSUME TypeOK, NEW t \in Threads, Copy(t)
  PROVE  TypeOK'
<1> DEFINE s == side[t]
           c == Count(t)
<1>1. /\ s \in Sides /\ done[t] \in Nat /\ nbytes[t] \in Nat
      /\ filled \in 0 .. BufSize /\ index[s] \in 0 .. BufSize - 1
  BY DEF TypeOK
<1>2. /\ c \in Nat \ {0} /\ c <= nbytes[t] - done[t]
      /\ c <= Room(s) /\ index[s] + c <= BufSize
  BY CountIsRight DEF Copy
<1>3. Move(t, c)
  BY DEF Copy
<1> HIDE DEF c
<1>4. /\ Chunk(t, c) \in Seq(Bytes)
      /\ \A k \in 1 .. c : Chunk(t, c)[k] \in Bytes
  BY <1>2, ChunkType
<1>5. index' \in [Sides -> 0 .. BufSize - 1]
  <2>1. Advance(index[s], c) \in 0 .. BufSize - 1
    BY <1>1, <1>2, AdvanceIs, BufSizeAssumption
  <2>2. index' = [index EXCEPT ![s] = Advance(index[s], c)]
    BY <1>3 DEF Move
  <2> QED BY <1>1, <2>1, <2>2 DEF TypeOK
<1>6. filled' \in 0 .. BufSize
  BY <1>1, <1>2, <1>3, BufSizeAssumption DEF Move, Room, Sides
<1>7. mem' \in [0 .. BufSize - 1 -> Bytes \cup {NoByte}]
  <2>1. CASE s = "read"
    BY <1>3, <2>1 DEF Move, TypeOK
  <2>2. CASE s = "write"
    <3>1. mem' = [i \in 0 .. BufSize - 1 |-> IF i \in index[s] .. index[s] + c - 1
                    THEN Chunk(t, c)[i - index[s] + 1] ELSE mem[i]]
      BY <1>3, <2>2 DEF Move
    <3>2. ASSUME NEW i \in 0 .. BufSize - 1, i \in index[s] .. index[s] + c - 1
          PROVE  Chunk(t, c)[i - index[s] + 1] \in Bytes
      <4>1. i - index[s] + 1 \in 1 .. c
        BY <1>1, <1>2, <3>2
      <4> QED BY <1>4, <4>1
    <3>3. \A i \in 0 .. BufSize - 1 : mem[i] \in Bytes \cup {NoByte}
      BY DEF TypeOK
    <3> QED BY <3>1, <3>2, <3>3
  <2> QED BY <1>1, <2>1, <2>2 DEF Sides
<1>8. xfer' \in [Sides -> Seq(Bytes)]
  <2>1. xfer' = [xfer EXCEPT ![s] = xfer[s] \o Chunk(t, c)]
    BY <1>3 DEF Move
  <2>2. xfer[s] \in Seq(Bytes)
    BY <1>1 DEF TypeOK
  <2>3. xfer[s] \o Chunk(t, c) \in Seq(Bytes)
    BY <1>4, <2>2, ConcatProperties
  <2> QED BY <2>1, <2>3 DEF TypeOK
<1>9. got' \in Seq(Bytes \cup {NoByte})
  <2>1. CASE s = "write"
    BY <1>3, <2>1 DEF Move, TypeOK
  <2>2. CASE s = "read"
    <3> DEFINE out == [k \in 1 .. c |-> mem[index[s] + k - 1]]
    <3>1. \A k \in 1 .. c : index[s] + k - 1 \in 0 .. BufSize - 1
      BY <1>1, <1>2, BufSizeAssumption
    <3>2. out \in [1 .. c -> Bytes \cup {NoByte}]
      BY <3>1 DEF TypeOK
    <3>3. out \in Seq(Bytes \cup {NoByte})
      BY <1>2, <3>2, FunctionIsSeq
    <3>4. got' = got \o out
      BY <1>3, <2>2 DEF Move
    <3> HIDE DEF out
    <3> QED BY <3>3, <3>4, ConcatProperties DEF TypeOK
  <2> QED BY <1>1, <2>1, <2>2 DEF Sides
<1>10. /\ done' \in [Threads -> Nat] /\ nbytes' \in [Threads -> Nat]
       /\ \A u \in Threads : done'[u] <= nbytes'[u]
  <2>1. done' = [done EXCEPT ![t] = done[t] + c] /\ nbytes' = nbytes
    BY <1>3 DEF Move, Copy
  <2>2. done[t] + c \in Nat /\ done[t] + c <= nbytes[t]
    BY <1>1, <1>2
  <2> QED BY <2>1, <2>2 DEF TypeOK
<1>11. ready' \in [Sides -> SUBSET Threads]
  <2>1. PICK left \in NotifyOne(ready[Other(s)]) : ready' = [ready EXCEPT ![Other(s)] = left]
    BY DEF Copy
  <2>2. Other(s) \in Sides /\ ready[Other(s)] \in SUBSET Threads
    BY DEF Other, Sides, TypeOK
  <2>3. left \in SUBSET Threads
    BY <2>1, <2>2 DEF NotifyOne
  <2> QED BY <2>1, <2>2, <2>3 DEF TypeOK
<1>12. UNCHANGED <<mutex, alone, busy, terminating, pc, todo, side, ok, spurious>>
  BY DEF Copy
<1> QED BY <1>5, <1>6, <1>7, <1>8, <1>9, <1>10, <1>11, <1>12 DEF TypeOK

\* The type invariant holds in the buffer that sd_setup initializes.
LEMMA InitType == Init => TypeOK
<1> SUFFICES ASSUME Init PROVE TypeOK
  OBVIOUS
<1> USE BufSizeAssumption, ThreadsAssumption, ProgramsAssumption
<1>1. mutex \in Mutexes(Threads)
  BY DEF Init, NewMutex, Mutexes, MutexStates
<1>2. /\ ready \in [Sides -> SUBSET Threads] /\ alone \in [Sides -> SUBSET Threads]
      /\ busy \in [Sides -> BOOLEAN] /\ terminating \in BOOLEAN
  BY DEF Init
<1>3. /\ filled \in 0 .. BufSize /\ index \in [Sides -> 0 .. BufSize - 1]
      /\ mem \in [0 .. BufSize - 1 -> Bytes \cup {NoByte}]
  BY DEF Init
<1>4. pc \in [Threads -> PCs] /\ todo \in [Threads -> Seq(Requests)]
  BY DEF Init, PCs
<1>5. /\ side \in [Threads -> Sides] /\ nbytes \in [Threads -> Nat]
      /\ done \in [Threads -> Nat] /\ \A t \in Threads : done[t] <= nbytes[t]
      /\ ok \in [Threads -> BOOLEAN] /\ spurious \in 0 .. MaxSpurious
  BY DEF Init, Sides
<1>6. xfer \in [Sides -> Seq(Bytes)] /\ got \in Seq(Bytes \cup {NoByte})
  BY EmptySeq DEF Init
<1> QED BY <1>1, <1>2, <1>3, <1>4, <1>5, <1>6 DEF TypeOK

\* Every step of a thread and of the environment keeps it.
LEMMA NextType == TypeOK /\ [Next]_vars => TypeOK'
<1> SUFFICES ASSUME TypeOK, [Next]_vars PROVE TypeOK'
  OBVIOUS
<1>0. ASSUME NEW t \in Threads, Copy(t) PROVE TypeOK'
  BY <1>0, CopyType
<1> USE BufSizeAssumption, ThreadsAssumption DEF TypeOK, PCs, Mutexes, MutexStates,
     ring, history, call, Goto, Sleep, Owns, Locked, Unlocked, Holds
<1>1. CASE UNCHANGED vars
  BY <1>1 DEF vars
<1>2. ASSUME NEW t \in Threads, Call(t) PROVE TypeOK'
  <2>1. /\ Head(todo[t]) \in Requests /\ Tail(todo[t]) \in Seq(Requests)
    BY <1>2, HeadTailProperties DEF Call
  <2>2. Head(todo[t]).side \in Sides /\ Head(todo[t]).n \in Nat
    BY <2>1 DEF Requests
  <2>3. ok' \in [Threads -> BOOLEAN]
    BY <1>2, Zenon DEF Call
  <2>4. todo' \in [Threads -> Seq(Requests)] /\ pc' \in [Threads -> PCs]
    BY <1>2, <2>1 DEF Call
  <2>5. /\ side' \in [Threads -> Sides] /\ nbytes' \in [Threads -> Nat]
        /\ done' \in [Threads -> Nat] /\ \A u \in Threads : done'[u] <= nbytes'[u]
    <3>1. /\ side' = [side EXCEPT ![t] = Head(todo[t]).side]
          /\ nbytes' = [nbytes EXCEPT ![t] = Head(todo[t]).n]
          /\ done' = [done EXCEPT ![t] = 0]
      BY <1>2 DEF Call
    <3>2. /\ side' \in [Threads -> Sides] /\ nbytes' \in [Threads -> Nat]
          /\ done' \in [Threads -> Nat]
      BY <2>2, <3>1
    <3>3. ASSUME NEW u \in Threads PROVE done'[u] <= nbytes'[u]
      <4>1. CASE u = t
        BY <2>2, <3>1, <4>1
      <4>2. CASE u # t
        BY <3>1, <4>2
      <4> QED BY <4>1, <4>2
    <3> QED BY <3>2, <3>3
  <2> QED BY <1>2, <2>3, <2>4, <2>5 DEF Call
<1>3. ASSUME NEW t \in Threads, Lock(t) PROVE TypeOK'
  BY <1>3 DEF Lock, Acquire, Proceed
<1>4. ASSUME NEW t \in Threads, Wake(t) PROVE TypeOK'
  BY <1>4 DEF Wake, Acquire, Proceed, LoopOf
<1>5. ASSUME NEW t \in Threads, Alone(t) PROVE TypeOK'
  <2>1. CASE busy[side[t]]
    <3>1. /\ mutex' = Unlocked(mutex, t) /\ pc' = [pc EXCEPT ![t] = "sleep_alone"]
          /\ alone' = [alone EXCEPT ![side[t]] = @ \cup {t}]
          /\ UNCHANGED <<ready, ring, terminating, call, ok, spurious, history>>
      BY <1>5, <2>1 DEF Alone
    <3>2. mutex' \in Mutexes(Threads)
      BY <3>1
    <3>3. pc' \in [Threads -> PCs]
      BY <3>1
    <3>4. alone' \in [Sides -> SUBSET Threads]
      BY ONLY <3>1, TypeOK, t \in Threads DEF TypeOK
    <3> QED BY <3>1, <3>2, <3>3, <3>4
  <2>2. CASE ~busy[side[t]]
    <3>1. /\ pc' = [pc EXCEPT ![t] = "copy"] /\ busy' = [busy EXCEPT ![side[t]] = TRUE]
          /\ UNCHANGED <<mutex, alone, ready, filled, index, mem, terminating, call, ok,
                         spurious, history>>
      BY <1>5, <2>2 DEF Alone
    <3> QED BY <3>1
  <2> QED BY <2>1, <2>2
<1>6. ASSUME NEW t \in Threads, WaitForRoom(t) PROVE TypeOK'
  <2>1. /\ mutex' = Unlocked(mutex, t) /\ pc' = [pc EXCEPT ![t] = "sleep_ready"]
        /\ ready' = [ready EXCEPT ![side[t]] = @ \cup {t}]
        /\ UNCHANGED <<alone, ring, terminating, call, ok, spurious, history>>
    BY <1>6 DEF WaitForRoom
  <2>2. mutex' \in Mutexes(Threads)
    BY <2>1
  <2>3. pc' \in [Threads -> PCs]
    BY <2>1
  <2>4. ready' \in [Sides -> SUBSET Threads]
    BY ONLY <2>1, TypeOK, t \in Threads DEF TypeOK
  <2> QED BY <2>1, <2>2, <2>3, <2>4
<1>7. ASSUME NEW t \in Threads, Finish(t) PROVE TypeOK'
  <2>1. PICK left \in NotifyOne(alone[side[t]]) : alone' = [alone EXCEPT ![side[t]] = left]
    BY <1>7 DEF Finish
  <2>2. left \in SUBSET Threads
    BY <2>1 DEF NotifyOne
  <2> QED BY <1>7, <2>1, <2>2 DEF Finish
<1>8. ASSUME NEW t \in Threads, Unlock(t) PROVE TypeOK'
  BY <1>8 DEF Unlock
<1>9. ASSUME NEW t \in Threads, ShutdownCall(t) PROVE TypeOK'
  BY <1>9 DEF ShutdownCall
<1>10. ASSUME NEW t \in Threads, ShutdownLock(t) PROVE TypeOK'
  BY <1>10 DEF ShutdownLock
<1>11. ASSUME NEW t \in Threads, ShutdownNotify(t) PROVE TypeOK'
  BY <1>11 DEF ShutdownNotify
<1>12. ASSUME NEW t \in Threads, ShutdownUnlock(t) PROVE TypeOK'
  BY <1>12 DEF ShutdownUnlock
<1>13. ASSUME NEW t \in Threads, Spurious(t) PROVE TypeOK'
  <2>1. /\ ready' \in [Sides -> SUBSET Threads] /\ alone' \in [Sides -> SUBSET Threads]
    BY <1>13 DEF Spurious
  <2>2. spurious' \in 0 .. MaxSpurious
    BY <1>13 DEF Spurious
  <2> QED BY <1>13, <2>1, <2>2 DEF Spurious
<1>14. ASSUME NEW S \in Mortal, Die(S) PROVE TypeOK'
  BY <1>14 DEF Die, OwnerDied
<1>15. CASE Finished
  BY <1>1, <1>15 DEF Finished
<1> QED
  BY <1>0, <1>1, <1>2, <1>3, <1>4, <1>5, <1>6, <1>7, <1>8, <1>9, <1>10, <1>11, <1>12,
     <1>13, <1>14, <1>15 DEF Next, Step

\* The shared buffer and the locals of sd_write and sd_read keep their types:
\* in particular 0 <= filled <= bufsize and both indices stay inside the ring.
THEOREM TypeCorrect == Spec => []TypeOK
  BY InitType, NextType, PTL DEF Spec
-----------------------------------------------------------------------------
(* The stream.  StreamInOrder says nothing about the bytes still in the    *)
(* ring; RingHoldsTheRest does, and makes it inductive.                    *)

StreamInv == TypeOK /\ StreamInOrder /\ RingHoldsTheRest

\* A chunk written continues the stretch of the stream in the ring and does
\* not overwrite a byte that is still to be read.
LEMMA WriteKeepsStream ==
  ASSUME StreamInv, NEW t \in Threads, Copy(t), side[t] = "write"
  PROVE  (StreamInOrder /\ RingHoldsTheRest)'
<1> USE BufSizeAssumption
<1> DEFINE c == Count(t)
           w == index["write"]
           r == index["read"]
           ch == Chunk(t, c)
           W == xfer["write"]
<1>1. /\ w \in 0 .. BufSize - 1 /\ r \in 0 .. BufSize - 1 /\ filled \in 0 .. BufSize
      /\ Len(got) \in Nat /\ Len(W) \in Nat
  BY LenProperties DEF StreamInv, TypeOK, Sides
<1>seqs. W \in Seq(Bytes) /\ xfer \in [Sides -> Seq(Bytes)] /\ index \in [Sides -> 0 .. BufSize - 1]
  BY DEF StreamInv, TypeOK, Sides
<1>2. c \in Nat \ {0} /\ c <= BufSize - filled /\ w + c <= BufSize
  BY CountIsRight DEF Copy, StreamInv, Room
<1>3. /\ index' = [index EXCEPT !["write"] = Advance(w, c)]
      /\ filled' = filled + c /\ got' = got
      /\ mem' = [i \in 0 .. BufSize - 1 |-> IF i \in w .. w + c - 1
                   THEN ch[i - w + 1] ELSE mem[i]]
      /\ xfer' = [xfer EXCEPT !["write"] = W \o ch]
  BY DEF Copy, Move
<1>4. ch \in Seq(Bytes) /\ Len(ch) = c
  BY <1>2, ChunkType DEF StreamInv
<1>lens. /\ w = Wrap(r + filled) /\ Len(got) + filled = Len(W)
       /\ Len(got) = Len(xfer["read"])
  BY DEF StreamInv, StreamInOrder, RingHoldsTheRest
<1>5. /\ \A k \in 1 .. Len(got) : got[k] = W[k]
      /\ \A i \in 0 .. filled - 1 : mem[Wrap(r + i)] = W[Len(got) + 1 + i]
  BY DEF StreamInv, StreamInOrder, RingHoldsTheRest
<1> HIDE DEF c, ch
<1>6. /\ Len(W \o ch) = Len(W) + c
      /\ \A k \in 1 .. Len(W) : (W \o ch)[k] = W[k]
      /\ \A j \in 1 .. c : (W \o ch)[Len(W) + j] = ch[j]
  <2>1. /\ Len(W \o ch) = Len(W) + c
        /\ \A k \in 1 .. Len(W) + c : (W \o ch)[k] = IF k <= Len(W) THEN W[k] ELSE ch[k - Len(W)]
    <3>1. W \in Seq(Bytes) /\ ch \in Seq(Bytes)
      BY <1>seqs, <1>4
    <3> HIDE DEF W
    <3> QED BY <1>4, <3>1, ConcatProperties
  <2>2. \A k \in 1 .. Len(W) : k \in 1 .. Len(W) + c /\ k <= Len(W)
    BY <1>1, <1>2
  <2>3. \A j \in 1 .. c : /\ Len(W) + j \in 1 .. Len(W) + c
                        /\ ~(Len(W) + j <= Len(W)) /\ Len(W) + j - Len(W) = j
    BY <1>1, <1>2
  <2> QED BY <2>1, <2>2, <2>3
<1>7. xfer'["write"] = W \o ch /\ xfer'["read"] = xfer["read"]
  BY <1>seqs, <1>3 DEF Sides
<1>8. index'["write"] = Advance(w, c) /\ index'["read"] = r
  BY <1>seqs, <1>3 DEF Sides

<1>9. StreamInOrder'
  <2>1. Len(got) + (filled + c) = Len(W) + c
    <3>1. \A a, f, n \in Int : a + (f + n) = (a + f) + n
      OBVIOUS
    <3>2. Len(got) \in Int /\ filled \in Int /\ c \in Int
      BY <1>1, <1>2
    <3>3. Len(got) + (filled + c) = (Len(got) + filled) + c
      BY <3>1, <3>2
    <3> QED BY <1>lens, <3>3
  <2>2. \A k \in 1 .. Len(got) : got[k] = (W \o ch)[k]
    <3>1. \A k \in 1 .. Len(got) : k \in 1 .. Len(W)
      BY <1>1, <1>lens
    <3> QED BY <1>5, <1>6, <3>1
  <2> QED BY <1>3, <1>lens, <1>6, <1>7, <2>1, <2>2 DEF StreamInOrder
<1>10. /\ Advance(w, c) = Wrap(r + (filled + c))
       /\ \A i \in 0 .. filled + c - 1 : Wrap(r + i) \in 0 .. BufSize - 1
       /\ \A i \in 0 .. filled - 1 : Wrap(r + i) \notin w .. w + c - 1
       /\ \A i \in filled .. filled + c - 1 : Wrap(r + i) = w + (i - filled)
  <2>1. filled + c <= BufSize /\ c \in Nat
    BY <1>1, <1>2, BufSizeAssumption
  <2>2. r \in 0 .. BufSize - 1 /\ filled \in 0 .. BufSize
    BY <1>1
  <2>3. w = Wrap(r + filled) /\ w + c <= BufSize
    BY <1>2, <1>lens
  <2> HIDE BufSizeAssumption
  <2> QED BY <2>1, <2>2, <2>3, WriteWraps
<1>11. ASSUME NEW i \in 0 .. filled + c - 1
       PROVE  mem'[Wrap(r + i)] = (W \o ch)[Len(got) + 1 + i]
  <2>1. Wrap(r + i) \in 0 .. BufSize - 1
    BY <1>10
  <2>2. CASE i < filled
    <3>1. i \in 0 .. filled - 1 /\ Len(got) + 1 + i \in 1 .. Len(W)
      BY <1>1, <1>2, <1>lens, <2>2
    <3>2. mem'[Wrap(r + i)] = mem[Wrap(r + i)]
      BY <1>3, <1>10, <2>1, <3>1
    <3>3. mem[Wrap(r + i)] = W[Len(got) + 1 + i]
      BY <1>5, <3>1
    <3> QED BY <1>6, <3>1, <3>2, <3>3
  <2>3. CASE i >= filled
    <3> DEFINE j == i - filled + 1
    <3>1. /\ j \in 1 .. c /\ Len(got) + 1 + i = Len(W) + j
          /\ i \in filled .. filled + c - 1
      <4>1. /\ i \in Int /\ filled \in Int /\ c \in Int /\ Len(got) \in Int /\ Len(W) \in Int
            /\ i < filled + c /\ i >= filled /\ Len(got) + filled = Len(W)
        BY <1>1, <1>2, <1>lens, <2>3
      <4> HIDE DEF W
      <4> QED BY <4>1
    <3>2. Wrap(r + i) = w + (i - filled)
      BY <1>10, <3>1
    <3>3. Wrap(r + i) \in w .. w + c - 1 /\ Wrap(r + i) - w + 1 = j
      BY <1>1, <1>2, <3>1, <3>2
    <3>4. mem'[Wrap(r + i)] = ch[j]
      BY <1>3, <2>1, <3>3
    <3> QED BY <1>6, <3>1, <3>4
  <2>4. i < filled \/ i >= filled
    <3>1. i \in Int /\ filled \in Int
      BY <1>1, <1>2
    <3> QED BY <3>1
  <2> QED BY <2>2, <2>3, <2>4
<1>12. RingHoldsTheRest'
  <2>1. index'["write"] = Wrap(index'["read"] + filled')
    BY <1>3, <1>8, <1>10
  <2>2. ASSUME NEW i \in 0 .. filled' - 1
        PROVE  mem'[Wrap(index'["read"] + i)] = xfer'["write"][Len(got') + 1 + i]
    <3>1. /\ filled' = filled + c /\ index'["read"] = r /\ got' = got
          /\ xfer'["write"] = W \o ch
      BY <1>3, <1>7, <1>8
    <3>2. i \in 0 .. filled + c - 1
      <4>1. filled \in Int /\ c \in Int
        BY <1>1, <1>2
      <4> QED BY <1>3, <4>1
    <3>3. mem'[Wrap(r + i)] = (W \o ch)[Len(got) + 1 + i]
      BY <1>11, <3>2
    <3> QED BY <3>1, <3>3
  <2> QED BY <2>1, <2>2 DEF RingHoldsTheRest, Wrap
<1> QED BY <1>9, <1>12

\* A chunk read is the first part of the stretch in the ring.
LEMMA ReadKeepsStream ==
  ASSUME StreamInv, NEW t \in Threads, Copy(t), side[t] = "read"
  PROVE  (StreamInOrder /\ RingHoldsTheRest)'
<1> USE BufSizeAssumption
<1> DEFINE c == Count(t)
           w == index["write"]
           r == index["read"]
           ch == Chunk(t, c)
           out == [k \in 1 .. c |-> mem[r + k - 1]]
           W == xfer["write"]
           R == xfer["read"]
           B == Bytes \cup {NoByte}
<1>1. /\ w \in 0 .. BufSize - 1 /\ r \in 0 .. BufSize - 1 /\ filled \in 0 .. BufSize
      /\ Len(got) \in Nat /\ Len(W) \in Nat /\ Len(R) \in Nat
  BY LenProperties DEF StreamInv, TypeOK, Sides
<1>seqs. /\ R \in Seq(Bytes) /\ xfer \in [Sides -> Seq(Bytes)] /\ got \in Seq(B)
      /\ index \in [Sides -> 0 .. BufSize - 1] /\ mem \in [0 .. BufSize - 1 -> B]
  BY DEF StreamInv, TypeOK, Sides
<1>2. c \in Nat \ {0} /\ c <= filled /\ r + c <= BufSize
  BY CountIsRight DEF Copy, StreamInv, Room
<1>3. /\ index' = [index EXCEPT !["read"] = Advance(r, c)]
      /\ filled' = filled - c /\ got' = got \o out /\ mem' = mem
      /\ xfer' = [xfer EXCEPT !["read"] = R \o ch]
  BY DEF Copy, Move
<1>4. ch \in Seq(Bytes) /\ Len(ch) = c
  BY <1>2, ChunkType DEF StreamInv
<1>lens. /\ w = Wrap(r + filled) /\ Len(got) + filled = Len(W)
       /\ Len(got) = Len(R)
  BY DEF StreamInv, StreamInOrder, RingHoldsTheRest
<1>5. /\ \A k \in 1 .. Len(got) : got[k] = W[k]
      /\ \A i \in 0 .. filled - 1 : mem[Wrap(r + i)] = W[Len(got) + 1 + i]
  BY DEF StreamInv, StreamInOrder, RingHoldsTheRest
<1> HIDE DEF c, ch
<1>6. /\ out \in Seq(B) /\ Len(out) = c
      /\ \A k \in 1 .. c : out[k] = mem[r + k - 1]
  <2>1. \A k \in 1 .. c : r + k - 1 \in 0 .. BufSize - 1
    BY <1>1, <1>2, BufSizeAssumption
  <2>2. out \in [1 .. c -> B]
    BY <1>seqs, <2>1
  <2> QED BY <1>2, <2>2, FunctionIsSeq
<1>7. /\ xfer'["write"] = W /\ xfer'["read"] = R \o ch
      /\ index'["write"] = w /\ index'["read"] = Advance(r, c)
  BY <1>seqs, <1>3 DEF Sides
<1> HIDE DEF w, r, W, R, out, B
<1>8. /\ Len(R \o ch) = Len(R) + c /\ Len(got \o out) = Len(got) + c
      /\ \A k \in 1 .. Len(got) : (got \o out)[k] = got[k]
      /\ \A j \in 1 .. c : (got \o out)[Len(got) + j] = out[j]
  <2>1. Len(R \o ch) = Len(R) + c
    BY <1>seqs, <1>4, ConcatProperties
  <2>2. /\ Len(got \o out) = Len(got) + c
        /\ \A k \in 1 .. Len(got) + c :
             (got \o out)[k] = IF k <= Len(got) THEN got[k] ELSE out[k - Len(got)]
    BY <1>seqs, <1>6, ConcatProperties
  <2>3. \A k \in 1 .. Len(got) : k \in 1 .. Len(got) + c /\ k <= Len(got)
    BY <1>1, <1>2
  <2>4. \A j \in 1 .. c : /\ Len(got) + j \in 1 .. Len(got) + c
                        /\ ~(Len(got) + j <= Len(got)) /\ Len(got) + j - Len(got) = j
    BY <1>1, <1>2
  <2> QED BY <2>1, <2>2, <2>3, <2>4
<1>9. ASSUME NEW j \in 1 .. c
      PROVE  out[j] = W[Len(got) + j]
  <2>1. j - 1 \in 0 .. filled - 1 /\ Len(got) + 1 + (j - 1) = Len(got) + j
    BY <1>1, <1>2
  <2>2. Wrap(r + (j - 1)) = r + j - 1
    BY <1>1, <1>2, ReadWraps
  <2>3. mem[Wrap(r + (j - 1))] = W[Len(got) + 1 + (j - 1)]
    BY <1>5, <2>1
  <2> QED BY <1>6, <2>1, <2>2, <2>3
<1>10. StreamInOrder'
  <2>1. ASSUME NEW k \in 1 .. Len(got) + c
        PROVE  (got \o out)[k] = W[k]
    <3>1. CASE k <= Len(got)
      BY <1>1, <1>2, <1>5, <1>8, <3>1
    <3>2. CASE k > Len(got)
      <4>1. k - Len(got) \in 1 .. c /\ Len(got) + (k - Len(got)) = k
        BY <1>1, <1>2, <3>2
      <4> QED BY <1>8, <1>9, <4>1
    <3>3. k <= Len(got) \/ k > Len(got)
      <4>1. k \in Int /\ Len(got) \in Int
        BY <1>1, <1>2
      <4> QED BY <4>1
    <3> QED BY <3>1, <3>2, <3>3
  <2>2. Len(got) + c + (filled - c) = Len(W)
    BY <1>1, <1>2, <1>lens
  <2> QED BY <1>3, <1>lens, <1>7, <1>8, <2>1, <2>2 DEF StreamInOrder
<1>12. \A i \in 0 .. filled - c : Wrap(Advance(r, c) + i) = Wrap(r + (c + i))
  BY <1>1, <1>2, ReadWraps
<1>13. RingHoldsTheRest'
  <2>1. index'["write"] = Wrap(index'["read"] + filled')
    <3>1. Wrap(Advance(r, c) + (filled - c)) = Wrap(r + (c + (filled - c)))
      BY <1>1, <1>2, <1>12
    <3>2. c + (filled - c) = filled
      BY <1>1, <1>2
    <3> QED BY <1>3, <1>lens, <1>7, <3>1, <3>2
  <2>2. ASSUME NEW i \in 0 .. filled - c - 1
        PROVE  mem[Wrap(Advance(r, c) + i)] = W[Len(got) + c + 1 + i]
    <3>1. c + i \in 0 .. filled - 1 /\ i \in 0 .. filled - c
      BY <1>1, <1>2
    <3>2. mem[Wrap(r + (c + i))] = W[Len(got) + 1 + (c + i)]
      BY <1>5, <3>1
    <3>3. Len(got) + 1 + (c + i) = Len(got) + c + 1 + i
      BY <1>1, <1>2
    <3> QED BY <1>12, <3>1, <3>2, <3>3
  <2> QED BY <1>3, <1>7, <1>8, <2>1, <2>2 DEF RingHoldsTheRest, Wrap
<1> QED BY <1>10, <1>13

\* Nothing but a chunk touches the stream.
LEMMA OnlyCopyMoves ==
  ASSUME [Next]_vars, ~ \E t \in Threads : Copy(t)
  PROVE  UNCHANGED <<filled, index, mem, xfer, got>>
<1> USE DEF ring, history, call
<1>1. CASE UNCHANGED vars
  BY <1>1 DEF vars
<1>2. ASSUME NEW t \in Threads, Step(t) PROVE UNCHANGED <<filled, index, mem, xfer, got>>
  BY <1>2 DEF Step, Call, Lock, Wake, Acquire, Alone, WaitForRoom, Finish, Unlock,
     ShutdownLock, ShutdownNotify, ShutdownUnlock
<1>3. ASSUME NEW t \in Threads, ShutdownCall(t) \/ Spurious(t)
      PROVE  UNCHANGED <<filled, index, mem, xfer, got>>
  BY <1>3 DEF ShutdownCall, Spurious
<1>4. ASSUME NEW S \in Mortal, Die(S) PROVE UNCHANGED <<filled, index, mem, xfer, got>>
  BY <1>4 DEF Die
<1>5. CASE Finished
  BY <1>1, <1>5 DEF Finished
<1> QED BY <1>1, <1>2, <1>3, <1>4, <1>5 DEF Next

\* The stream invariant is inductive.
LEMMA NextStream == StreamInv /\ [Next]_vars => StreamInv'
<1> SUFFICES ASSUME StreamInv, [Next]_vars PROVE StreamInv'
  OBVIOUS
<1>1. TypeOK'
  BY NextType DEF StreamInv
<1>2. ASSUME NEW t \in Threads, Copy(t) PROVE (StreamInOrder /\ RingHoldsTheRest)'
  <2>1. side[t] \in {"write", "read"}
    BY DEF StreamInv, TypeOK, Sides
  <2> QED BY <1>2, <2>1, WriteKeepsStream, ReadKeepsStream
<1>3. CASE ~ \E t \in Threads : Copy(t)
  <2>1. UNCHANGED <<filled, index, mem, xfer, got>>
    BY <1>3, OnlyCopyMoves
  <2> QED BY <1>1, <2>1 DEF StreamInv, StreamInOrder, RingHoldsTheRest
<1> QED BY <1>1, <1>2, <1>3 DEF StreamInv

\* The stream invariant holds in an empty ring.
LEMMA InitStream == Init => StreamInv
<1> SUFFICES ASSUME Init PROVE StreamInv
  OBVIOUS
<1>1. TypeOK
  BY InitType
<1>2. got = << >> /\ Len(got) = 0 /\ filled = 0 /\ index["read"] = 0 /\ index["write"] = 0
      /\ Len(xfer["read"]) = 0 /\ Len(xfer["write"]) = 0
  BY EmptySeq DEF Init, Sides
<1> QED BY <1>1, <1>2, BufSizeAssumption DEF StreamInv, StreamInOrder, RingHoldsTheRest, Wrap

\* What readers receive is what writers sent, in the order it was sent, for
\* every size of the ring and however chunks of concurrent calls wrap around.
THEOREM StreamCorrect == Spec => []StreamInOrder
<1>1. Spec => []StreamInv
  BY InitStream, NextStream, PTL DEF Spec
<1>2. StreamInv => StreamInOrder
  BY DEF StreamInv
<1> QED BY <1>1, <1>2, PTL

\* The ring always holds exactly what was written and not yet read.
THEOREM RingCorrect == Spec => []RingHoldsTheRest
<1>1. Spec => []StreamInv
  BY InitStream, NextStream, PTL DEF Spec
<1>2. StreamInv => RingHoldsTheRest
  BY DEF StreamInv
<1> QED BY <1>1, <1>2, PTL
-----------------------------------------------------------------------------
(* The mutex: who is inside the critical section owns a consistent mutex.  *)

Working ==
    \A t \in Threads : pc[t] \in {"alone", "copy"} =>
        mutex.owner = t /\ mutex.state = "consistent"

\* Whose turn it is on side s: the one thread that may move bytes there.
HasTurn(t, s) == side[t] = s /\ pc[t] \in {"copy", "sleep_ready"}

\* Nothing was moved yet on side s, or the last byte moved ended its call.
AtCallEnd(s) ==
    xfer[s] = << >> \/ xfer[s][Len(xfer[s])].off = xfer[s][Len(xfer[s])].of

\* The last byte moved on side s is the last one that t's call has moved.
Reached(t, s) ==
    /\ xfer[s] # << >>
    /\ xfer[s][Len(xfer[s])] = [thread |-> t, off |-> done[t], of |-> nbytes[t]]

Turns ==
    /\ \A t \in Threads : pc[t] \in {"lock", "alone", "sleep_alone"} => done[t] = 0
    /\ \A s \in Sides : ~busy[s] => AtCallEnd(s)
    /\ \A s \in Sides : \A t \in Threads : HasTurn(t, s) =>
         /\ busy[s]
         /\ \A u \in Threads : HasTurn(u, s) => u = t
         /\ IF done[t] = 0 THEN AtCallEnd(s) ELSE Reached(t, s)

MixInv == TypeOK /\ Working /\ Turns /\ CallsNeverMix
\* Who finds the mutex available finds nobody in the critical section.
LEMMA NobodyWorksIfAvailable ==
  TypeOK /\ Working /\ Available(mutex) => \A u \in Threads : pc[u] # "alone" /\ pc[u] # "copy"
BY ThreadsAssumption DEF Working, Available, TypeOK, Mutexes, MutexStates

\* Every step keeps the critical section exclusive and its mutex consistent.
LEMMA NextWorking == TypeOK /\ Working /\ [Next]_vars => Working'
<1> SUFFICES ASSUME TypeOK, Working, [Next]_vars PROVE Working'
  OBVIOUS
<1> USE ThreadsAssumption DEF Working, TypeOK, Mutexes, MutexStates, Goto, Sleep, Owns,
     Available, Locked, Unlocked, Holds
<1>1. CASE UNCHANGED vars
  BY <1>1 DEF vars
<1>2. ASSUME NEW t \in Threads, Call(t) PROVE Working'
  BY <1>2 DEF Call
\* An acquisition finds nobody at work; who goes on has the mutex.
<1>3. ASSUME NEW t \in Threads, Lock(t) \/ Wake(t)
      PROVE  Working'
  <2>0. Available(mutex)
    BY ONLY <1>3 DEF Lock, Wake, Acquire
  <2>1. \A u \in Threads : pc[u] # "alone" /\ pc[u] # "copy"
    BY ONLY <2>0, TypeOK, Working, NobodyWorksIfAvailable
  <2>2. PICK l : pc' = [pc EXCEPT ![t] = l] /\ (~Proceed => l # "alone" /\ l # "copy")
    BY <1>3 DEF Lock, Wake, Acquire
  <2>3. Proceed => mutex'.owner = t /\ mutex'.state = "consistent"
    BY <1>3 DEF Lock, Wake, Acquire, Proceed
  <2>4. \A u \in Threads : pc'[u] = "alone" \/ pc'[u] = "copy" => u = t /\ Proceed
    BY <2>1, <2>2
  <2> QED BY <2>3, <2>4
<1>5. ASSUME NEW t \in Threads, Alone(t) PROVE Working'
  <2>1. CASE busy[side[t]]
    <3>1. pc' = [pc EXCEPT ![t] = "sleep_alone"] /\ mutex.owner = t
      BY <1>5, <2>1 DEF Alone
    <3> QED BY <3>1
  <2>2. CASE ~busy[side[t]]
    BY <1>5, <2>2 DEF Alone
  <2> QED BY <2>1, <2>2
<1>6. ASSUME NEW t \in Threads, WaitForRoom(t) PROVE Working'
  BY <1>6 DEF WaitForRoom
<1>7. ASSUME NEW t \in Threads, Copy(t) PROVE Working'
  BY <1>7 DEF Copy
<1>8. ASSUME NEW t \in Threads, Finish(t) PROVE Working'
  BY <1>8 DEF Finish
<1>9. ASSUME NEW t \in Threads, Unlock(t) PROVE Working'
  BY <1>9 DEF Unlock
<1>10. ASSUME NEW t \in Threads, ShutdownCall(t) PROVE Working'
  BY <1>10 DEF ShutdownCall
<1>11. ASSUME NEW t \in Threads, ShutdownLock(t) PROVE Working'
  <2>1. Available(mutex) /\ pc' = [pc EXCEPT ![t] = "shut_notify"]
    BY ONLY <1>11 DEF ShutdownLock, Goto
  <2>2. \A u \in Threads : pc[u] # "alone" /\ pc[u] # "copy"
    BY ONLY <2>1, TypeOK, Working, NobodyWorksIfAvailable
  <2>3. \A u \in Threads : pc'[u] \notin {"alone", "copy"}
    BY <2>1, <2>2
  <2> QED BY <2>3
<1>12. ASSUME NEW t \in Threads, ShutdownNotify(t) PROVE Working'
  BY <1>12 DEF ShutdownNotify
<1>13. ASSUME NEW t \in Threads, ShutdownUnlock(t) PROVE Working'
  BY <1>13 DEF ShutdownUnlock
<1>14. ASSUME NEW t \in Threads, Spurious(t) PROVE Working'
  BY <1>14 DEF Spurious
<1>15. ASSUME NEW S \in Mortal, Die(S) PROVE Working'
  <2> SUFFICES ASSUME NEW u \in Threads, pc'[u] \in {"alone", "copy"}
               PROVE  mutex'.owner = u /\ mutex'.state = "consistent"
    OBVIOUS
  <2>1. u \notin S /\ pc[u] \in {"alone", "copy"} /\ mutex' = OwnerDied(mutex, S)
    BY <1>15 DEF Die
  <2>2. mutex.owner = u /\ mutex.state = "consistent"
    BY <2>1
  <2> QED BY ONLY <2>1, <2>2 DEF OwnerDied
<1>16. CASE Finished
  BY <1>1, <1>16 DEF Finished
<1> QED
  BY <1>1, <1>2, <1>3, <1>5, <1>6, <1>7, <1>8, <1>9, <1>10, <1>11, <1>12, <1>13,
     <1>14, <1>15, <1>16 DEF Next, Step

\* Only a thread inside the critical section touches the ring.
LEMMA OnlyWorkersTouchRing ==
  ASSUME [Next]_vars, Working, mutex.state # "consistent"
  PROVE  UNCHANGED ring
<1> USE DEF ring, history, call
<1>1. CASE UNCHANGED vars
  BY <1>1 DEF vars
<1>2. ASSUME NEW t \in Threads, Alone(t) \/ Copy(t) \/ Finish(t) PROVE UNCHANGED ring
  BY <1>2 DEF Working, Alone, Copy, Finish, Owns
<1>3. ASSUME NEW t \in Threads, Step(t), ~(Alone(t) \/ Copy(t) \/ Finish(t)) PROVE UNCHANGED ring
  BY <1>3 DEF Step, Call, Lock, Wake, Acquire, WaitForRoom, Unlock,
     ShutdownLock, ShutdownNotify, ShutdownUnlock
<1>4. ASSUME NEW t \in Threads, ShutdownCall(t) \/ Spurious(t) PROVE UNCHANGED ring
  BY <1>4 DEF ShutdownCall, Spurious
<1>5. ASSUME NEW S \in Mortal, Die(S) PROVE UNCHANGED ring
  BY <1>5 DEF Die
<1>6. CASE Finished
  BY <1>1, <1>6 DEF Finished
<1> QED BY <1>1, <1>2, <1>3, <1>4, <1>5, <1>6 DEF Next

\* After a process died inside the critical section nobody touches the ring,
\* which may be half updated, again: the code does not call
\* pthread_mutex_consistent, and every other call fails.
THEOREM RingIsSealed == Spec => SealedAfterDeath
<1>1. Init => Working
  BY DEF Init, Working
<1>2. TypeOK /\ Working /\ [Next]_vars => [mutex.state # "consistent" => UNCHANGED ring]_vars
  BY OnlyWorkersTouchRing
<1> QED BY <1>1, <1>2, InitType, NextType, NextWorking, PTL DEF Spec, SealedAfterDeath
-----------------------------------------------------------------------------
(* Calls do not mix: the flags writing and reading hand the turn on.       *)

\* Byte a + 1 of a call follows byte a of it.
LEMMA NextByteFollows ==
  ASSUME NEW t, NEW n \in Nat, NEW a \in Nat, NEW b \in Nat, b = a + 1, b <= n
  PROVE  Follows([thread |-> t, off |-> a, of |-> n], [thread |-> t, off |-> b, of |-> n])
<1>1. [thread |-> t, off |-> b, of |-> n] =
        [[thread |-> t, off |-> a, of |-> n] EXCEPT !.off = @ + 1]
  OBVIOUS
<1> QED BY <1>1 DEF Follows

\* A chunk continues the call whose turn it is.
LEMMA CopyKeepsTurns ==
  ASSUME MixInv, NEW t \in Threads, Copy(t)
  PROVE  (Turns /\ CallsNeverMix)'
<1> DEFINE s == side[t]
           c == Count(t)
           ch == Chunk(t, c)
           X == xfer[s]
           byte(k) == [thread |-> t, off |-> done[t] + k, of |-> nbytes[t]]
<1>1. /\ s \in Sides /\ done[t] \in Nat /\ nbytes[t] \in Nat /\ X \in Seq(Bytes)
      /\ Len(X) \in Nat /\ HasTurn(t, s) /\ xfer \in [Sides -> Seq(Bytes)]
      /\ done \in [Threads -> Nat]
  BY LenProperties DEF MixInv, TypeOK, Copy, Owns, HasTurn
<1>2. c \in Nat \ {0} /\ c <= nbytes[t] - done[t]
  BY CountIsRight DEF MixInv, Copy
<1>3. /\ xfer' = [xfer EXCEPT ![s] = X \o ch] /\ done' = [done EXCEPT ![t] = done[t] + c]
      /\ UNCHANGED <<busy, side, pc, nbytes>>
  BY DEF Copy, Move
<1>4. /\ ch \in Seq(Bytes) /\ Len(ch) = c
      /\ \A k \in 1 .. c : ch[k] = byte(k)
  BY <1>2, ChunkType DEF MixInv
<1> HIDE DEF c, ch
<1>5. /\ Len(X \o ch) = Len(X) + c /\ X \o ch \in Seq(Bytes)
      /\ \A k \in 1 .. Len(X) + c : (X \o ch)[k] = IF k <= Len(X) THEN X[k] ELSE ch[k - Len(X)]
  BY <1>1, <1>4, ConcatProperties
<1>6. xfer'[s] = X \o ch /\ \A z \in Sides : z # s => xfer'[z] = xfer[z]
  BY <1>1, <1>3
<1>7. /\ busy[s] /\ \A u \in Threads : HasTurn(u, s) => u = t
      /\ IF done[t] = 0 THEN AtCallEnd(s) ELSE Reached(t, s)
  BY <1>1 DEF MixInv, Turns
<1>8. /\ \A u \in Threads : \A z \in Sides : HasTurn(u, z)' <=> HasTurn(u, z)
      /\ \A u \in Threads : u # t => done'[u] = done[u]
      /\ done'[t] = done[t] + c
  BY <1>1, <1>3 DEF HasTurn
<1>9. \A z \in Sides : z # s =>
        (AtCallEnd(z)' <=> AtCallEnd(z)) /\ \A u \in Threads : u # t => (Reached(u, z)' <=> Reached(u, z))
  BY <1>3, <1>6, <1>8 DEF AtCallEnd, Reached
<1>10. ASSUME NEW z \in Sides, z = s PROVE Reached(t, z)'
  <2>1. /\ Len(X) + c \in 1 .. Len(X) + c /\ ~(Len(X) + c <= Len(X))
        /\ Len(X) + c - Len(X) = c /\ c \in 1 .. c
    BY <1>1, <1>2
  <2>2. (X \o ch)[Len(X) + c] = byte(c)
    BY <1>4, <1>5, <2>1
  <2>3. X \o ch # << >>
    <3>1. Len(X \o ch) # 0
      BY <1>1, <1>2, <1>5
    <3> QED BY <3>1, EmptySeq
  <2> QED BY <1>3, <1>5, <1>6, <1>8, <1>10, <2>2, <2>3 DEF Reached
<1>11. Turns'
  <2>1. \A u \in Threads : pc'[u] \in {"lock", "alone", "sleep_alone"} => done'[u] = 0
    <3>1. pc[t] = "copy"
      BY DEF Copy, Owns
    <3> QED BY <1>3, <1>8, <3>1 DEF MixInv, Turns
  <2>2. \A z \in Sides : ~busy'[z] => AtCallEnd(z)'
    BY <1>3, <1>7, <1>9 DEF MixInv, Turns
  <2>3. ASSUME NEW z \in Sides, NEW u \in Threads, HasTurn(u, z)'
        PROVE  /\ busy'[z] /\ \A v \in Threads : HasTurn(v, z)' => v = u
               /\ IF done'[u] = 0 THEN AtCallEnd(z)' ELSE Reached(u, z)'
    <3>1. HasTurn(u, z)
      BY <1>8, <2>3
    <3>2. busy'[z] /\ \A v \in Threads : HasTurn(v, z)' => v = u
      BY <1>3, <1>8, <3>1 DEF MixInv, Turns
    <3>3. CASE z = s
      <4>1. u = t
        BY <1>7, <3>1, <3>3
      <4>2. done'[t] # 0
        BY <1>1, <1>2, <1>8
      <4> QED BY <1>10, <3>2, <3>3, <4>1, <4>2
    <3>4. CASE z # s
      <4>1. u # t
        BY <3>1, <3>4 DEF HasTurn
      <4>2. IF done[u] = 0 THEN AtCallEnd(z) ELSE Reached(u, z)
        BY <3>1 DEF MixInv, Turns
      <4> QED BY <1>8, <1>9, <3>2, <3>4, <4>1, <4>2
    <3> QED BY <3>3, <3>4
  <2> QED BY <2>1, <2>2, <2>3 DEF Turns
<1>12. ASSUME NEW k \in 1 .. Len(X) + c - 1
       PROVE  Follows((X \o ch)[k], (X \o ch)[k + 1])
  <2>1. k \in Int /\ Len(X) \in Int /\ c \in Int
    BY <1>1, <1>2
  <2>2. CASE k < Len(X)
    <3>1. k \in 1 .. Len(X) - 1 /\ k <= Len(X) /\ k + 1 <= Len(X)
          /\ k \in 1 .. Len(X) + c /\ k + 1 \in 1 .. Len(X) + c
      BY <1>2, <2>1, <2>2
    <3>2. Follows(X[k], X[k + 1])
      BY <1>1, <3>1 DEF MixInv, CallsNeverMix
    <3> QED BY <1>5, <3>1, <3>2
  <2>3. CASE k = Len(X)
    <3>1. /\ k \in 1 .. Len(X) + c /\ k <= Len(X) /\ k + 1 \in 1 .. Len(X) + c
          /\ ~(k + 1 <= Len(X)) /\ k + 1 - Len(X) = 1 /\ 1 \in 1 .. c
      BY <1>2, <2>1, <2>3
    <3>2. (X \o ch)[k] = X[Len(X)] /\ (X \o ch)[k + 1] = byte(1)
      BY <1>4, <1>5, <2>3, <3>1
    <3>3. X # << >>
      BY <2>3, EmptySeq
    <3>4. CASE done[t] = 0
      <4>1. X[Len(X)].off = X[Len(X)].of
        BY <1>7, <3>3, <3>4 DEF AtCallEnd
      <4>2. byte(1).off = 1
        BY <3>4
      <4> QED BY <3>2, <4>1, <4>2 DEF Follows
    <3>5. CASE done[t] # 0
      <4>1. X[Len(X)] = [thread |-> t, off |-> done[t], of |-> nbytes[t]]
        BY <1>7, <3>5 DEF Reached
      <4>2. done[t] + 1 \in Nat /\ done[t] + 1 <= nbytes[t]
        BY <1>1, <1>2
      <4>3. Follows([thread |-> t, off |-> done[t], of |-> nbytes[t]], byte(1))
        BY <1>1, <4>2, NextByteFollows
      <4> QED BY <3>2, <4>1, <4>3
    <3> QED BY <3>4, <3>5
  <2>4. CASE k > Len(X)
    <3> DEFINE j == k - Len(X)
    <3>1. /\ k \in 1 .. Len(X) + c /\ ~(k <= Len(X)) /\ j \in 1 .. c - 1 /\ j \in 1 .. c
          /\ k + 1 \in 1 .. Len(X) + c /\ ~(k + 1 <= Len(X)) /\ k + 1 - Len(X) = j + 1
          /\ j + 1 \in 1 .. c
      <4>1. k < Len(X) + c /\ Len(X) >= 0
        BY <1>1, <1>2
      <4> HIDE DEF X
      <4> QED BY <2>1, <2>4, <4>1
    <3>2. (X \o ch)[k] = byte(j) /\ (X \o ch)[k + 1] = byte(j + 1)
      <4>1. (X \o ch)[k] = ch[j] /\ (X \o ch)[k + 1] = ch[j + 1]
        <5>1. (X \o ch)[k] = ch[k - Len(X)]
          BY <1>5, <3>1, Zenon
        <5>2. ASSUME NEW n, n = k + 1 PROVE (X \o ch)[n] = ch[j + 1]
          <6>1. n \in 1 .. Len(X) + c /\ ~(n <= Len(X)) /\ n - Len(X) = j + 1
            BY <3>1, <5>2
          <6>2. (X \o ch)[n] = ch[n - Len(X)]
            BY <1>5, <6>1, Zenon
          <6> QED BY <6>1, <6>2, Zenon
        <5> QED BY <5>1, <5>2
      <4>2. ch[j] = byte(j) /\ ch[j + 1] = byte(j + 1)
        BY <1>4, <3>1
      <4> QED BY <4>1, <4>2
    <3>3. /\ done[t] + j \in Nat /\ done[t] + (j + 1) \in Nat
          /\ done[t] + (j + 1) = done[t] + j + 1 /\ done[t] + (j + 1) <= nbytes[t]
      <4>1. j + 1 <= c /\ j \in Nat
        BY <2>1, <3>1
      <4> HIDE DEF j
      <4> QED BY <1>1, <1>2, <4>1
    <3>4. Follows(byte(j), byte(j + 1))
      BY <1>1, <3>3, NextByteFollows
    <3> QED BY <3>2, <3>4
  <2>5. k < Len(X) \/ k = Len(X) \/ k > Len(X)
    BY <2>1
  <2> QED BY <2>2, <2>3, <2>4, <2>5
<1>13. CallsNeverMix'
  <2>1. ASSUME NEW z \in Sides, NEW k \in 1 .. Len(xfer'[z]) - 1
        PROVE  Follows(xfer'[z][k], xfer'[z][k + 1])
    <3>1. CASE z = s
      <4>1. xfer'[z] = X \o ch
        BY <1>6, <3>1
      <4>2. Len(xfer'[z]) = Len(X) + c
        BY <1>5, <4>1
      <4>3. k \in 1 .. Len(X) + c - 1
        <5>1. Len(X) \in Int /\ c \in Int
          BY <1>1, <1>2
        <5> HIDE DEF X
        <5> QED BY <4>2, <5>1
      <4> QED BY <1>12, <4>1, <4>3
    <3>2. CASE z # s
      BY <1>6, <2>1, <3>2 DEF MixInv, CallsNeverMix
    <3> QED BY <3>1, <3>2
  <2> QED BY <2>1 DEF CallsNeverMix, Follows
<1> QED BY <1>11, <1>13
\* Every other step hands the turn on or leaves it where it is.
LEMMA OthersKeepTurns ==
  ASSUME MixInv, [Next]_vars, ~ \E t \in Threads : Copy(t)
  PROVE  Turns'
<1>0. UNCHANGED xfer
  BY OnlyCopyMoves
<1> USE <1>0 DEF MixInv, TypeOK, Turns, HasTurn, AtCallEnd, Reached, PCs, ring, history, call,
     Goto, Sleep, Owns
<1>1. CASE UNCHANGED vars
  BY <1>1 DEF vars
<1>2. ASSUME NEW t \in Threads, Call(t) PROVE Turns'
  <2>1. /\ done' = [done EXCEPT ![t] = 0] /\ UNCHANGED busy /\ pc[t] = "idle"
        /\ \A u \in Threads : u # t => pc'[u] = pc[u] /\ side'[u] = side[u] /\ nbytes'[u] = nbytes[u]
        /\ pc'[t] \in {"idle", "lock"}
    BY <1>2 DEF Call
  <2>2. \A u \in Threads, s \in Sides : HasTurn(u, s)' <=> u # t /\ HasTurn(u, s)
    BY <2>1
  <2>3. \A s \in Sides : AtCallEnd(s)' <=> AtCallEnd(s)
    OBVIOUS
  <2>4. \A u \in Threads, s \in Sides : u # t /\ Reached(u, s) => Reached(u, s)'
    BY <2>1
  <2>5. \A u \in Threads : u # t => done'[u] = done[u]
    BY <2>1
  <2>6. \A u \in Threads : pc'[u] \in {"lock", "alone", "sleep_alone"} => done'[u] = 0
    BY <2>1, <2>5
  <2> HIDE DEF HasTurn, AtCallEnd, Reached
  <2> QED BY <2>1, <2>2, <2>3, <2>4, <2>5, <2>6
<1>3. ASSUME NEW t \in Threads, Lock(t) PROVE Turns'
  BY <1>3 DEF Lock, Acquire
<1>4. ASSUME NEW t \in Threads, Wake(t) PROVE Turns'
  BY <1>4 DEF Wake, Acquire, LoopOf
<1>5. ASSUME NEW t \in Threads, Alone(t) PROVE Turns'
  <2>1. CASE busy[side[t]]
    <3>1. pc' = [pc EXCEPT ![t] = "sleep_alone"] /\ UNCHANGED <<busy, side, nbytes, done>>
      BY <1>5, <2>1 DEF Alone
    <3>2. pc[t] = "alone" /\ done[t] = 0
      BY <1>5 DEF Alone
    <3> QED BY <3>1, <3>2
  <2>2. CASE ~busy[side[t]]
    <3>1. /\ pc' = [pc EXCEPT ![t] = "copy"] /\ busy' = [busy EXCEPT ![side[t]] = TRUE]
          /\ UNCHANGED <<side, nbytes, done>>
      BY <1>5, <2>2 DEF Alone
    <3>2. pc[t] = "alone" /\ done[t] = 0 /\ AtCallEnd(side[t])
      BY <1>5, <2>2 DEF Alone
    <3>3. \A u \in Threads : ~HasTurn(u, side[t])
      BY <2>2
    <3> QED BY <3>1, <3>2, <3>3
  <2> QED BY <2>1, <2>2
<1>6. ASSUME NEW t \in Threads, WaitForRoom(t) PROVE Turns'
  BY <1>6 DEF WaitForRoom
<1>7. ASSUME NEW t \in Threads, Finish(t) PROVE Turns'
  <2>1. /\ pc' = [pc EXCEPT ![t] = "unlock"] /\ busy' = [busy EXCEPT ![side[t]] = FALSE]
        /\ UNCHANGED <<side, nbytes, done>>
    BY <1>7 DEF Finish
  <2>2. HasTurn(t, side[t]) /\ done[t] = nbytes[t]
    BY <1>7 DEF Finish
  <2>3. AtCallEnd(side[t])
    <3>1. CASE done[t] = 0
      BY <2>2, <3>1
    <3>2. CASE done[t] # 0
      <4>1. Reached(t, side[t])
        BY <2>2, <3>2
      <4> QED BY <2>2, <4>1
    <3> QED BY <3>1, <3>2
  <2>4. \A u \in Threads : HasTurn(u, side[t]) => u = t
    BY <2>2
  <2> QED BY <2>1, <2>2, <2>3, <2>4
<1>8. ASSUME NEW t \in Threads, Unlock(t) PROVE Turns'
  BY <1>8 DEF Unlock
<1>9. ASSUME NEW t \in Threads, ShutdownCall(t) PROVE Turns'
  BY <1>9 DEF ShutdownCall
<1>10. ASSUME NEW t \in Threads, ShutdownLock(t) PROVE Turns'
  BY <1>10 DEF ShutdownLock
<1>11. ASSUME NEW t \in Threads, ShutdownNotify(t) PROVE Turns'
  BY <1>11 DEF ShutdownNotify
<1>12. ASSUME NEW t \in Threads, ShutdownUnlock(t) PROVE Turns'
  BY <1>12 DEF ShutdownUnlock
<1>13. ASSUME NEW t \in Threads, Spurious(t) PROVE Turns'
  BY <1>13 DEF Spurious
<1>14. ASSUME NEW S \in Mortal, Die(S) PROVE Turns'
  BY <1>14 DEF Die
<1>15. CASE Finished
  BY <1>1, <1>15 DEF Finished
<1> QED
  BY <1>1, <1>2, <1>3, <1>4, <1>5, <1>6, <1>7, <1>8, <1>9, <1>10, <1>11, <1>12, <1>13,
     <1>14, <1>15 DEF Next, Step

\* The invariant that keeps calls apart is inductive.
LEMMA NextMix == MixInv /\ [Next]_vars => MixInv'
<1> SUFFICES ASSUME MixInv, [Next]_vars PROVE MixInv'
  OBVIOUS
<1>1. TypeOK' /\ Working'
  BY NextType, NextWorking DEF MixInv
<1>2. ASSUME NEW t \in Threads, Copy(t) PROVE (Turns /\ CallsNeverMix)'
  BY <1>2, CopyKeepsTurns
<1>3. CASE ~ \E t \in Threads : Copy(t)
  <2>1. UNCHANGED xfer
    BY <1>3, OnlyCopyMoves
  <2>2. CallsNeverMix'
    BY <2>1 DEF MixInv, CallsNeverMix, Follows
  <2>3. Turns'
    BY <1>3, OthersKeepTurns
  <2> QED BY <1>1, <2>2, <2>3 DEF MixInv
<1> QED BY <1>1, <1>2, <1>3 DEF MixInv

\* At the beginning it is nobody's turn.
LEMMA InitMix == Init => MixInv
<1> SUFFICES ASSUME Init PROVE MixInv
  OBVIOUS
<1>1. \A s \in Sides : xfer[s] = << >> /\ Len(xfer[s]) = 0
  BY EmptySeq DEF Init
<1>2. Working /\ Turns
  BY <1>1 DEF Init, Working, Turns, HasTurn, AtCallEnd
<1>3. CallsNeverMix
  BY <1>1 DEF CallsNeverMix
<1> QED BY <1>2, <1>3, InitType DEF MixInv

\* "multiple write operations to the same process will never mix nor do
\* concurrent read operations": for any number of concurrent calls of any
\* size, also of calls larger than the ring.
THEOREM CallsAreContiguous == Spec => []CallsNeverMix
<1>1. Spec => []MixInv
  BY InitMix, NextMix, PTL DEF Spec
<1>2. MixInv => CallsNeverMix
  BY DEF MixInv
<1> QED BY <1>1, <1>2, PTL
-----------------------------------------------------------------------------
(* The results of the calls                                                *)

\* Whoever was told that the buffer cannot be used any more may rely on it.
Failed == terminating \/ mutex.state # "consistent"

\* Inside the loops the call has not failed; who is about to return either has
\* moved all bytes, and then still holds the mutex, or was told so.
Results == \A t \in Threads :
    /\ pc[t] \in {"alone", "copy"} => ok[t]
    /\ pc[t] = "unlock" /\ ok[t] => Holds(mutex, t)
    /\ pc[t] \in {"idle", "unlock", "shut_lock", "shut_notify", "shut_unlock"} =>
         IF ok[t] THEN done[t] = nbytes[t] ELSE Failed

\* The flag terminating is never reset, and the mutex never repaired.
LEMMA FailedStays == ASSUME TypeOK, [Next]_vars, Failed PROVE Failed'
<1> USE DEF Failed, TypeOK, Mutexes, MutexStates, Locked, Unlocked, Holds, Sleep
<1>1. CASE UNCHANGED vars
  BY <1>1 DEF vars
<1>2. ASSUME NEW t \in Threads, Call(t) \/ Copy(t) \/ Finish(t) \/ ShutdownNotify(t) \/ ShutdownCall(t) \/ Spurious(t)
      PROVE  Failed'
  BY <1>2 DEF Call, Copy, Finish, ShutdownNotify, ShutdownCall, Spurious
<1>3. ASSUME NEW t \in Threads, Lock(t) \/ Wake(t) \/ ShutdownLock(t) PROVE Failed'
  BY <1>3 DEF Lock, Wake, ShutdownLock, Acquire
<1>4. ASSUME NEW t \in Threads, Alone(t) \/ WaitForRoom(t) \/ Unlock(t) \/ ShutdownUnlock(t) PROVE Failed'
  BY <1>4 DEF Alone, WaitForRoom, Unlock, ShutdownUnlock
<1>5. ASSUME NEW S \in Mortal, Die(S) PROVE Failed'
  BY <1>5 DEF Die, OwnerDied
<1>6. CASE Finished
  BY <1>1, <1>6 DEF Finished
<1> QED BY <1>1, <1>2, <1>3, <1>4, <1>5, <1>6 DEF Next, Step

\* Every step keeps what the results say.
LEMMA NextResults == TypeOK /\ Working /\ Results /\ [Next]_vars => Results'
<1> SUFFICES ASSUME TypeOK, Working, Results, [Next]_vars PROVE Results'
  OBVIOUS
<1>0. Failed => Failed'
  BY FailedStays
<1> SUFFICES ASSUME NEW u \in Threads
             PROVE  /\ pc'[u] \in {"alone", "copy"} => ok'[u]
                    /\ pc'[u] = "unlock" /\ ok'[u] => Holds(mutex', u)
                    /\ pc'[u] \in {"idle", "unlock", "shut_lock", "shut_notify", "shut_unlock"} =>
                         IF ok'[u] THEN done'[u] = nbytes'[u] ELSE Failed'
  BY DEF Results, Holds
<1> DEFINE Goal == /\ pc'[u] \in {"alone", "copy"} => ok'[u]
                   /\ pc'[u] = "unlock" /\ ok'[u] => Holds(mutex', u)
                   /\ pc'[u] \in {"idle", "unlock", "shut_lock", "shut_notify", "shut_unlock"} =>
                        IF ok'[u] THEN done'[u] = nbytes'[u] ELSE Failed'
<1>u. /\ pc[u] \in {"alone", "copy"} => ok[u]
      /\ pc[u] = "unlock" /\ ok[u] => Holds(mutex, u)
      /\ pc[u] \in {"idle", "unlock", "shut_lock", "shut_notify", "shut_unlock"} =>
           IF ok[u] THEN done[u] = nbytes[u] ELSE Failed
  BY DEF Results
<1>t. /\ pc \in [Threads -> PCs] /\ ok \in [Threads -> BOOLEAN] /\ mutex \in Mutexes(Threads)
      /\ done \in [Threads -> Nat] /\ nbytes \in [Threads -> Nat] /\ NoThread \notin Threads
      /\ done[u] <= nbytes[u]
  BY ThreadsAssumption DEF TypeOK
<1>1. CASE UNCHANGED vars
  BY <1>0, <1>1, <1>u DEF vars, call
<1>2. ASSUME NEW t \in Threads, Call(t) PROVE Goal
  <2>1. CASE u = t
    BY <1>2, <1>t, <2>1 DEF Call, Goto, Failed
  <2>2. CASE u # t
    BY <1>0, <1>2, <1>t, <1>u, <2>2 DEF Call, Goto
  <2> QED BY <2>1, <2>2
<1>3. ASSUME NEW t \in Threads, Lock(t) \/ Wake(t) PROVE Goal
  <2>1. /\ Available(mutex) /\ mutex' = Locked(mutex, t) /\ ok' = [ok EXCEPT ![t] = Proceed]
        /\ UNCHANGED <<done, nbytes, terminating>>
    BY <1>3 DEF Lock, Wake, Acquire, call
  <2>2. CASE u = t
    <3>1. /\ ok'[u] <=> Proceed
          /\ pc'[u] \in {"alone", "copy"} => Proceed
          /\ pc'[u] \in {"idle", "unlock", "shut_lock", "shut_notify", "shut_unlock"} => ~Proceed
      BY <1>3, <1>t, <2>1, <2>2 DEF Lock, Wake, Acquire, Goto, LoopOf
    <3>2. ~Proceed => Failed
      BY DEF Proceed, Failed
    <3> QED BY <1>0, <3>1, <3>2
  <2>3. CASE u # t
    <3>1. pc'[u] = pc[u] /\ ok'[u] = ok[u]
      BY <1>3, <1>t, <2>1, <2>3 DEF Lock, Wake, Acquire, Goto
    <3>2. ~Holds(mutex, u)
      BY <1>t, <2>1 DEF Available, Holds
    <3> QED BY <1>0, <1>u, <2>1, <3>1, <3>2
  <2> QED BY <2>2, <2>3
<1>4. ASSUME NEW t \in Threads, Alone(t) \/ WaitForRoom(t) PROVE Goal
  <2>1. /\ Holds(mutex, t) /\ pc[t] \in {"alone", "copy"} /\ UNCHANGED <<ok, done, nbytes, terminating>>
        /\ \E l \in {"copy", "sleep_alone", "sleep_ready"} : pc' = [pc EXCEPT ![t] = l]
    BY <1>4 DEF Alone, WaitForRoom, Owns, Sleep, Goto, call
  <2>2. CASE u = t
    BY <1>t, <1>u, <2>1, <2>2
  <2>3. CASE u # t
    BY <1>0, <1>t, <1>u, <2>1, <2>3 DEF Holds
  <2> QED BY <2>2, <2>3
<1>5. ASSUME NEW t \in Threads, Copy(t) PROVE Goal
  <2>1. /\ pc[t] = "copy" /\ UNCHANGED <<pc, ok, nbytes, mutex, terminating>>
        /\ u # t => done'[u] = done[u]
    BY <1>5, <1>t DEF Copy, Owns, Move
  <2> QED BY <1>0, <1>u, <2>1
<1>6. ASSUME NEW t \in Threads, Finish(t) PROVE Goal
  <2>1. /\ pc[t] = "copy" /\ Holds(mutex, t) /\ done[t] >= nbytes[t] /\ pc' = [pc EXCEPT ![t] = "unlock"]
        /\ UNCHANGED <<ok, done, nbytes, mutex, terminating>>
    BY <1>6 DEF Finish, Owns, Goto, call
  <2>2. CASE u = t
    BY <1>t, <1>u, <2>1, <2>2
  <2>3. CASE u # t
    BY <1>0, <1>t, <1>u, <2>1, <2>3
  <2> QED BY <2>2, <2>3
<1>7. ASSUME NEW t \in Threads, Unlock(t) PROVE Goal
  <2>1. /\ pc[t] = "unlock" /\ pc' = [pc EXCEPT ![t] = "idle"] /\ mutex' = Unlocked(mutex, t)
        /\ ok' = [ok EXCEPT ![t] = ok[t] /\ Holds(mutex, t)] /\ UNCHANGED <<done, nbytes, terminating>>
    BY <1>7 DEF Unlock, Goto, call
  <2>2. CASE u = t
    <3>1. ok'[u] <=> ok[u]
      BY <1>t, <1>u, <2>1, <2>2
    <3> QED BY <1>0, <1>t, <1>u, <2>1, <2>2, <3>1
  <2>3. CASE u # t
    <3>1. pc'[u] = pc[u] /\ ok'[u] = ok[u]
      BY <1>t, <2>1, <2>3
    <3>2. Holds(mutex, u) => Holds(mutex', u)
      BY <2>1, <2>3 DEF Holds, Unlocked
    <3> QED BY <1>0, <1>u, <2>1, <3>1, <3>2
  <2> QED BY <2>2, <2>3
<1>8. ASSUME NEW t \in Threads, ShutdownCall(t) \/ ShutdownLock(t) \/ ShutdownNotify(t) \/ ShutdownUnlock(t) PROVE Goal
  <2>1. /\ pc[t] \in {"idle", "shut_lock", "shut_notify", "shut_unlock"}
        /\ \E l \in {"idle", "shut_lock", "shut_notify", "shut_unlock"} : pc' = [pc EXCEPT ![t] = l]
        /\ UNCHANGED <<ok, done, nbytes>>
    BY <1>8 DEF ShutdownCall, ShutdownLock, ShutdownNotify, ShutdownUnlock, Goto, call
  <2>2. u # t /\ Holds(mutex, u) => Holds(mutex', u)
    BY <1>8, <1>t DEF ShutdownCall, ShutdownLock, ShutdownNotify, ShutdownUnlock, Available, Locked, Unlocked, Holds
  <2>3. CASE u = t
    BY <1>0, <1>t, <1>u, <2>1, <2>3
  <2>4. CASE u # t
    <3>1. pc'[u] = pc[u]
      BY <1>t, <2>1, <2>4
    <3> QED BY <1>0, <1>u, <2>1, <2>2, <2>4, <3>1
  <2> QED BY <2>3, <2>4
<1>9. ASSUME NEW t \in Threads, Spurious(t) PROVE Goal
  BY <1>0, <1>9, <1>u DEF Spurious, call
<1>10. ASSUME NEW S \in Mortal, Die(S) PROVE Goal
  <2>1. /\ pc'[u] = (IF u \in S THEN "dead" ELSE pc[u]) /\ UNCHANGED <<ok, done, nbytes>>
        /\ mutex' = OwnerDied(mutex, S)
    BY <1>10 DEF Die, call
  <2>2. u \notin S /\ Holds(mutex, u) => Holds(mutex', u)
    BY <2>1 DEF OwnerDied, Holds
  <2> QED BY <1>0, <1>u, <2>1, <2>2
<1>11. CASE Finished
  BY <1>1, <1>11 DEF Finished
<1> HIDE DEF Goal
<1>12. Goal
  BY <1>1, <1>2, <1>3, <1>4, <1>5, <1>6, <1>7, <1>8, <1>9, <1>10, <1>11 DEF Next, Step, Goal
<1> QED BY <1>12 DEF Goal

\* sd_write and sd_read return true only when all bytes were moved, and false
\* only when the domain was shut down or somebody died inside: a thread that
\* waits while the world changes is never told otherwise.
THEOREM ResultsAreRight == Spec => []ResultIsRight
<1>1. Init => TypeOK /\ Working /\ Results
  BY InitType DEF Init, Working, Results
<1>2. Results => ResultIsRight
  BY DEF Results, Failed, ResultIsRight
<1> QED BY <1>1, <1>2, NextType, NextWorking, NextResults, PTL DEF Spec
-----------------------------------------------------------------------------
(* Wakeups                                                                 *)

\* Who is enqueued at a condition variable sleeps there, or died in its sleep.
Sleepers == \A s \in Sides : \A t \in Threads :
    /\ t \in ready[s] => side[t] = s /\ pc[t] \in {"sleep_ready", "dead"}
    /\ t \in alone[s] => side[t] = s /\ pc[t] \in {"sleep_alone", "dead"}

\* Only a death makes the mutex inconsistent.
HealthyMutex == NobodyDied => mutex.state = "consistent"

\* The dead stay dead.
LEMMA DeadStay == ASSUME TypeOK, [Next]_vars, NobodyDied' PROVE NobodyDied
<1> SUFFICES ASSUME NEW u \in Threads, pc[u] = "dead" PROVE pc'[u] = "dead"
  BY DEF NobodyDied
<1>t. pc \in [Threads -> PCs]
  BY DEF TypeOK
<1> USE DEF Goto, Sleep, Owns
<1>1. CASE UNCHANGED vars
  BY <1>1 DEF vars
<1>2. ASSUME NEW t \in Threads, Step(t) PROVE pc'[u] = "dead"
  <2>1. pc[t] # "dead" /\ (pc' = pc \/ \E l : pc' = [pc EXCEPT ![t] = l])
    BY <1>2 DEF Step, Call, Lock, Wake, Acquire, Alone, WaitForRoom, Copy, Finish, Unlock,
       ShutdownLock, ShutdownNotify, ShutdownUnlock
  <2> QED BY <1>t, <2>1
<1>3. ASSUME NEW t \in Threads, ShutdownCall(t) \/ Spurious(t) PROVE pc'[u] = "dead"
  BY <1>t, <1>3 DEF ShutdownCall, Spurious
<1>4. ASSUME NEW S \in Mortal, Die(S) PROVE pc'[u] = "dead"
  BY <1>4 DEF Die
<1>5. CASE Finished
  BY <1>1, <1>5 DEF Finished
<1> QED BY <1>1, <1>2, <1>3, <1>4, <1>5 DEF Next

\* Without deaths the mutex stays consistent.
LEMMA NextHealthy == TypeOK /\ HealthyMutex /\ [Next]_vars => HealthyMutex'
<1> SUFFICES ASSUME TypeOK, HealthyMutex, [Next]_vars, NobodyDied' PROVE mutex'.state = "consistent"
  BY DEF HealthyMutex
<1>0. mutex.state = "consistent" /\ mutex \in Mutexes(Threads)
  BY DeadStay DEF HealthyMutex, TypeOK
<1> USE <1>0 DEF Mutexes, Locked, Unlocked, Holds, Sleep
<1>1. CASE UNCHANGED vars
  BY <1>1 DEF vars
<1>2. ASSUME NEW t \in Threads, Call(t) \/ Copy(t) \/ Finish(t) \/ ShutdownNotify(t) \/ ShutdownCall(t) \/ Spurious(t)
      PROVE  mutex'.state = "consistent"
  BY <1>2 DEF Call, Copy, Finish, ShutdownNotify, ShutdownCall, Spurious
<1>3. ASSUME NEW t \in Threads, Lock(t) \/ Wake(t) \/ ShutdownLock(t) PROVE mutex'.state = "consistent"
  BY <1>3 DEF Lock, Wake, ShutdownLock, Acquire
<1>4. ASSUME NEW t \in Threads, Alone(t) \/ WaitForRoom(t) \/ Unlock(t) \/ ShutdownUnlock(t)
      PROVE  mutex'.state = "consistent"
  BY <1>4 DEF Alone, WaitForRoom, Unlock, ShutdownUnlock
<1>5. ASSUME NEW S \in Mortal, Die(S) PROVE mutex'.state = "consistent"
  <2>1. PICK t \in S : pc[t] # "dead"
    BY <1>5 DEF Die
  <2>2. t \in Threads
    BY <2>1, ThreadsAssumption
  <2>3. pc'[t] = "dead"
    BY <1>5, <2>1, <2>2 DEF Die
  <2> QED BY <2>2, <2>3 DEF NobodyDied
<1>6. CASE Finished
  BY <1>1, <1>6 DEF Finished
<1> QED BY <1>1, <1>2, <1>3, <1>4, <1>5, <1>6 DEF Next, Step

\* Who is enqueued stays asleep.
LEMMA NextSleepers == TypeOK /\ Sleepers /\ [Next]_vars => Sleepers'
<1> SUFFICES ASSUME TypeOK, Sleepers, [Next]_vars, NEW s \in Sides, NEW u \in Threads
             PROVE  /\ u \in ready'[s] => side'[u] = s /\ pc'[u] \in {"sleep_ready", "dead"}
                    /\ u \in alone'[s] => side'[u] = s /\ pc'[u] \in {"sleep_alone", "dead"}
  BY DEF Sleepers
<1> DEFINE Goal == /\ u \in ready'[s] => side'[u] = s /\ pc'[u] \in {"sleep_ready", "dead"}
                   /\ u \in alone'[s] => side'[u] = s /\ pc'[u] \in {"sleep_alone", "dead"}
<1>u. /\ u \in ready[s] => side[u] = s /\ pc[u] \in {"sleep_ready", "dead"}
      /\ u \in alone[s] => side[u] = s /\ pc[u] \in {"sleep_alone", "dead"}
  BY DEF Sleepers
<1>t. /\ pc \in [Threads -> PCs] /\ side \in [Threads -> Sides]
      /\ ready \in [Sides -> SUBSET Threads] /\ alone \in [Sides -> SUBSET Threads]
  BY DEF TypeOK
<1> USE <1>t, <1>u DEF Goto, Sleep, Owns, call
<1>1. CASE UNCHANGED vars
  BY <1>1 DEF vars
<1>2. ASSUME NEW t \in Threads, Call(t) PROVE Goal
  BY <1>2 DEF Call
<1>3. ASSUME NEW t \in Threads, Lock(t) PROVE Goal
  BY <1>3 DEF Lock, Acquire
<1>4. ASSUME NEW t \in Threads, Wake(t) PROVE Goal
  BY <1>4 DEF Wake, Acquire, Asleep
<1>5. ASSUME NEW t \in Threads, Alone(t) PROVE Goal
  <2>1. pc[t] = "alone" /\ UNCHANGED <<side, ready>>
    BY <1>5 DEF Alone
  <2>2. \/ /\ pc' = [pc EXCEPT ![t] = "sleep_alone"] /\ alone' = [alone EXCEPT ![side[t]] = alone[side[t]] \cup {t}]
        \/ pc' = [pc EXCEPT ![t] = "copy"] /\ alone' = alone
    BY <1>5 DEF Alone
  <2> QED BY <2>1, <2>2
<1>6. ASSUME NEW t \in Threads, WaitForRoom(t) PROVE Goal
  BY <1>6 DEF WaitForRoom
<1>7. ASSUME NEW t \in Threads, Copy(t) PROVE Goal
  <2>1. PICK left \in NotifyOne(ready[Other(side[t])]) : ready' = [ready EXCEPT ![Other(side[t])] = left]
    BY <1>7 DEF Copy
  <2>2. left \subseteq ready[Other(side[t])] /\ UNCHANGED <<alone, pc, side>>
    BY <1>7, <2>1 DEF NotifyOne, Copy
  <2> QED BY <2>1, <2>2
<1>8. ASSUME NEW t \in Threads, Finish(t) PROVE Goal
  <2>1. PICK left \in NotifyOne(alone[side[t]]) : alone' = [alone EXCEPT ![side[t]] = left]
    BY <1>8 DEF Finish
  <2>2. /\ left \subseteq alone[side[t]] /\ UNCHANGED <<ready, side>>
        /\ pc[t] = "copy" /\ pc' = [pc EXCEPT ![t] = "unlock"]
    BY <1>8, <2>1 DEF NotifyOne, Finish
  <2> QED BY <2>1, <2>2
<1>9. ASSUME NEW t \in Threads, Unlock(t) PROVE Goal
  BY <1>9 DEF Unlock
<1>10. ASSUME NEW t \in Threads, ShutdownCall(t) \/ ShutdownLock(t) \/ ShutdownUnlock(t) PROVE Goal
  BY <1>10 DEF ShutdownCall, ShutdownLock, ShutdownUnlock
<1>11. ASSUME NEW t \in Threads, ShutdownNotify(t) PROVE Goal
  BY <1>11 DEF ShutdownNotify
<1>12. ASSUME NEW t \in Threads, Spurious(t) PROVE Goal
  BY <1>12 DEF Spurious
<1>13. ASSUME NEW S \in Mortal, Die(S) PROVE Goal
  BY <1>13 DEF Die
<1>14. CASE Finished
  BY <1>1, <1>14 DEF Finished
<1> HIDE DEF Goal
<1>15. Goal
  BY <1>1, <1>2, <1>3, <1>4, <1>5, <1>6, <1>7, <1>8, <1>9, <1>10, <1>11, <1>12, <1>13, <1>14 DEF Next, Step, Goal
<1> QED BY <1>15 DEF Goal

\* The inductive invariant that keeps wakeups from being lost
WakeInv == MixInv /\ Sleepers /\ HealthyMutex /\ NoLostWakeup

\* Only the thread whose turn it is sleeps for room, so that one notification
\* is enough, and it does not sleep while it copies.
LEMMA OneSleepsForRoom ==
  ASSUME WakeInv, NobodyDied, NEW s \in Sides
  PROVE  \A t, u \in Threads : t \in ready[s] /\ HasTurn(u, s) => u = t /\ pc[u] = "sleep_ready"
<1> SUFFICES ASSUME NEW t \in Threads, NEW u \in Threads, t \in ready[s], HasTurn(u, s)
             PROVE  u = t /\ pc[u] = "sleep_ready"
  OBVIOUS
<1>1. side[t] = s /\ pc[t] = "sleep_ready"
  BY DEF WakeInv, Sleepers, NobodyDied
<1>2. u = t
  BY <1>1 DEF WakeInv, MixInv, Turns, HasTurn
<1> QED BY <1>1, <1>2

\* Nobody sleeps for room that is there.
LEMMA NextReady ==
  ASSUME WakeInv, [Next]_vars, NobodyDied', NEW s \in Sides, ready'[s] # {}
  PROVE  Room(s)' = 0 \/ terminating'
<1>0. NobodyDied /\ ready \in [Sides -> SUBSET Threads] /\ s \in Sides
  BY DeadStay DEF WakeInv, MixInv, TypeOK
<1>1. ready[s] # {} => Room(s) = 0 \/ terminating
  BY <1>0 DEF WakeInv, NoLostWakeup
<1> USE DEF ring, call
<1>2. ASSUME ready'[s] \subseteq ready[s], filled' = filled, terminating => terminating'
      PROVE  Room(s)' = 0 \/ terminating'
  BY <1>1, <1>2 DEF Room
<1>3. CASE UNCHANGED vars
  BY <1>2, <1>3 DEF vars
<1>4. ASSUME NEW t \in Threads, Call(t) \/ Lock(t) \/ Wake(t) \/ Alone(t) \/ Finish(t) \/ Unlock(t)
                                \/ ShutdownCall(t) \/ ShutdownLock(t) \/ ShutdownUnlock(t)
      PROVE  Room(s)' = 0 \/ terminating'
  BY <1>2, <1>4 DEF Call, Lock, Wake, Acquire, Alone, Finish, Unlock, ShutdownCall, ShutdownLock, ShutdownUnlock
<1>5. ASSUME NEW t \in Threads, ShutdownNotify(t) \/ Spurious(t) PROVE Room(s)' = 0 \/ terminating'
  BY <1>2, <1>5 DEF ShutdownNotify, Spurious
<1>6. ASSUME NEW t \in Threads, WaitForRoom(t) PROVE Room(s)' = 0 \/ terminating'
  <2>1. /\ ready' = [ready EXCEPT ![side[t]] = ready[side[t]] \cup {t}] /\ UNCHANGED <<filled, terminating>>
        /\ Room(side[t]) = 0
    BY <1>6 DEF WaitForRoom
  <2>2. CASE side[t] = s
    BY <2>1, <2>2 DEF Room
  <2>3. CASE side[t] # s
    BY <1>0, <1>2, <2>1, <2>3
  <2> QED BY <2>2, <2>3
<1>7. ASSUME NEW t \in Threads, Copy(t) PROVE FALSE
  <2>1. PICK left \in NotifyOne(ready[Other(side[t])]) : ready' = [ready EXCEPT ![Other(side[t])] = left]
    BY <1>7 DEF Copy
  <2>2. side[t] \in Sides /\ HasTurn(t, side[t]) /\ pc[t] = "copy"
    BY <1>7 DEF Copy, Owns, HasTurn, WakeInv, MixInv, TypeOK
  <2>3. CASE s = side[t]
    <3>1. ready'[s] = ready[s]
      BY <1>0, <2>1, <2>3 DEF Other, Sides
    <3>2. PICK v \in Threads : v \in ready[s]
      BY <1>0, <3>1
    <3> QED BY <1>0, <2>2, <2>3, <3>2, OneSleepsForRoom
  <2>4. CASE s # side[t]
    <3>1. s = Other(side[t])
      BY <2>2, <2>4 DEF Other, Sides
    <3>2. ready'[s] = left /\ left \in NotifyOne(ready[s])
      BY <1>0, <2>1, <3>1
    <3>3. PICK v \in ready[s] : left = ready[s] \ {v}
      BY <3>2 DEF NotifyOne
    <3>4. PICK w \in ready[s] : w # v
      BY <3>2, <3>3
    <3>5. v \in Threads /\ w \in Threads /\ HasTurn(w, s)
      BY <1>0, <3>3, <3>4 DEF WakeInv, Sleepers, NobodyDied, HasTurn
    <3> QED BY <1>0, <3>3, <3>4, <3>5, OneSleepsForRoom
  <2> QED BY <2>3, <2>4
<1>8. ASSUME NEW S \in Mortal, Die(S) PROVE Room(s)' = 0 \/ terminating'
  BY <1>2, <1>8 DEF Die
<1>9. CASE Finished
  BY <1>3, <1>9 DEF Finished
<1> QED BY <1>3, <1>4, <1>5, <1>6, <1>7, <1>8, <1>9 DEF Next, Step

\* Somebody is going to look at the flag of side s.
Promised(s) == \E t \in Threads : side[t] = s /\ ~Asleep(t) /\ pc[t] \in {"sleep_alone", "alone"}

\* Nobody sleeps for a turn that nobody has and nobody is about to take.
LEMMA NextAlone ==
  ASSUME WakeInv, [Next]_vars, NobodyDied', NEW s \in Sides, alone'[s] # {}
  PROVE  busy'[s] \/ terminating' \/ Promised(s)'
<1> DEFINE Goal == busy'[s] \/ terminating' \/ Promised(s)'
<1>0. /\ NobodyDied /\ alone \in [Sides -> SUBSET Threads] /\ ready \in [Sides -> SUBSET Threads]
      /\ pc \in [Threads -> PCs] /\ side \in [Threads -> Sides] /\ busy \in [Sides -> BOOLEAN]
  BY DeadStay DEF WakeInv, MixInv, TypeOK
<1>1. alone[s] # {} => busy[s] \/ terminating \/ Promised(s)
  BY <1>0 DEF WakeInv, NoLostWakeup, Promised
<1>2. mutex.state = "consistent"
  BY <1>0 DEF WakeInv, HealthyMutex
<1>3. \A z \in Sides : \A t \in Threads :
        /\ t \in ready[z] => side[t] = z /\ pc[t] = "sleep_ready"
        /\ t \in alone[z] => side[t] = z /\ pc[t] = "sleep_alone"
  BY <1>0 DEF WakeInv, Sleepers, NobodyDied
<1> USE DEF ring, call, Goto, Owns, Sleep
\* A step that neither wakes nor sends to sleep a thread that looks at the flag
<1>4. ASSUME alone'[s] \subseteq alone[s], busy[s] => busy'[s], terminating => terminating',
             \A t \in Threads : side[t] = s /\ ~Asleep(t) /\ pc[t] \in {"sleep_alone", "alone"} =>
               side'[t] = s /\ ~Asleep(t)' /\ pc'[t] \in {"sleep_alone", "alone"}
      PROVE  Goal
  <2>1. busy[s] \/ terminating \/ Promised(s)
    BY <1>1, <1>4
  <2>2. Promised(s) => Promised(s)'
    BY <1>4 DEF Promised
  <2> QED BY <1>4, <2>1, <2>2
<1>5. CASE UNCHANGED vars
  BY <1>4, <1>5 DEF vars, Asleep
<1>6. ASSUME NEW t \in Threads, Call(t) PROVE Goal
  BY <1>0, <1>4, <1>6 DEF Call, Asleep
<1>7. ASSUME NEW t \in Threads, Lock(t) PROVE Goal
  BY <1>0, <1>4, <1>7 DEF Lock, Acquire, Asleep
<1>8. ASSUME NEW t \in Threads, Wake(t) PROVE Goal
  <2>1. CASE terminating
    BY <1>8, <2>1 DEF Wake, Acquire
  <2>2. CASE ~terminating
    <3>1. Proceed
      BY <1>2, <2>2 DEF Proceed
    <3>2. /\ UNCHANGED <<ready, alone, busy, terminating, side>> /\ pc' = [pc EXCEPT ![t] = LoopOf(pc[t])]
      BY <1>8, <3>1 DEF Wake, Acquire
    <3>3. \A v \in Threads : pc[v] = "sleep_alone" \/ pc[v] = "alone" => pc'[v] = "sleep_alone" \/ pc'[v] = "alone"
      <4> SUFFICES ASSUME NEW v \in Threads, pc[v] = "sleep_alone" \/ pc[v] = "alone"
                   PROVE  pc'[v] = "sleep_alone" \/ pc'[v] = "alone"
        OBVIOUS
      <4>1. CASE v # t
        BY <1>0, <3>2, <4>1
      <4>2. CASE v = t
        <5>1. pc[t] = "sleep_alone"
          BY <1>8, <4>2 DEF Wake
        <5> QED BY <1>0, <3>2, <4>2, <5>1 DEF LoopOf
      <4> QED BY <4>1, <4>2
    <3>4. \A v \in Threads : ~Asleep(v) => ~Asleep(v)'
      BY <3>2 DEF Asleep
    <3> QED BY <1>4, <3>2, <3>3, <3>4
  <2> QED BY <2>1, <2>2
<1>9. ASSUME NEW t \in Threads, Alone(t) PROVE Goal
  <2>1. CASE side[t] = s
    <3>1. busy'[s]
      <4>1. CASE busy[s]
        BY <1>9, <2>1, <4>1 DEF Alone
      <4>2. CASE ~busy[s]
        <5>1. busy' = [busy EXCEPT ![s] = TRUE]
          BY <1>9, <2>1, <4>2 DEF Alone
        <5> QED BY <1>0, <5>1
      <4> QED BY <4>1, <4>2
    <3> QED BY <3>1
  <2>2. CASE side[t] # s
    <3>1. /\ UNCHANGED <<ready, side, terminating>>
          /\ \E l : pc' = [pc EXCEPT ![t] = l]
          /\ \/ busy' = busy /\ alone' = [alone EXCEPT ![side[t]] = alone[side[t]] \cup {t}]
             \/ busy' = [busy EXCEPT ![side[t]] = TRUE] /\ alone' = alone
      BY <1>9 DEF Alone
    <3>2. busy'[s] = busy[s] /\ alone'[s] = alone[s]
      BY <1>0, <2>2, <3>1
    <3>3. \A v \in Threads : v # t => pc'[v] = pc[v] /\ (Asleep(v)' <=> Asleep(v))
      BY <1>0, <3>1 DEF Asleep
    <3> QED BY <1>4, <2>2, <3>1, <3>2, <3>3
  <2> QED BY <2>1, <2>2
<1>10. ASSUME NEW t \in Threads, WaitForRoom(t) PROVE Goal
  <2>1. /\ pc[t] = "copy" /\ pc' = [pc EXCEPT ![t] = "sleep_ready"] /\ UNCHANGED <<alone, busy, terminating, side>>
        /\ ready' = [ready EXCEPT ![side[t]] = ready[side[t]] \cup {t}]
    BY <1>10 DEF WaitForRoom
  <2>2. \A v \in Threads : v # t => pc'[v] = pc[v] /\ (Asleep(v)' <=> Asleep(v))
    BY <1>0, <2>1 DEF Asleep
  <2> QED BY <1>4, <2>1, <2>2
<1>11. ASSUME NEW t \in Threads, Copy(t) PROVE Goal
  <2>1. PICK left \in NotifyOne(ready[Other(side[t])]) : ready' = [ready EXCEPT ![Other(side[t])] = left]
    BY <1>11 DEF Copy
  <2>2. left \subseteq ready[Other(side[t])] /\ UNCHANGED <<alone, busy, terminating, pc, side>>
    BY <1>11, <2>1 DEF NotifyOne, Copy
  <2>3. \A v \in Threads : ~Asleep(v) => ~Asleep(v)'
    BY <1>0, <2>1, <2>2 DEF Asleep
  <2> QED BY <1>4, <2>2, <2>3
<1>12. ASSUME NEW t \in Threads, Finish(t) PROVE Goal
  <2>1. PICK left \in NotifyOne(alone[side[t]]) : alone' = [alone EXCEPT ![side[t]] = left]
    BY <1>12 DEF Finish
  <2>2. /\ left \subseteq alone[side[t]] /\ UNCHANGED <<ready, terminating, side>> /\ side[t] \in Sides
        /\ pc[t] = "copy" /\ pc' = [pc EXCEPT ![t] = "unlock"] /\ busy' = [busy EXCEPT ![side[t]] = FALSE]
    BY <1>0, <1>12, <2>1 DEF NotifyOne, Finish
  <2>3. CASE side[t] = s
    <3>1. alone'[s] = left /\ left \in NotifyOne(alone[s])
      BY <1>0, <2>1, <2>3
    <3>2. PICK v \in alone[s] : left = alone[s] \ {v}
      BY <3>1 DEF NotifyOne
    <3>3. v \in Threads /\ side[v] = s /\ pc[v] = "sleep_alone" /\ v # t
      BY <1>0, <1>3, <2>2, <3>2
    <3>4. ~Asleep(v)'
      <4>1. \A z \in Sides : v \notin ready'[z]
        BY <1>3, <2>2, <3>3
      <4>2. \A z \in Sides : v \notin alone'[z]
        BY <1>0, <1>3, <2>1, <2>3, <3>2, <3>3
      <4> QED BY <4>1, <4>2 DEF Asleep
    <3>5. side'[v] = s /\ pc'[v] = "sleep_alone"
      BY <1>0, <2>2, <3>3
    <3> QED BY <3>3, <3>4, <3>5 DEF Promised
  <2>4. CASE side[t] # s
    <3>1. alone'[s] = alone[s] /\ busy'[s] = busy[s]
      BY <1>0, <2>1, <2>2, <2>4
    <3>2. \A v \in Threads : ~Asleep(v) => ~Asleep(v)'
      BY <1>0, <2>1, <2>2 DEF Asleep
    <3>3. \A v \in Threads : v # t => pc'[v] = pc[v]
      BY <1>0, <2>2
    <3> QED BY <1>4, <2>2, <2>4, <3>1, <3>2, <3>3
  <2> QED BY <2>3, <2>4
<1>13. ASSUME NEW t \in Threads, Unlock(t) PROVE Goal
  BY <1>0, <1>4, <1>13 DEF Unlock, Asleep
<1>14. ASSUME NEW t \in Threads, ShutdownCall(t) \/ ShutdownLock(t) \/ ShutdownUnlock(t) PROVE Goal
  BY <1>0, <1>4, <1>14 DEF ShutdownCall, ShutdownLock, ShutdownUnlock, Asleep
<1>15. ASSUME NEW t \in Threads, ShutdownNotify(t) PROVE Goal
  BY <1>15 DEF ShutdownNotify
<1>16. ASSUME NEW t \in Threads, Spurious(t) PROVE Goal
  BY <1>0, <1>4, <1>16 DEF Spurious, Asleep
<1>17. ASSUME NEW S \in Mortal, Die(S) PROVE Goal
  <2>1. PICK t \in S : pc[t] # "dead"
    BY <1>17 DEF Die
  <2>2. t \in Threads
    BY <2>1, ThreadsAssumption
  <2>3. pc'[t] = "dead"
    BY <1>17, <2>1, <2>2 DEF Die
  <2> QED BY <2>2, <2>3 DEF NobodyDied
<1>18. CASE Finished
  BY <1>5, <1>18 DEF Finished
<1> HIDE DEF Goal
<1>19. Goal
  BY <1>5, <1>6, <1>7, <1>8, <1>9, <1>10, <1>11, <1>12, <1>13, <1>14, <1>15, <1>16, <1>17, <1>18
  DEF Next, Step, Goal
<1> QED BY <1>19 DEF Goal

\* As long as nobody dies no notification of sd_write, sd_read or sd_shutdown
\* is lost: shared_cv_notify_one reaches the one thread that waits for room,
\* and the turn is offered to somebody who will take it.
THEOREM WakeupsArrive == Spec => []NoLostWakeup
<1>1. Init => WakeInv
  <2> SUFFICES ASSUME Init PROVE Sleepers /\ HealthyMutex /\ NoLostWakeup
    BY InitMix DEF WakeInv
  <2> QED BY DEF Init, Sleepers, HealthyMutex, NoLostWakeup, NewMutex
<1>2. WakeInv /\ [Next]_vars => WakeInv'
  <2> SUFFICES ASSUME WakeInv, [Next]_vars PROVE WakeInv'
    OBVIOUS
  <2>1. MixInv' /\ Sleepers' /\ HealthyMutex'
    BY NextMix, NextSleepers, NextHealthy DEF WakeInv, MixInv
  <2>2. NoLostWakeup'
    BY NextReady, NextAlone DEF NoLostWakeup, Promised
  <2> QED BY <2>1, <2>2 DEF WakeInv
<1>3. WakeInv => NoLostWakeup
  BY DEF WakeInv
<1> QED BY <1>1, <1>2, <1>3, PTL DEF Spec
-----------------------------------------------------------------------------
(* The ring as a queue.  Seen through the mapping of ByteQueue a chunk is  *)
(* one step of the queue, and all other steps leave the queue alone.       *)

Data == Bytes \cup {NoByte}

\* A stretch of a sequence is known by its length and its members.
LEMMA SubSeqIs ==
  ASSUME NEW S, NEW s \in Seq(S), NEW u \in Seq(S), NEW m \in Nat \ {0}, NEW n \in Nat,
         n <= Len(s), m <= n + 1, Len(u) = n - m + 1,
         \A k \in 1 .. Len(u) : u[k] = s[m + k - 1]
  PROVE  SubSeq(s, m, n) = u
<1> DEFINE v == SubSeq(s, m, n)
<1>1. Len(s) \in Nat /\ m \in Int /\ n \in Int
  BY LenProperties
<1>2. \A k \in m .. n : k \in 1 .. Len(s)
  BY <1>1
<1>3. \A k \in m .. n : s[k] \in S
  BY <1>2, ElementOfSeq
<1>4. /\ v \in Seq(S) /\ Len(v) = (IF m <= n THEN n - m + 1 ELSE 0)
      /\ \A k \in 1 .. n - m + 1 : v[k] = s[m + k - 1]
  BY <1>1, <1>3, SubSeqProperties
<1> HIDE DEF v
<1>5. Len(v) = Len(u)
  BY <1>4
<1>6. \A k \in 1 .. Len(v) : v[k] = u[k]
  BY <1>4, <1>5
<1>7. v = u
  BY <1>4, <1>5, <1>6, SeqEqual
<1> QED BY <1>7 DEF v

\* The bytes in the ring are the stretch of the stream that was not read yet.
PendingIsRest ==
    /\ Pending \in Seq(Data) /\ Len(Pending) = filled
    /\ \A k \in 1 .. filled : Pending[k] = xfer["write"][Len(got) + k]

\* That is what RingHoldsTheRest says of them, counted from 1.
LEMMA RestIsPending == StreamInv => PendingIsRest
<1> SUFFICES ASSUME StreamInv PROVE PendingIsRest
  OBVIOUS
<1> DEFINE r == index["read"]
<1>1. /\ r \in 0 .. BufSize - 1 /\ filled \in 0 .. BufSize /\ Len(got) \in Nat
      /\ mem \in [0 .. BufSize - 1 -> Data]
  BY LenProperties DEF StreamInv, TypeOK, Sides, Data
<1>2. \A i \in 0 .. filled - 1 : mem[Wrap(r + i)] = xfer["write"][Len(got) + 1 + i]
  BY DEF StreamInv, RingHoldsTheRest
<1> HIDE DEF r
<1>3. \A k \in 1 .. filled : Wrap(r + k - 1) \in 0 .. BufSize - 1
  BY <1>1, BufSizeAssumption DEF Wrap
<1>4. Pending \in [1 .. filled -> Data]
  BY <1>1, <1>3 DEF Pending, r
<1>5. Pending \in Seq(Data) /\ Len(Pending) = filled
  <2>1. filled \in Nat
    BY <1>1
  <2> QED BY <1>4, <2>1, FunctionIsSeq
<1>6. ASSUME NEW k \in 1 .. filled PROVE Pending[k] = xfer["write"][Len(got) + k]
  <2>1. k - 1 \in 0 .. filled - 1 /\ r + (k - 1) = r + k - 1 /\ Len(got) + 1 + (k - 1) = Len(got) + k
    BY <1>1
  <2>2. mem[Wrap(r + k - 1)] = xfer["write"][Len(got) + k]
    BY <1>2, <2>1
  <2> QED BY <2>2 DEF Pending, r
<1> QED BY <1>5, <1>6 DEF PendingIsRest

\* The same of the state after a step
LEMMA RestIsPendingNext == StreamInv' => PendingIsRest'
  BY RestIsPending, PTL

\* A chunk of sd_write is a Put: it comes behind the bytes in the ring.
LEMMA WriteIsPut ==
  ASSUME StreamInv, StreamInv', NEW t \in Threads, Copy(t), side[t] = "write"
  PROVE  Queue!Put
<1> DEFINE c == Count(t)
           W == xfer["write"]
           ch == Chunk(t, c)
<1>1. PendingIsRest /\ PendingIsRest'
  BY RestIsPending, RestIsPendingNext
<1>2. /\ filled \in 0 .. BufSize /\ filled' \in 0 .. BufSize /\ Len(got) \in Nat
      /\ W \in Seq(Bytes) /\ Len(W) = Len(got) + filled /\ xfer \in [Sides -> Seq(Bytes)]
  BY LenProperties DEF StreamInv, TypeOK, Sides, StreamInOrder
<1>3. c \in Nat \ {0}
  BY CountIsRight DEF Copy, StreamInv, Room
<1>4. filled' = filled + c /\ got' = got /\ xfer' = [xfer EXCEPT !["write"] = W \o ch]
  BY DEF Copy, Move
<1>5. ch \in Seq(Bytes)
  BY <1>3, ChunkType DEF StreamInv
<1>6. xfer'["write"] = W \o ch
  BY <1>2, <1>4 DEF Sides
<1> HIDE DEF c, W, ch
<1>7. \A k \in 1 .. Len(W) : (W \o ch)[k] = W[k]
  BY <1>2, <1>5, ConcatProperties
<1>8. ASSUME NEW k \in 1 .. filled PROVE Pending'[k] = Pending[k]
  <2>1. k \in 1 .. filled' /\ Len(got) + k \in 1 .. Len(W)
    BY <1>2, <1>3, <1>4
  <2>2. Pending'[k] = (W \o ch)[Len(got) + k]
    BY <1>1, <1>4, <1>6, <2>1 DEF PendingIsRest
  <2>3. Pending[k] = W[Len(got) + k]
    BY <1>1 DEF PendingIsRest, W
  <2> QED BY <1>7, <2>1, <2>2, <2>3
<1>9. Pending \in Seq(Data) /\ Pending' \in Seq(Data) /\ Len(Pending) = filled /\ Len(Pending') = filled'
  BY <1>1 DEF PendingIsRest, Data, Bytes
<1>10. SubSeq(Pending', 1, Len(Pending)) = Pending
  <2>1. 1 \in Nat \ {0} /\ filled \in Nat /\ filled <= Len(Pending') /\ 1 <= filled + 1 /\ Len(Pending) = filled - 1 + 1
    BY <1>2, <1>3, <1>4, <1>9
  <2>2. ASSUME NEW k \in 1 .. Len(Pending) PROVE Pending[k] = Pending'[1 + k - 1]
    <3>1. k \in 1 .. filled /\ 1 + k - 1 = k
      BY <1>9, <2>1
    <3> QED BY <1>8, <3>1
  <2>3. SubSeq(Pending', 1, filled) = Pending
    BY <1>9, <2>1, <2>2, SubSeqIs
  <2> QED BY <1>9, <2>3
<1>11. Len(Pending') \in Len(Pending) + 1 .. BufSize
  BY <1>2, <1>3, <1>4, <1>9
<1> QED BY <1>4, <1>10, <1>11 DEF Queue!Put

\* A chunk of sd_read is a Get: it is the front of the queue.
LEMMA ReadIsGet ==
  ASSUME StreamInv, StreamInv', NEW t \in Threads, Copy(t), side[t] = "read"
  PROVE  Queue!Get
<1> DEFINE c == Count(t)
           r == index["read"]
           W == xfer["write"]
           out == [k \in 1 .. c |-> mem[r + k - 1]]
<1>1. PendingIsRest /\ PendingIsRest'
  BY RestIsPending, RestIsPendingNext
<1>2. /\ filled \in 0 .. BufSize /\ filled' \in 0 .. BufSize /\ Len(got) \in Nat /\ Len(got') \in Nat
      /\ r \in 0 .. BufSize - 1 /\ mem \in [0 .. BufSize - 1 -> Data]
      /\ Len(W) = Len(got) + filled /\ Len(xfer'["write"]) = Len(got') + filled'
      /\ xfer \in [Sides -> Seq(Bytes)]
  BY LenProperties DEF StreamInv, TypeOK, Sides, StreamInOrder, Data
<1>3. c \in Nat \ {0} /\ c <= filled /\ r + c <= BufSize
  BY CountIsRight DEF Copy, StreamInv, Room
<1>4. /\ filled' = filled - c /\ got' = got \o out
      /\ xfer' = [xfer EXCEPT !["read"] = xfer["read"] \o Chunk(t, c)]
  BY DEF Copy, Move
<1>5. xfer'["write"] = W
  BY <1>2, <1>4 DEF Sides
<1> HIDE DEF c, r, W
<1>6. Len(got') = Len(got) + c
  BY <1>2, <1>3, <1>4, <1>5
<1>7. Pending \in Seq(Data) /\ Pending' \in Seq(Data) /\ Len(Pending) = filled /\ Len(Pending') = filled'
  BY <1>1 DEF PendingIsRest, Data, Bytes
<1>8. SubSeq(Pending, 1, c) = out
  <2>1. \A k \in 1 .. c : k \in 1 .. filled /\ r + k - 1 \in 0 .. BufSize - 1
    BY <1>2, <1>3, BufSizeAssumption
  <2>2. out \in [1 .. c -> Data]
    BY <1>2, <2>1
  <2>3. out \in Seq(Data) /\ Len(out) = c
    BY <1>3, <2>2, FunctionIsSeq
  <2>4. ASSUME NEW k \in 1 .. c PROVE out[k] = Pending[1 + k - 1]
    <3>1. Wrap(r + k - 1) = r + k - 1 /\ 1 + k - 1 = k
      BY <1>2, <1>3, <2>1, BufSizeAssumption DEF Wrap
    <3>2. Pending[k] = mem[r + k - 1]
      BY <2>1, <3>1 DEF Pending, r
    <3> QED BY <3>1, <3>2
  <2> HIDE DEF out
  <2>5. 1 \in Nat \ {0} /\ c \in Nat /\ c <= Len(Pending) /\ 1 <= c + 1 /\ Len(out) = c - 1 + 1
    BY <1>3, <1>7, <2>3
  <2>6. \A k \in 1 .. Len(out) : out[k] = Pending[1 + k - 1]
    BY <2>3, <2>4
  <2> QED BY <1>7, <2>3, <2>5, <2>6, SubSeqIs
<1>9. SubSeq(Pending, c + 1, filled) = Pending'
  <2>1. /\ c + 1 \in Nat \ {0} /\ filled \in Nat /\ filled <= Len(Pending) /\ c + 1 <= filled + 1
        /\ Len(Pending') = filled - (c + 1) + 1
    BY <1>2, <1>3, <1>4, <1>7
  <2>2. ASSUME NEW k \in 1 .. Len(Pending') PROVE Pending'[k] = Pending[c + 1 + k - 1]
    <3>1. /\ k \in 1 .. filled' /\ c + 1 + k - 1 = c + k /\ c + k \in 1 .. filled
          /\ Len(got') + k = Len(got) + (c + k)
      BY <1>2, <1>3, <1>4, <1>6, <1>7
    <3>2. Pending'[k] = W[Len(got') + k]
      BY <1>1, <1>5, <3>1 DEF PendingIsRest
    <3>3. Pending[c + k] = W[Len(got) + (c + k)]
      BY <1>1, <3>1 DEF PendingIsRest, W
    <3> QED BY <3>1, <3>2, <3>3
  <2> QED BY <1>7, <2>1, <2>2, SubSeqIs
<1>10. c \in 1 .. Len(Pending)
  BY <1>2, <1>3, <1>7
<1>11. got' = got \o SubSeq(Pending, 1, c) /\ Pending' = SubSeq(Pending, c + 1, Len(Pending))
  BY <1>4, <1>7, <1>8, <1>9
<1> QED BY <1>10, <1>11 DEF Queue!Get

\* Every step of sd_write, sd_read, sd_shutdown and of the environment is a
\* step of the queue or leaves it alone.
LEMMA StepOfQueue ==
  ASSUME StreamInv, [Next]_vars
  PROVE  [Queue!Put \/ Queue!Get]_(Queue!qvars)
<1>1. StreamInv'
  BY NextStream
<1>2. ASSUME NEW t \in Threads, Copy(t) PROVE Queue!Put \/ Queue!Get
  <2>1. side[t] = "write" \/ side[t] = "read"
    BY DEF StreamInv, TypeOK, Sides
  <2> QED BY <1>1, <1>2, <2>1, WriteIsPut, ReadIsGet
<1>3. CASE ~ \E t \in Threads : Copy(t)
  <2>1. UNCHANGED <<filled, index, mem, xfer, got>>
    BY <1>3, OnlyCopyMoves
  <2>2. Pending' = Pending /\ got' = got
    BY <2>1 DEF Pending
  <2> QED BY <2>2 DEF Queue!qvars
<1> QED BY <1>2, <1>3

\* An initialized buffer is an empty queue.
LEMMA InitQueue == Init => Queue!Empty
<1> SUFFICES ASSUME Init PROVE Pending = << >> /\ got = << >>
  BY DEF Queue!Empty
<1>1. StreamInv /\ filled = 0 /\ got = << >>
  BY InitStream DEF Init
<1>2. Pending \in Seq(Data) /\ Len(Pending) = 0
  BY <1>1, RestIsPending DEF PendingIsRest
<1> QED BY <1>1, <1>2, EmptySeq

\* sd_write and sd_read implement a queue of at most bufsize bytes, whoever
\* calls them, waits, is killed or shuts the domain down.
THEOREM BufferImplementsQueue == Spec => ImplementsQueue
<1>1. StreamInv /\ [Next]_vars => StreamInv' /\ [Queue!Put \/ Queue!Get]_(Queue!qvars)
  BY NextStream, StepOfQueue
<1> QED BY InitStream, InitQueue, <1>1, PTL DEF Spec, ImplementsQueue, Queue!QueueSpec
=============================================================================
