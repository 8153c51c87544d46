---------------------------- MODULE SharedBuffer ----------------------------
(***************************************************************************)
(* One per-process buffer of a shared communication domain                 *)
(* (struct shared_mem_buffer of shared_domain.c) and the threads that call *)
(* sd_write and sd_read on it, with sd_shutdown and with processes that    *)
(* die.  sd_write and sd_read are mirror images: the model writes them     *)
(* once, for a side s that is "write" or "read".                           *)
(*                                                                         *)
(* A byte is identified by the call that sent it: byte number `off' of the *)
(* `of' bytes of a call of thread `thread'.                                *)
(***************************************************************************)
EXTENDS Integers, Sequences, FiniteSets, RobustMutex

CONSTANTS
    Threads,      \* all threads of all processes of the domain
    Creator,      \* the thread that called sd_setup: only it may shut down
    BufSize,      \* sd->bufsize
    Programs,     \* sets of calls the threads make: a function from threads
                  \* to sequences of requests [side, n]
    Mortal,       \* the sets of threads (processes) that may be killed
    MayShutdown,  \* whether Creator may call sd_shutdown
    MaxSpurious,  \* bound on the number of spurious wakeups
    NoByte        \* what the ring holds before anything was written

Sides == {"write", "read"}

\* Wrong on purpose: the own condition variable is notified.
OtherIsOwn(s) == s

\* The side whose condition variable is notified after a chunk.
Other(s) == IF s = "write" THEN "read" ELSE "write"
Requests == [side : Sides, n : Nat]

ASSUME BufSizeAssumption == BufSize \in Nat \ {0}
ASSUME ThreadsAssumption ==
    /\ NoThread \notin Threads /\ Creator \in Threads
    /\ Mortal \subseteq SUBSET Threads
    /\ MayShutdown \in BOOLEAN /\ MaxSpurious \in Nat
ASSUME ProgramsAssumption == Programs \subseteq [Threads -> Seq(Requests)]

VARIABLES
    \* the shared_mem_buffer and the terminating flag of the header
    mutex,        \* buffer->mutex
    ready,        \* sleepers on ready_for_writing / ready_for_reading
    alone,        \* sleepers on ready_for_writing_alone / .._reading_alone
    busy,         \* buffer->writing / buffer->reading
    filled,       \* buffer->filled
    index,        \* buffer->write_index / buffer->read_index
    mem,          \* the ring itself
    terminating,  \* header->terminating
    \* the threads
    pc,           \* where the thread is
    todo,         \* the calls it is still going to make
    side,         \* its current (or last) call: sd_write or sd_read,
    nbytes,       \*   the parameter nbytes,
    done,         \*   written / bytes_read,
    ok,           \*   ok, and the result once the call has returned
    spurious,     \* number of spurious wakeups so far
    \* history of the buffer, for the properties only
    xfer,         \* the bytes moved on each side, in order: whose and which
    got           \* the data that came out of the ring, in order

ring == <<filled, index, mem, busy>>
history == <<xfer, got>>
call == <<todo, side, nbytes, done>>
vars == <<mutex, ready, alone, ring, terminating, pc, call, ok, spurious, history>>

Bytes == [thread : Threads, off : Nat \ {0}, of : Nat]
PCs == {"idle", "lock", "alone", "sleep_alone", "copy", "sleep_ready", "unlock",
        "shut_lock", "shut_notify", "shut_unlock", "dead"}

Init ==
    /\ mutex = NewMutex
    /\ ready = [s \in Sides |-> {}] /\ alone = [s \in Sides |-> {}]
    /\ busy = [s \in Sides |-> FALSE]
    /\ filled = 0 /\ index = [s \in Sides |-> 0]
    /\ mem = [i \in 0 .. BufSize - 1 |-> NoByte]
    /\ terminating = FALSE
    /\ pc = [t \in Threads |-> "idle"]
    /\ todo \in Programs
    /\ side = [t \in Threads |-> "write"]
    /\ nbytes = [t \in Threads |-> 0] /\ done = [t \in Threads |-> 0]
    /\ ok = [t \in Threads |-> TRUE]
    /\ spurious = 0
    /\ xfer = [s \in Sides |-> << >>] /\ got = << >>
-----------------------------------------------------------------------------
(* The ring.                                                               *)

Least(a, b) == IF a <= b THEN a ELSE b

\* Wrong on purpose: the ring is taken to hold one byte more.
RoomForOneMore(s) == IF s = "write" THEN BufSize + 1 - filled ELSE filled

\* How many bytes side s could move: the free ones or the filled ones.
Room(s) == IF s = "write" THEN BufSize - filled ELSE filled

\* The size of the next chunk: what is left of the call, clamped to the room
\* and to the end of the ring.
Count(t) == LET s == side[t] IN
    Least(Least(nbytes[t] - done[t], Room(s)), BufSize - index[s])

\* The bytes of t's call that a chunk of c bytes moves.
Chunk(t, c) == [k \in 1 .. c |->
    [thread |-> t, off |-> done[t] + k, of |-> nbytes[t]]]

\* Wrong on purpose: the index moves by one byte per chunk.
AdvanceByOne(i, c) == (i + 1) % BufSize

Advance(i, c) == (i + c) % BufSize

\* memcpy into the ring or out of it, and the index and counter updates
Move(t, c) == LET s == side[t] IN
    /\ index' = [index EXCEPT ![s] = Advance(@, c)]
    /\ filled' = IF s = "write" THEN filled + c ELSE filled - c
    /\ mem' = IF s = "read" THEN mem ELSE
         [i \in 0 .. BufSize - 1 |-> IF i \in index[s] .. index[s] + c - 1
            THEN Chunk(t, c)[i - index[s] + 1] ELSE mem[i]]
    /\ got' = IF s = "write" THEN got
              ELSE got \o [k \in 1 .. c |-> mem[index[s] + k - 1]]
    /\ xfer' = [xfer EXCEPT ![s] = @ \o Chunk(t, c)]
    /\ done' = [done EXCEPT ![t] = @ + c]
-----------------------------------------------------------------------------
(* sd_write and sd_read                                                    *)

Goto(t, l) == pc' = [pc EXCEPT ![t] = l]
Owns(t, l) == pc[t] = l /\ Holds(mutex, t)

\* Entry: the early returns that need no lock.
Call(t) ==
    /\ pc[t] = "idle" /\ todo[t] # << >>
    /\ LET q == Head(todo[t]) IN
         /\ side' = [side EXCEPT ![t] = q.side]
         /\ nbytes' = [nbytes EXCEPT ![t] = q.n]
         /\ ok' = [ok EXCEPT ![t] = q.n = 0 \/ ~terminating]
         /\ Goto(t, IF q.n = 0 \/ terminating THEN "idle" ELSE "lock")
    /\ todo' = [todo EXCEPT ![t] = Tail(@)]
    /\ done' = [done EXCEPT ![t] = 0]
    /\ UNCHANGED <<mutex, ready, alone, ring, terminating, spurious, history>>

\* Wrong on purpose: EOWNERDEAD is taken for success.
ProceedIfHeld == mutex.state # "notrecoverable" /\ ~terminating

\* Whether an acquisition that returns now leads on into the operation.
Proceed == mutex.state = "consistent" /\ ~terminating

\* What follows an acquisition: go on at l, give up holding the mutex, or
\* give up without it.
Acquire(t, l, notheld) ==
    /\ Available(mutex)
    /\ mutex' = Locked(mutex, t)
    /\ ok' = [ok EXCEPT ![t] = Proceed]
    /\ Goto(t, IF Proceed THEN l
               ELSE IF mutex.state = "notrecoverable" THEN notheld ELSE "unlock")
    /\ UNCHANGED <<ready, alone, ring, terminating, call, history>>

\* shared_mutex_lock and the check of terminating behind it
Lock(t) ==
    /\ pc[t] = "lock"
    /\ Acquire(t, "alone", "idle")
    /\ UNCHANGED spurious

\* shared_cv_wait releases the mutex and sleeps in one step.
Sleep(t, l) ==
    /\ Goto(t, l)
    /\ mutex' = Unlocked(mutex, t)

\* Wrong on purpose: `if' instead of `while' around the waits.
LoopSkipped(l) == "copy"

\* The label whose loop condition is evaluated after a wait at l.
LoopOf(l) == IF l = "sleep_alone" THEN "alone" ELSE "copy"

Asleep(t) == \E s \in Sides : t \in ready[s] \cup alone[s]

\* shared_cv_wait returns, the while condition is next
Wake(t) ==
    /\ pc[t] \in {"sleep_alone", "sleep_ready"} /\ ~Asleep(t)
    /\ Acquire(t, LoopOf(pc[t]), "unlock")
    /\ UNCHANGED spurious

\* while (buffer->writing) wait; buffer->writing = true
Alone(t) == LET s == side[t] IN
    /\ Owns(t, "alone")
    /\ IF busy[s]
       THEN /\ Sleep(t, "sleep_alone")
            /\ alone' = [alone EXCEPT ![s] = @ \cup {t}]
            /\ UNCHANGED busy
       ELSE /\ busy' = [busy EXCEPT ![s] = TRUE]
            /\ Goto(t, "copy")
            /\ UNCHANGED <<mutex, alone>>
    /\ UNCHANGED <<ready, filled, index, mem, terminating, call, ok, spurious, history>>

\* while (buffer->filled == sd->bufsize) wait
WaitForRoom(t) == LET s == side[t] IN
    /\ Owns(t, "copy") /\ done[t] < nbytes[t] /\ Room(s) = 0
    /\ Sleep(t, "sleep_ready")
    /\ ready' = [ready EXCEPT ![s] = @ \cup {t}]
    /\ UNCHANGED <<alone, ring, terminating, call, ok, spurious, history>>

\* One iteration of the outer loop: one chunk, and a notification.
Copy(t) == LET s == side[t] IN
    /\ Owns(t, "copy") /\ done[t] < nbytes[t] /\ Room(s) # 0
    /\ Move(t, Count(t))
    /\ \E left \in NotifyOne(ready[Other(s)]) : ready' = [ready EXCEPT ![Other(s)] = left]
    /\ UNCHANGED <<mutex, alone, busy, terminating, pc, todo, side, nbytes, ok, spurious>>

\* Wrong on purpose: the next writer or reader is not notified.
FinishSilently(t) == LET s == side[t] IN
    /\ Owns(t, "copy") /\ done[t] >= nbytes[t]
    /\ busy' = [busy EXCEPT ![s] = FALSE]
    /\ Goto(t, "unlock")
    /\ UNCHANGED <<mutex, ready, alone, filled, index, mem, terminating, call, ok, spurious, history>>

\* buffer->writing = false, and the next writer is notified
Finish(t) == LET s == side[t] IN
    /\ Owns(t, "copy") /\ done[t] >= nbytes[t]
    /\ busy' = [busy EXCEPT ![s] = FALSE]
    /\ \E left \in NotifyOne(alone[s]) : alone' = [alone EXCEPT ![s] = left]
    /\ Goto(t, "unlock")
    /\ UNCHANGED <<mutex, ready, filled, index, mem, terminating, call, ok, spurious, history>>

\* Wrong on purpose: only the result of the unlock is returned.
UnlockForgetsOk(t) ==
    /\ pc[t] = "unlock"
    /\ mutex' = Unlocked(mutex, t)
    /\ ok' = [ok EXCEPT ![t] = Holds(mutex, t)]
    /\ Goto(t, "idle")
    /\ UNCHANGED <<ready, alone, ring, terminating, call, spurious, history>>

\* return shared_mutex_unlock(&buffer->mutex) && ok
Unlock(t) ==
    /\ pc[t] = "unlock"
    /\ mutex' = Unlocked(mutex, t)
    /\ ok' = [ok EXCEPT ![t] = @ /\ Holds(mutex, t)]
    /\ Goto(t, "idle")
    /\ UNCHANGED <<ready, alone, ring, terminating, call, spurious, history>>
-----------------------------------------------------------------------------
(* sd_shutdown, as far as it touches this buffer.  The results of          *)
(* shared_mutex_lock and shared_mutex_unlock are ignored by the code.      *)

ShutdownCall(t) ==
    /\ MayShutdown /\ t = Creator
    /\ pc[t] = "idle" /\ ~terminating
    /\ terminating' = TRUE
    /\ Goto(t, "shut_lock")
    /\ UNCHANGED <<mutex, ready, alone, ring, call, ok, spurious, history>>

ShutdownLock(t) ==
    /\ pc[t] = "shut_lock" /\ Available(mutex)
    /\ mutex' = Locked(mutex, t)
    /\ Goto(t, "shut_notify")
    /\ UNCHANGED <<ready, alone, ring, terminating, call, ok, spurious, history>>

\* Wrong on purpose: the condition variables for waiting alone are forgotten.
ShutdownForgetsAlone(t) ==
    /\ pc[t] = "shut_notify"
    /\ ready' = [s \in Sides |-> {}]
    /\ Goto(t, "shut_unlock")
    /\ UNCHANGED <<mutex, alone, ring, terminating, call, ok, spurious, history>>

\* shared_cv_notify_all on all four condition variables
ShutdownNotify(t) ==
    /\ pc[t] = "shut_notify"
    /\ ready' = [s \in Sides |-> {}] /\ alone' = [s \in Sides |-> {}]
    /\ Goto(t, "shut_unlock")
    /\ UNCHANGED <<mutex, ring, terminating, call, ok, spurious, history>>

ShutdownUnlock(t) ==
    /\ pc[t] = "shut_unlock"
    /\ mutex' = Unlocked(mutex, t)
    /\ Goto(t, "idle")
    /\ UNCHANGED <<ready, alone, ring, terminating, call, ok, spurious, history>>
-----------------------------------------------------------------------------
(* The environment                                                         *)

\* A sleeper is woken although nobody notified it.
Spurious(t) ==
    /\ Asleep(t) /\ pc[t] # "dead" /\ spurious < MaxSpurious
    /\ ready' = [s \in Sides |-> ready[s] \ {t}]
    /\ alone' = [s \in Sides |-> alone[s] \ {t}]
    /\ spurious' = spurious + 1
    /\ UNCHANGED <<mutex, ring, terminating, pc, call, ok, history>>

\* A process is killed at an arbitrary point.  A sleeper that dies stays
\* enqueued: a later shared_cv_notify_one may be spent on it.
Die(S) ==
    /\ \E t \in S : pc[t] # "dead"
    /\ pc' = [t \in Threads |-> IF t \in S THEN "dead" ELSE pc[t]]
    /\ mutex' = OwnerDied(mutex, S)
    /\ UNCHANGED <<ready, alone, ring, terminating, call, ok, spurious, history>>

\* Every thread has returned from its last call, or died: nothing is left.
Finished ==
    /\ \A t \in Threads : pc[t] = "dead" \/ (pc[t] = "idle" /\ todo[t] = << >>)
    /\ UNCHANGED vars

Step(t) ==
    \/ Call(t) \/ Lock(t) \/ Wake(t) \/ Alone(t) \/ WaitForRoom(t) \/ Copy(t)
    \/ Finish(t) \/ Unlock(t)
    \/ ShutdownLock(t) \/ ShutdownNotify(t) \/ ShutdownUnlock(t)

Next ==
    \/ \E t \in Threads : Step(t) \/ ShutdownCall(t) \/ Spurious(t)
    \/ \E S \in Mortal : Die(S)
    \/ Finished

Spec == Init /\ [][Next]_vars

\* Every thread that can take a step of a call takes one eventually.  Nobody
\* is obliged to shut down, to die or to wake up without a notification.
FairSpec == Spec /\ \A t \in Threads : WF_vars(Step(t))
-----------------------------------------------------------------------------
(* Properties                                                              *)

TypeOK ==
    /\ mutex \in Mutexes(Threads)
    /\ ready \in [Sides -> SUBSET Threads] /\ alone \in [Sides -> SUBSET Threads]
    /\ busy \in [Sides -> BOOLEAN]
    /\ filled \in 0 .. BufSize /\ index \in [Sides -> 0 .. BufSize - 1]
    /\ mem \in [0 .. BufSize - 1 -> Bytes \cup {NoByte}]
    /\ terminating \in BOOLEAN
    /\ pc \in [Threads -> PCs]
    /\ todo \in [Threads -> Seq(Requests)]
    /\ side \in [Threads -> Sides]
    /\ nbytes \in [Threads -> Nat] /\ done \in [Threads -> Nat]
    /\ \A t \in Threads : done[t] <= nbytes[t]
    /\ ok \in [Threads -> BOOLEAN]
    /\ spurious \in 0 .. MaxSpurious
    /\ xfer \in [Sides -> Seq(Bytes)] /\ got \in Seq(Bytes \cup {NoByte})

\* What readers receive is what writers sent, in the order it was sent:
\* nothing is lost, duplicated, reordered or overwritten in the ring, however
\* the chunks wrap around and whoever is killed (memcpy, filled and the two
\* indices of sd_write and sd_read).
StreamInOrder ==
    /\ Len(got) = Len(xfer["read"])
    /\ Len(got) + filled = Len(xfer["write"])
    /\ \A k \in 1 .. Len(got) : got[k] = xfer["write"][k]

\* The position in the ring that is x < 2 * BufSize bytes behind its begin.
Wrap(x) == IF x < BufSize THEN x ELSE x - BufSize

\* What is in the ring: the `filled' bytes from read_index on, around the end
\* of the ring and up to write_index, are exactly the stretch of the written
\* stream that follows the last byte read.
RingHoldsTheRest ==
    /\ index["write"] = Wrap(index["read"] + filled)
    /\ \A i \in 0 .. filled - 1 :
         mem[Wrap(index["read"] + i)] = xfer["write"][Len(got) + 1 + i]

\* The bytes in the ring, from read_index on.
Pending == [k \in 1 .. filled |-> mem[Wrap(index["read"] + k - 1)]]

Queue == INSTANCE ByteQueue WITH
    Capacity <- BufSize, queue <- Pending, delivered <- got

\* The ring with its two indices and its counter is a queue of at most bufsize
\* bytes: sd_write adds behind the bytes that are there and leaves these alone,
\* sd_read takes from the front exactly what it copies to its caller, and
\* nothing else, no death and no shutdown, moves a byte.
ImplementsQueue == Queue!QueueSpec

\* b is followed by c on one side of the ring: c is the next byte of the same
\* call, or b was the last byte of its call and c is the first of another.
Follows(b, c) ==
    \/ c = [b EXCEPT !.off = @ + 1] /\ c.off <= c.of
    \/ b.off = b.of /\ c.off = 1

\* "multiple write operations to the same process will never mix nor do
\* concurrent read operations": on both sides the bytes of a call are
\* contiguous even if the call is larger than the buffer and sleeps half-way
\* (the flags writing and reading).
CallsNeverMix ==
    \A s \in Sides : \A k \in 1 .. Len(xfer[s]) - 1 : Follows(xfer[s][k], xfer[s][k + 1])

\* The result of sd_write and sd_read: true only if all bytes were moved,
\* false only if the domain was shut down or somebody died holding the mutex.
ResultIsRight ==
    \A t \in Threads : pc[t] = "idle" =>
        IF ok[t] THEN done[t] = nbytes[t]
        ELSE terminating \/ mutex.state # "consistent"

NobodyDied == \A t \in Threads : pc[t] # "dead"

\* Without deaths nobody sleeps for something that has already happened: a
\* sleeper for room has none, and a sleeper for its turn has somebody ahead of
\* it who is active or who was woken and is going to look at the flag.
NoLostWakeup ==
    NobodyDied => \A s \in Sides :
        /\ ready[s] # {} => Room(s) = 0 \/ terminating
        /\ alone[s] # {} => \/ busy[s] \/ terminating
                            \/ \E t \in Threads : /\ side[t] = s /\ ~Asleep(t)
                                                  /\ pc[t] \in {"sleep_alone", "alone"}

\* "we do not attempt to fix this": after a process died inside the critical
\* section, whose ring may be half updated, nobody touches the ring again.
SealedAfterDeath ==
    [][mutex.state # "consistent" => UNCHANGED ring]_vars

\* "This will wake up all processes waiting in ... sd_write, or sd_read":
\* once sd_shutdown was called every call in progress returns, whoever died
\* before or after.
ShutdownReleases ==
    \A t \in Threads : terminating ~> pc[t] \in {"idle", "dead"}
=============================================================================
