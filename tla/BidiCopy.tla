------------------------------ MODULE BidiCopy ------------------------------
(***************************************************************************)
(* The relay future of hoorayhug_io: BidiCopy (bidi_copy.rs) drives two    *)
(* CopyBuffers (buf.rs), one for each direction, each over a memory buffer *)
(* (mem_copy.rs) or over a kernel pipe (linux/zero_copy.rs).               *)
(*                                                                         *)
(* One action is one call on a stream (poll_read, poll_write, poll_flush,  *)
(* poll_shutdown) with the straight-line code around it; the kernel and    *)
(* the two peers move between any two such calls.  A byte is its position  *)
(* in its source stream, and x ^ 0x5A is an involution without fixed       *)
(* points, so it is modelled by negation.                                  *)
(***************************************************************************)
EXTENDS Integers, Sequences

CONSTANTS
    BufSize,        \* bytes of a CopyBuffer: buf_size() or the pipe's capacity
    ChunkThreshold, \* 128 in poll_read_buf: only larger buffers are chunked
    StageCap,       \* bytes a writer may keep in user space; 0 for a raw socket
    SndBuf,         \* bytes the wire holds before the peer has read them
    MaxBytes,       \* bound: bytes a peer sends in one direction
    ZeroCopy,       \* splice through a pipe instead of copying through memory
    ObfsMode        \* OBFS_MODE: 0 plain, 1 obfuscating client, 2 server

ASSUME BufAssumption == BufSize \in Nat \ {0}
ASSUME ThresholdAssumption == ChunkThreshold \in Nat /\ ChunkThreshold >= 14
ASSUME StageAssumption == StageCap \in Nat
ASSUME WireAssumption == SndBuf \in Nat \ {0}
ASSUME BoundAssumption == MaxBytes \in Nat
ASSUME FlagAssumption == ZeroCopy \in BOOLEAN
ASSUME ModeAssumption == ObfsMode \in 0..2

Dir == {"a2b", "b2a"}
Sock == {"a", "b"}
Source(d) == IF d = "a2b" THEN "a" ELSE "b"
Sink(d) == IF d = "a2b" THEN "b" ELSE "a"

VARIABLES
    brutal,     \* the build has feature "brutal-shutdown" (on by default)
    sent,       \* environment: bytes the source peer has sent
    fin,        \* environment: the source peer has closed its sending side
    rst,        \* environment: sockets that were reset
    acked,      \* environment: bytes the sink peer has read off the wire
    written,    \* the bytes the writer accepted, in order (history)
    onwire,     \* how many of them have left user space
    shut,       \* the sink has been shut down
    rd,         \* bytes taken out of the source
    st,         \* TransferState of a direction
    read_done, need_flush, pos, cap, amt, buf,   \* the fields of CopyBuffer
    pc, cur,    \* which call comes next, in which direction
    res,        \* what this poll has got of each direction
    waits,      \* wakers registered with the streams
    woken,      \* the task is scheduled
    task,       \* "run", or how the future completed
    result      \* the pair of counts it returned

envVars == <<brutal, sent, fin, rst, acked>>
bufVars == <<read_done, need_flush, pos, cap, amt, buf>>
wireVars == <<written, onwire, shut>>
endVars == <<task, result>>
vars == <<envVars, bufVars, wireVars, endVars, rd, st, pc, cur, res, waits, woken>>

Least(x, y) == IF x < y THEN x ELSE y

-----------------------------------------------------------------------------
(* poll_read_buf: the chunk it asks for and the masking of what it got.    *)

Masked == ObfsMode # 0 /\ ~ZeroCopy
Mask(x) == IF Masked THEN -x ELSE x

\* The lengths a read may be cut to.  poll_read_buf raises a length of 0 to 1,
\* but 7% of a buffer that is chunked is never 0.
TargetLens ==
    IF Masked /\ BufSize > ChunkThreshold
    THEN (BufSize * 7) \div 100 .. (BufSize * 92) \div 100 ELSE {BufSize}

-----------------------------------------------------------------------------
(* The streams, as the code uses them.                                     *)

Staged(d) == Len(written[d]) - onwire[d]
Room(d) == SndBuf - (onwire[d] - acked[d])

\* A stream that becomes ready takes the waker registered with it.
Notify(S) ==
    /\ woken' = (woken \/ waits \cap S # {})
    /\ waits' = waits \ S

\* Mutant: Pending is returned without leaving a waker.
Await_NoWaker(kind, d) == UNCHANGED waits

Await(kind, d) == waits' = waits \union {<<kind, d>>}

-----------------------------------------------------------------------------
(* Control of one poll: a_to_b first, then b_to_a, then the results.       *)

\* Where poll_copy goes on, at the top of its loop or inside its write loop.
LoopTop(p, c, rdone) ==
    IF p < c THEN "write" ELSE IF rdone THEN "flusheof" ELSE "read"

\* Where transfer goes on when it is polled.
Enter(d) ==
    CASE st[d] = "Running"      -> LoopTop(pos[d], cap[d], read_done[d])
      [] st[d] = "ShuttingDown" -> "shutdown"
      [] OTHER                  -> "ready"

\* transfer returned: go on with the other direction, or combine.
Yield(d, r) ==
    /\ res' = [res EXCEPT ![d] = r]
    /\ IF d = "a2b"
       THEN cur' = "b2a" /\ pc' = Enter("b2a")
       ELSE pc' = "combine" /\ UNCHANGED cur

\* An error in either direction ends the future at once.
Fail ==
    /\ task' = "err" /\ pc' = "idle"
    /\ UNCHANGED <<result, cur, res>>

Init ==
    /\ brutal \in BOOLEAN
    /\ sent = [d \in Dir |-> 0]
    /\ fin = [d \in Dir |-> FALSE]
    /\ rst = {}
    /\ acked = [d \in Dir |-> 0]
    /\ written = [d \in Dir |-> <<>>]
    /\ onwire = [d \in Dir |-> 0]
    /\ shut = [d \in Dir |-> FALSE]
    /\ rd = [d \in Dir |-> 0]
    /\ st = [d \in Dir |-> "Running"]
    /\ read_done = [d \in Dir |-> FALSE]
    /\ need_flush = [d \in Dir |-> FALSE]
    /\ pos = [d \in Dir |-> 0]
    /\ cap = [d \in Dir |-> 0]
    /\ amt = [d \in Dir |-> 0]
    /\ buf = [d \in Dir |-> [k \in 0..BufSize - 1 |-> 0]]
    /\ pc = "idle" /\ cur = "a2b"
    /\ res = [d \in Dir |-> "pending"]
    /\ waits = {} /\ woken = TRUE
    /\ task = "run"
    /\ result = [d \in Dir |-> 0]

\* The executor polls the scheduled task.
Poll ==
    /\ task = "run" /\ pc = "idle" /\ woken
    /\ woken' = FALSE
    /\ cur' = "a2b" /\ pc' = Enter("a2b")
    /\ res' = [d \in Dir |-> "pending"]
    /\ UNCHANGED <<envVars, bufVars, wireVars, endVars, rd, st, waits>>

-----------------------------------------------------------------------------
(* poll_copy                                                               *)

\* The reader has n bytes for a chunk of t.
ReadSome(d) ==
    \E t \in TargetLens : \E n \in 1..Least(t, sent[d] - rd[d]) :
        /\ buf' = [buf EXCEPT ![d] =
               [k \in 0..BufSize - 1 |-> IF k < n THEN Mask(rd[d] + k + 1) ELSE buf[d][k]]]
        /\ pos' = [pos EXCEPT ![d] = 0]
        /\ cap' = [cap EXCEPT ![d] = n]
        /\ rd' = [rd EXCEPT ![d] = @ + n]
        /\ pc' = "write"
        /\ UNCHANGED <<read_done, need_flush, amt, endVars, res, cur, waits>>

\* Mutant: a read that would block is taken for the end of the stream.
AtEof_WouldBlock(d) == sent[d] = rd[d]

\* The reader returns no bytes.
AtEof(d) == sent[d] = rd[d] /\ fin[d]

ReadEof(d) ==
    /\ AtEof(d)
    /\ read_done' = [read_done EXCEPT ![d] = TRUE]
    /\ pc' = LoopTop(pos[d], cap[d], TRUE)
    /\ UNCHANGED <<need_flush, pos, cap, amt, buf, rd, endVars, res, cur, waits>>

\* Mutant: no flush while the reader is pending.
FlushBeforeSleep_Never(d) == FALSE

FlushBeforeSleep(d) == need_flush[d]

\* Nothing to read: what was written is flushed before poll_copy gives up.
ReadPending(d) ==
    /\ sent[d] = rd[d] /\ ~fin[d]
    /\ Await("read", d)
    /\ IF FlushBeforeSleep(d)
       THEN pc' = "flushp" /\ UNCHANGED <<res, cur>>
       ELSE Yield(d, "pending")
    /\ UNCHANGED <<bufVars, rd, endVars>>

\* poll_read_buf; what had arrived before a reset may still be read.
PollRead ==
    /\ task = "run" /\ pc = "read"
    /\ \/ /\ Source(cur) \in rst
          /\ Fail
          /\ UNCHANGED <<bufVars, rd, waits>>
       \/ ReadSome(cur)
       \/ Source(cur) \notin rst /\ (ReadEof(cur) \/ ReadPending(cur))
    /\ UNCHANGED <<envVars, wireVars, st, woken>>

\* Mutant: the slice offered to the writer does not shrink with pos.
Offered_WholeCap(d) == cap[d]

\* Length of the slice buf[pos..cap] offered to the writer.
Offered(d) == cap[d] - pos[d]

\* Mutant: a write after a short one starts at the head of the buffer again.
Taken_FromHead(d, i) == [k \in 1..i |-> buf[d][k - 1]]

\* The first i bytes of that slice.
Taken(d, i) == [k \in 1..i |-> buf[d][pos[d] + k - 1]]

\* The writer takes i bytes and sends what it holds up to the j-th.
WriteSome(d) ==
    \E i \in 1..Offered(d) : \E j \in onwire[d]..Len(written[d]) + i :
        /\ j <= acked[d] + SndBuf
        /\ Len(written[d]) + i - j <= StageCap
        /\ written' = [written EXCEPT ![d] = @ \o Taken(d, i)]
        /\ onwire' = [onwire EXCEPT ![d] = j]
        /\ pos' = [pos EXCEPT ![d] = @ + i]
        /\ amt' = [amt EXCEPT ![d] = @ + i]
        /\ need_flush' = [need_flush EXCEPT ![d] = TRUE]
        /\ pc' = LoopTop(pos[d] + i, cap[d], read_done[d])
        /\ UNCHANGED <<read_done, cap, buf, shut, endVars, res, cur, waits>>

WritePending(d) ==
    /\ Room(d) = 0 /\ Staged(d) >= StageCap
    /\ Await("write", d)
    /\ Yield(d, "pending")
    /\ UNCHANGED <<bufVars, wireVars, endVars>>

\* ECONNRESET; or Ok(0), WriteZero, for a reset splice or an empty slice.
WriterFails(d) == Sink(d) \in rst \/ pos[d] = cap[d]

PollWrite ==
    /\ task = "run" /\ pc = "write"
    /\ \/ /\ WriterFails(cur)
          /\ Fail
          /\ UNCHANGED <<bufVars, wireVars, waits>>
       \/ /\ ~WriterFails(cur)
          /\ WriteSome(cur) \/ WritePending(cur)
    /\ UNCHANGED <<envVars, rd, st, woken>>

\* The writer sends what the wire takes; ready once nothing is staged.
Push(d) == onwire' = [onwire EXCEPT ![d] = @ + Least(Staged(d), Room(d))]

FlushPending(d) ==
    /\ Staged(d) > Room(d)
    /\ Await("write", d)
    /\ Yield(d, "pending")
    /\ UNCHANGED <<need_flush, st, endVars>>

\* poll_flush_buf while the reader is pending.
PollFlush ==
    /\ task = "run" /\ pc = "flushp"
    /\ \/ /\ Sink(cur) \in rst /\ Fail
          /\ UNCHANGED <<onwire, need_flush, waits>>
       \/ /\ Sink(cur) \notin rst /\ Push(cur)
          /\ \/ FlushPending(cur)
             \/ /\ Staged(cur) <= Room(cur)
                /\ need_flush' = [need_flush EXCEPT ![cur] = FALSE]
                /\ Yield(cur, "pending")
                /\ UNCHANGED <<endVars, waits>>
    /\ UNCHANGED <<envVars, read_done, pos, cap, amt, buf, written, shut, rd, st, woken>>

\* poll_flush_buf after end of stream; poll_copy then returns amt.
PollFlushEof ==
    /\ task = "run" /\ pc = "flusheof"
    /\ \/ /\ Sink(cur) \in rst /\ Fail
          /\ UNCHANGED <<onwire, st, waits>>
       \/ /\ Sink(cur) \notin rst /\ Push(cur)
          /\ \/ FlushPending(cur)
             \/ /\ Staged(cur) <= Room(cur)
                /\ st' = [st EXCEPT ![cur] = "ShuttingDown"]
                /\ pc' = "shutdown"
                /\ UNCHANGED <<endVars, res, cur, waits>>
    /\ UNCHANGED <<envVars, bufVars, written, shut, rd, woken>>

-----------------------------------------------------------------------------
(* transfer and BidiCopy::poll                                             *)

\* poll_shutdown: by its contract it sends what is staged first.
PollShutdown ==
    /\ task = "run" /\ pc = "shutdown"
    /\ \/ /\ Sink(cur) \in rst /\ Fail
          /\ UNCHANGED <<onwire, shut, st, waits>>
       \/ /\ Sink(cur) \notin rst /\ Push(cur)
          /\ \/ FlushPending(cur) /\ UNCHANGED shut
             \/ /\ Staged(cur) <= Room(cur)
                /\ shut' = [shut EXCEPT ![cur] = TRUE]
                /\ st' = [st EXCEPT ![cur] = "Done"]
                /\ pc' = "ready"
                /\ UNCHANGED <<endVars, res, cur, waits>>
    /\ UNCHANGED <<envVars, bufVars, written, rd, woken>>

\* transfer in state Done returns its count.
TransferDone ==
    /\ task = "run" /\ pc = "ready"
    /\ Yield(cur, "ready")
    /\ UNCHANGED <<envVars, bufVars, wireVars, endVars, rd, st, waits, woken>>

\* Mutant: the features' conditions are swapped.
Completes_Swapped == IF brutal THEN \A d \in Dir : res[d] = "ready"
                               ELSE \E d \in Dir : res[d] = "ready"

\* The two results become the future's own.
Completes == IF brutal THEN \E d \in Dir : res[d] = "ready"
                       ELSE \A d \in Dir : res[d] = "ready"

Count(d) == IF res[d] = "ready" THEN amt[d] ELSE 0

Combine ==
    /\ task = "run" /\ pc = "combine"
    /\ pc' = "idle"
    /\ IF Completes
       THEN /\ task' = "ok"
            /\ result' = [d \in Dir |-> Count(d)]
       ELSE UNCHANGED endVars
    /\ UNCHANGED <<envVars, bufVars, wireVars, rd, st, cur, res, waits, woken>>

Step ==
    \/ Poll \/ PollRead \/ PollWrite \/ PollFlush \/ PollFlushEof
    \/ PollShutdown \/ TransferDone \/ Combine

-----------------------------------------------------------------------------
(* The peers and the kernel, while the future holds the sockets.           *)

relayVars == <<brutal, bufVars, wireVars, endVars, rd, st, pc, cur, res>>

PeerSend(d) ==
    /\ task = "run" /\ ~fin[d] /\ Source(d) \notin rst
    /\ \E n \in 1..MaxBytes - sent[d] : sent' = [sent EXCEPT ![d] = @ + n]
    /\ Notify({<<"read", d>>})
    /\ UNCHANGED <<fin, rst, acked, relayVars>>

PeerFin(d) ==
    /\ task = "run" /\ ~fin[d] /\ Source(d) \notin rst
    /\ fin' = [fin EXCEPT ![d] = TRUE]
    /\ Notify({<<"read", d>>})
    /\ UNCHANGED <<sent, rst, acked, relayVars>>

PeerRead(d) ==
    /\ task = "run" /\ Sink(d) \notin rst
    /\ \E n \in 1..onwire[d] - acked[d] : acked' = [acked EXCEPT ![d] = @ + n]
    /\ Notify({<<"write", d>>})
    /\ UNCHANGED <<sent, fin, rst, relayVars>>

PeerReset(s) ==
    /\ task = "run" /\ s \notin rst
    /\ rst' = rst \union {s}
    /\ Notify({<<"read", d>> : d \in {e \in Dir : Source(e) = s}}
              \union {<<"write", d>> : d \in {e \in Dir : Sink(e) = s}})
    /\ UNCHANGED <<sent, fin, acked, relayVars>>

Env ==
    \/ \E d \in Dir : PeerSend(d) \/ PeerFin(d) \/ PeerRead(d)
    \/ \E s \in Sock : PeerReset(s)

Next == Step \/ Env

Spec == Init /\ [][Next]_vars

\* The executor runs a woken task, and a poll always returns; the peers read.
Fairness == WF_vars(Step) /\ \A d \in Dir : WF_vars(PeerRead(d))

FairSpec == Spec /\ Fairness

-----------------------------------------------------------------------------
(* Properties                                                              *)

\* Every variable has its type; pos never passes cap, which poll_copy only
\* asserts in debug builds (a larger pos would spin its loop for ever).
TypeOK ==
    /\ brutal \in BOOLEAN
    /\ sent \in [Dir -> Nat] /\ fin \in [Dir -> BOOLEAN]
    /\ rst \subseteq Sock /\ acked \in [Dir -> Nat]
    /\ written \in [Dir -> Seq(Int)]
    /\ onwire \in [Dir -> Nat] /\ shut \in [Dir -> BOOLEAN]
    /\ rd \in [Dir -> Nat]
    /\ st \in [Dir -> {"Running", "ShuttingDown", "Done"}]
    /\ read_done \in [Dir -> BOOLEAN] /\ need_flush \in [Dir -> BOOLEAN]
    /\ pos \in [Dir -> 0..BufSize] /\ cap \in [Dir -> 0..BufSize]
    /\ amt \in [Dir -> Nat]
    /\ buf \in [Dir -> [0..BufSize - 1 -> Int]]
    /\ pc \in {"idle", "read", "write", "flushp", "flusheof", "shutdown", "ready", "combine"}
    /\ cur \in Dir
    /\ res \in [Dir -> {"pending", "ready"}]
    /\ waits \subseteq {"read", "write"} \X Dir /\ woken \in BOOLEAN
    /\ task \in {"run", "ok", "err"}
    /\ result \in [Dir -> Nat]
    /\ \A d \in Dir : pos[d] <= cap[d]

\* poll_copy neither loses, repeats nor reorders a byte, however reads and
\* writes are cut: what the writer accepted is the start of the source stream
\* (masked once), the rest of what was read is in buf[pos..cap], and amt
\* counts what was accepted.
ByteOrder ==
    \A d \in Dir :
        /\ amt[d] = Len(written[d])
        /\ rd[d] = amt[d] + (cap[d] - pos[d])
        /\ \A i \in 1..Len(written[d]) : written[d][i] = Mask(i)
        /\ \A k \in pos[d]..cap[d] - 1 : buf[d][k] = Mask(amt[d] + k - pos[d] + 1)

\* transfer passes an end of stream on only when the source has ended and
\* every byte of it is on the wire.
FinAfterDrain ==
    \A d \in Dir : shut[d] => fin[d] /\ onwire[d] = sent[d]

\* poll_copy can go on with direction d.
CanProceed(d) ==
    \/ pos[d] = cap[d] /\ ~read_done[d] /\ (rd[d] < sent[d] \/ fin[d] \/ Source(d) \in rst)
    \/ pos[d] < cap[d] /\ (Room(d) > 0 \/ Staged(d) < StageCap \/ Sink(d) \in rst)
    \/ Staged(d) > 0 /\ (Room(d) > 0 \/ Sink(d) \in rst)

\* The future never sleeps on work it could do: when no waker is due, there is
\* nothing to read into an empty buffer, no room for what the buffer holds,
\* and, as the flush on a pending read is there for, nothing left behind in a
\* buffered writer that the wire would take.
NoLostWakeup ==
    task = "run" /\ pc = "idle" /\ ~woken => \A d \in Dir : ~CanProceed(d)

\* The future is Ok only when both streams (with brutal-shutdown, at least
\* one) were relayed to their end, and the counts are the streams' lengths,
\* 0 for a stream that was cut off.
OkMeansComplete ==
    task = "ok" =>
        /\ IF brutal THEN \E d \in Dir : shut[d] ELSE \A d \in Dir : shut[d]
        /\ \A d \in Dir : result[d] = IF shut[d] THEN sent[d] ELSE 0

\* The relay fails only because a socket was reset: it never makes up a
\* WriteZero of its own by offering an empty slice.
FailsOnlyOnReset ==
    task = "err" => rst # {}

\* "Whenever the mode is not 0, all data of the stream is masked": what
\* poll_read_buf says of its bytes, for whatever path the relay takes.
StreamMasked ==
    ObfsMode # 0 => \A d \in Dir : \A i \in 1..Len(written[d]) : written[d][i] = -i

\* Every byte sent leaves on the other side while the relay runs, also when it
\* sits in a buffered writer and the sender waits for an answer to it.
EverySentByteLeaves ==
    \A d \in Dir : \A n \in 1..MaxBytes :
        (sent[d] >= n) ~> (onwire[d] >= n \/ task # "run")

\* Once both sources have ended (with brutal-shutdown, once one has), the
\* future completes and the sockets are released.
EofEndsRelay ==
    (IF brutal THEN \E d \in Dir : fin[d] ELSE \A d \in Dir : fin[d]) ~> (task # "run")

Relay == INSTANCE StreamRelay WITH
    Encode <- Mask,
    broken <- rst # {},
    delivered <- [d \in Dir |-> SubSeq(written[d], 1, onwire[d])],
    closed <- shut,
    status <- task

\* The future, with its buffers, wakers and partial polls, implements the
\* relay that StreamRelay specifies; a step that leaves bytes in a buffer is a
\* stuttering step of it.
ImplementsRelay == Relay!Spec

=============================================================================
