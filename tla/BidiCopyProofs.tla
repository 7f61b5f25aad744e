--------------------------- MODULE BidiCopyProofs ---------------------------
(***************************************************************************)
(* The safety of BidiCopy for every buffer size, wire, stream length and   *)
(* feature set: an inductive invariant, one part per idea, and the         *)
(* properties that follow from it.                                         *)
(***************************************************************************)
EXTENDS BidiCopy, SequenceTheorems, TLAPS

-----------------------------------------------------------------------------
(* The inductive invariant                                                 *)

\* The wire takes bytes in order and at most SndBuf ahead of the peer; a byte
\* is read after it was sent, and what is not on the wire awaits a flush.
WireInv ==
    \A d \in Dir :
        /\ acked[d] <= onwire[d] /\ onwire[d] <= Len(written[d])
        /\ onwire[d] <= acked[d] + SndBuf
        /\ rd[d] <= sent[d]
        /\ ~need_flush[d] => onwire[d] = Len(written[d])

\* What each state of a transfer has behind it.
PhaseInv ==
    \A d \in Dir :
        /\ read_done[d] => fin[d] /\ rd[d] = sent[d]
        /\ st[d] # "Running" =>
               read_done[d] /\ pos[d] = cap[d] /\ onwire[d] = Len(written[d])
        /\ shut[d] <=> st[d] = "Done"

\* What is known before each call of a poll.
CallInv ==
    task = "run" =>
        /\ pc \in {"read", "flushp"} =>
               st[cur] = "Running" /\ pos[cur] = cap[cur] /\ ~read_done[cur]
        /\ pc = "write" => st[cur] = "Running" /\ pos[cur] < cap[cur]
        /\ pc = "flusheof" =>
               st[cur] = "Running" /\ pos[cur] = cap[cur] /\ read_done[cur]
        /\ pc = "shutdown" => st[cur] = "ShuttingDown"
        /\ pc = "ready" => st[cur] = "Done"

\* The poll is done with direction d.
Polled(d) == pc = "combine" \/ (pc # "idle" /\ d = "a2b" /\ cur = "b2a")

\* The results of a poll are those of the transfers that have ended.
ResultInv ==
    /\ task = "run" => \A d \in Dir : Polled(d) => (res[d] = "ready" <=> st[d] = "Done")
    /\ OkMeansComplete

\* Direction d cannot go on, and a waker is left wherever it might.
Quiet(d) ==
    \/ woken
    \/ /\ ~CanProceed(d)
       /\ pos[d] = cap[d] /\ ~read_done[d] => <<"read", d>> \in waits
       /\ pos[d] < cap[d] \/ Staged(d) > 0 => <<"write", d>> \in waits

\* The reader was pending, and its waker is still there.
ReaderAsleep(d) ==
    \/ woken
    \/ /\ <<"read", d>> \in waits
       /\ rd[d] = sent[d] /\ ~fin[d] /\ Source(d) \notin rst

WakerInv ==
    task = "run" =>
        /\ \A d \in Dir : pc = "idle" \/ Polled(d) => Quiet(d)
        /\ pc = "flushp" => ReaderAsleep(cur)

IInv ==
    /\ TypeOK /\ ByteOrder /\ WireInv /\ PhaseInv
    /\ CallInv /\ ResultInv /\ WakerInv /\ FailsOnlyOnReset

-----------------------------------------------------------------------------
(* Facts about the operators                                               *)

\* Every chunk poll_read_buf asks for fits the buffer and is not empty.
LEMMA ChunkFits == TargetLens \subseteq 1..BufSize
<1>1. CASE Masked /\ BufSize > ChunkThreshold
  <2>1. BufSize \in Nat /\ BufSize >= 15
    BY <1>1, BufAssumption, ThresholdAssumption
  <2>2. (BufSize * 92) \div 100 <= BufSize /\ (BufSize * 7) \div 100 >= 1
    BY <2>1
  <2> QED BY <1>1, <2>1, <2>2 DEF TargetLens
<1>2. CASE ~(Masked /\ BufSize > ChunkThreshold)
  BY <1>2, BufAssumption DEF TargetLens
<1> QED BY <1>1, <1>2

\* The types of one direction.
LEMMA DirTypes ==
    ASSUME TypeOK, NEW d \in Dir
    PROVE  /\ sent[d] \in Nat /\ acked[d] \in Nat /\ onwire[d] \in Nat /\ rd[d] \in Nat
           /\ pos[d] \in Nat /\ cap[d] \in Nat /\ amt[d] \in Nat
           /\ pos[d] <= cap[d] /\ cap[d] <= BufSize
           /\ written[d] \in Seq(Int) /\ Len(written[d]) \in Nat
           /\ st[d] \in {"Running", "ShuttingDown", "Done"}
           /\ res[d] \in {"pending", "ready"}
           /\ buf[d] \in [0..BufSize - 1 -> Int]
<1>1. sent[d] \in Nat /\ acked[d] \in Nat /\ onwire[d] \in Nat /\ rd[d] \in Nat /\ amt[d] \in Nat
  BY DEF TypeOK
<1>2. pos[d] \in 0..BufSize /\ cap[d] \in 0..BufSize /\ pos[d] <= cap[d]
  BY DEF TypeOK
<1>3. written[d] \in Seq(Int)
  BY DEF TypeOK
<1>4. st[d] \in {"Running", "ShuttingDown", "Done"} /\ res[d] \in {"pending", "ready"}
  BY DEF TypeOK
<1>5. buf[d] \in [0..BufSize - 1 -> Int]
  BY DEF TypeOK
<1>6. pos[d] \in Nat /\ cap[d] \in Nat /\ cap[d] <= BufSize
  BY <1>2, BufAssumption
<1>7. Len(written[d]) \in Nat
  BY <1>3
<1> QED BY <1>1, <1>2, <1>3, <1>4, <1>5, <1>6, <1>7

\* A function changed at one place keeps its type.
LEMMA ExceptType ==
    ASSUME NEW S, NEW T, NEW f \in [S -> T], NEW x, NEW y \in T
    PROVE  [f EXCEPT ![x] = y] \in [S -> T]
OBVIOUS

\* The bytes taken from the buffer are a sequence of that length.
LEMMA TakenSeq ==
    ASSUME TypeOK, NEW d \in Dir, NEW i \in 1..Offered(d)
    PROVE  /\ Taken(d, i) \in Seq(Int) /\ Len(Taken(d, i)) = i
           /\ \A k \in 1..i : Taken(d, i)[k] = buf[d][pos[d] + k - 1]
<1>1. pos[d] \in Nat /\ cap[d] \in Nat /\ cap[d] <= BufSize /\ pos[d] <= cap[d]
  BY BufAssumption DEF TypeOK
<1>2. buf[d] \in [0..BufSize - 1 -> Int]
  BY DEF TypeOK
<1>3. i \in Nat /\ i <= cap[d] - pos[d]
  BY <1>1 DEF Offered
<1>4. \A k \in 1..i : buf[d][pos[d] + k - 1] \in Int
  BY <1>1, <1>2, <1>3, BufAssumption
<1> QED BY <1>3, <1>4 DEF Taken

\* Where poll_copy goes on is a call of its own.
LEMMA EnterType ==
    ASSUME TypeOK, NEW d \in Dir
    PROVE  /\ Enter(d) \in {"read", "write", "flusheof", "shutdown", "ready"}
           /\ Enter(d) = "read" => st[d] = "Running" /\ pos[d] = cap[d] /\ ~read_done[d]
           /\ Enter(d) = "write" => st[d] = "Running" /\ pos[d] < cap[d]
           /\ Enter(d) = "flusheof" => st[d] = "Running" /\ pos[d] = cap[d] /\ read_done[d]
           /\ Enter(d) = "shutdown" => st[d] = "ShuttingDown"
           /\ Enter(d) = "ready" => st[d] = "Done"
<1>1. pos[d] \in Int /\ cap[d] \in Int /\ pos[d] <= cap[d]
      /\ st[d] \in {"Running", "ShuttingDown", "Done"} /\ read_done[d] \in BOOLEAN
  BY BufAssumption DEF TypeOK
<1>2. CASE st[d] = "Running"
  BY <1>1, <1>2 DEF Enter, LoopTop
<1>3. CASE st[d] = "ShuttingDown"
  BY <1>3 DEF Enter
<1>4. CASE st[d] = "Done"
  BY <1>4 DEF Enter
<1> QED BY <1>1, <1>2, <1>3, <1>4

-----------------------------------------------------------------------------
(* The invariant holds initially and is kept by every action               *)

\* The invariant holds of the freshly made future.
LEMMA InitInv == Init => IInv
<1> SUFFICES ASSUME Init PROVE IInv
  OBVIOUS
<1> USE BufAssumption, WireAssumption
<1>1. TypeOK BY DEF Init, TypeOK, Dir
<1>2. ByteOrder BY DEF Init, ByteOrder
<1>3. WireInv BY DEF Init, WireInv
<1>4. PhaseInv BY DEF Init, PhaseInv
<1>5. CallInv /\ ResultInv /\ FailsOnlyOnReset
  BY DEF Init, CallInv, ResultInv, FailsOnlyOnReset, OkMeansComplete, Polled
<1>6. WakerInv BY DEF Init, WakerInv, Quiet, Polled
<1> QED BY <1>1, <1>2, <1>3, <1>4, <1>5, <1>6 DEF IInv

\* A peer sends, ends, reads or resets: what only the relay writes is kept.
LEMMA RelayKept ==
    ASSUME IInv, task = "run", UNCHANGED relayVars
    PROVE  /\ UNCHANGED <<brutal, written, onwire, shut, rd, st, read_done, need_flush, pos, cap,
                          amt, buf, pc, cur, res, task, result>>
           /\ ByteOrder' /\ CallInv' /\ ResultInv' /\ FailsOnlyOnReset'
<1>1. UNCHANGED <<brutal, written, onwire, shut, rd, st, read_done, need_flush, pos, cap,
                  amt, buf, pc, cur, res, task, result>>
  BY DEF relayVars, bufVars, wireVars, endVars
<1>2. ByteOrder'
  BY <1>1 DEF IInv, ByteOrder, Mask
<1>3. CallInv'
  BY <1>1 DEF IInv, CallInv
<1>4. ResultInv' /\ FailsOnlyOnReset'
  BY <1>1 DEF IInv, ResultInv, OkMeansComplete, Polled, FailsOnlyOnReset
<1> QED BY <1>1, <1>2, <1>3, <1>4

\* A notified waker schedules the task, so that nobody sleeps in vain.
LEMMA NotifyTypes ==
    ASSUME TypeOK, NEW S, Notify(S)
    PROVE  waits' \subseteq {"read", "write"} \X Dir /\ woken' \in BOOLEAN
BY DEF TypeOK, Notify

\* A ready stream wakes the task: Notify leaves every sleeping direction quiet.
LEMMA WakerKept ==
    ASSUME IInv, task = "run", UNCHANGED relayVars,
           \A e \in Dir : Quiet(e) => Quiet(e)',
           \A e \in Dir : ReaderAsleep(e) => ReaderAsleep(e)'
    PROVE  WakerInv'
BY RelayKept DEF IInv, WakerInv, Polled, TypeOK

\* New bytes of a peer preserve the invariant: a waiting reader is woken.
LEMMA PeerSendInv ==
    ASSUME IInv, NEW d \in Dir, PeerSend(d) PROVE IInv'
<1> USE DEF IInv
<1>1. PICK n \in 1..MaxBytes - sent[d] : sent' = [sent EXCEPT ![d] = @ + n]
  BY DEF PeerSend
<1>2. /\ task = "run" /\ ~fin[d] /\ UNCHANGED <<fin, rst, acked, relayVars>>
      /\ Notify({<<"read", d>>})
  BY DEF PeerSend
<1>3. n \in Nat /\ n > 0
  BY BoundAssumption DEF TypeOK
<1>4. \A e \in Dir : sent'[e] = IF e = d THEN sent[e] + n ELSE sent[e]
  BY <1>1 DEF TypeOK
<1>5. TypeOK'
  <2>1. sent' \in [Dir -> Nat]
    <3>1. sent \in [Dir -> Nat]
      BY DEF TypeOK
    <3>2. sent[d] + n \in Nat
      BY <1>3, <3>1
    <3> HIDE DEF IInv
    <3> QED BY <1>1, <3>1, <3>2
  <2> QED BY <1>2, <2>1, RelayKept, NotifyTypes DEF TypeOK
<1>6. WireInv'
  <2> SUFFICES ASSUME NEW e \in Dir PROVE rd[e] <= sent'[e]
    BY <1>2, RelayKept DEF WireInv
  <2>1. rd[e] <= sent[e] /\ rd[e] \in Nat /\ sent[e] \in Nat
    BY DirTypes DEF WireInv
  <2> HIDE DEF IInv
  <2> QED BY <1>3, <1>4, <2>1
<1>7. PhaseInv'
  BY <1>2, <1>4, RelayKept DEF PhaseInv
<1>8. WakerInv'
  <2>1. \A e \in Dir : Quiet(e) => Quiet(e)'
    BY <1>2, <1>4, RelayKept DEF Quiet, CanProceed, Room, Staged, Source, Sink, Notify
  <2>2. \A e \in Dir : ReaderAsleep(e) => ReaderAsleep(e)'
    BY <1>2, <1>4 , RelayKept DEF ReaderAsleep, Source, Notify
  <2> QED BY <1>2, <2>1, <2>2, WakerKept
<1> QED BY <1>2, <1>5, <1>6, <1>7, <1>8, RelayKept

\* So does the end of a source stream.
LEMMA PeerFinInv ==
    ASSUME IInv, NEW d \in Dir, PeerFin(d) PROVE IInv'
<1> USE DEF IInv
<1>1. /\ task = "run" /\ ~fin[d] /\ UNCHANGED <<sent, rst, acked, relayVars>>
      /\ fin' = [fin EXCEPT ![d] = TRUE]
      /\ Notify({<<"read", d>>})
  BY DEF PeerFin
<1>2. \A e \in Dir : e # d => fin'[e] = fin[e]
  BY <1>1 DEF TypeOK
<1>3. TypeOK'
  <2>1. fin' \in [Dir -> BOOLEAN]
    BY <1>1 DEF TypeOK
  <2> QED BY <1>1, <2>1, RelayKept, NotifyTypes DEF TypeOK
<1>4. WireInv'
  BY <1>1, RelayKept DEF WireInv
<1>5. PhaseInv'
  BY <1>1, <1>2, RelayKept DEF PhaseInv
<1>6. WakerInv'
  <2>1. \A e \in Dir : Quiet(e) => Quiet(e)'
    BY <1>1, <1>2, RelayKept DEF Quiet, CanProceed, Room, Staged, Source, Sink, Notify
  <2>2. \A e \in Dir : ReaderAsleep(e) => ReaderAsleep(e)'
    BY <1>1, <1>2, RelayKept DEF ReaderAsleep, Source, Notify
  <2> QED BY <1>1, <2>1, <2>2, WakerKept
<1> QED BY <1>1, <1>3, <1>4, <1>5, <1>6, RelayKept

\* So does a peer that reads and makes room on the wire.
LEMMA PeerReadInv ==
    ASSUME IInv, NEW d \in Dir, PeerRead(d) PROVE IInv'
<1> USE DEF IInv
<1>1. PICK n \in 1..onwire[d] - acked[d] : acked' = [acked EXCEPT ![d] = @ + n]
  BY DEF PeerRead
<1>2. /\ task = "run" /\ UNCHANGED <<sent, fin, rst, relayVars>>
      /\ Notify({<<"write", d>>})
  BY DEF PeerRead
<1>3. n \in Nat /\ acked[d] + n <= onwire[d]
  BY DirTypes
<1>4. \A e \in Dir : acked'[e] = IF e = d THEN acked[e] + n ELSE acked[e]
  BY <1>1 DEF TypeOK
<1>5. TypeOK'
  <2>1. acked' \in [Dir -> Nat]
    <3>1. acked \in [Dir -> Nat]
      BY DEF TypeOK
    <3>2. acked[d] + n \in Nat
      BY <1>3, <3>1
    <3> QED BY <1>1, <3>1, <3>2
  <2> QED BY <1>2, <2>1, RelayKept, NotifyTypes DEF TypeOK
<1>6. WireInv'
  <2> SUFFICES ASSUME NEW e \in Dir
               PROVE  acked'[e] <= onwire[e] /\ onwire[e] <= acked'[e] + SndBuf
    BY <1>2, RelayKept DEF WireInv
  <2>1. acked[e] <= onwire[e] /\ onwire[e] <= acked[e] + SndBuf
    BY DEF WireInv
  <2>2. acked[e] \in Nat /\ onwire[e] \in Nat /\ SndBuf \in Nat
    BY DirTypes, WireAssumption
  <2>3. acked'[e] = IF e = d THEN acked[e] + n ELSE acked[e]
    BY <1>4
  <2>4. e = d => acked[e] + n <= onwire[e]
    BY <1>3
  <2> HIDE DEF IInv
  <2> QED BY <1>3, <2>1, <2>2, <2>3, <2>4
<1>7. PhaseInv'
  BY <1>2, RelayKept DEF PhaseInv
<1>8. WakerInv'
  <2>1. \A e \in Dir : Quiet(e) => Quiet(e)'
    BY <1>2, <1>4, RelayKept DEF Quiet, CanProceed, Room, Staged, Source, Sink, Notify
  <2>2. \A e \in Dir : ReaderAsleep(e) => ReaderAsleep(e)'
    BY <1>2, RelayKept DEF ReaderAsleep, Source, Notify
  <2> QED BY <1>2, <2>1, <2>2, WakerKept
<1> QED BY <1>2, <1>5, <1>6, <1>7, <1>8, RelayKept

\* So does a reset, which wakes the reader and the writer of the socket.
LEMMA PeerResetInv ==
    ASSUME IInv, NEW s \in Sock, PeerReset(s) PROVE IInv'
<1> USE DEF IInv
<1> DEFINE S == {<<"read", d>> : d \in {e \in Dir : Source(e) = s}}
                \union {<<"write", d>> : d \in {e \in Dir : Sink(e) = s}}
<1>1. /\ task = "run" /\ UNCHANGED <<sent, fin, acked, relayVars>>
      /\ rst' = rst \union {s}
      /\ Notify(S)
  BY DEF PeerReset
<1>2. \A e \in Dir : /\ Source(e) \in rst' => Source(e) \in rst \/ <<"read", e>> \in S
                     /\ Sink(e) \in rst' => Sink(e) \in rst \/ <<"write", e>> \in S
  BY <1>1
<1> HIDE DEF S
<1>3. TypeOK'
  BY <1>1, RelayKept, NotifyTypes DEF TypeOK
<1>4. WireInv' /\ PhaseInv'
  BY <1>1, RelayKept DEF WireInv, PhaseInv
<1>5. WakerInv'
  <2>1. \A e \in Dir : Quiet(e) => Quiet(e)'
    BY <1>1, <1>2, RelayKept DEF Quiet, CanProceed, Room, Staged, Notify
  <2>2. \A e \in Dir : ReaderAsleep(e) => ReaderAsleep(e)'
    BY <1>1, <1>2, RelayKept DEF ReaderAsleep, Notify
  <2> QED BY <1>1, <2>1, <2>2, WakerKept
<1> QED BY <1>1, <1>3, <1>4, <1>5, RelayKept

-----------------------------------------------------------------------------
(* Inside a poll one direction moves and the other is left alone           *)

\* A step of poll_copy or transfer in direction cur.
StepOfCur ==
    /\ task = "run" /\ pc \notin {"idle", "combine"}
    /\ UNCHANGED <<sent, fin, rst, acked, woken>> /\ waits \subseteq waits'
    /\ \A e \in Dir \ {cur} :
           /\ st'[e] = st[e] /\ pos'[e] = pos[e] /\ cap'[e] = cap[e]
           /\ read_done'[e] = read_done[e] /\ rd'[e] = rd[e]
           /\ written'[e] = written[e] /\ onwire'[e] = onwire[e]

\* The other direction sleeps on.
LEMMA OtherQuiet ==
    ASSUME StepOfCur, NEW e \in Dir \ {cur}, Quiet(e) PROVE Quiet(e)'
<1>1. /\ pos'[e] = pos[e] /\ cap'[e] = cap[e] /\ read_done'[e] = read_done[e]
      /\ rd'[e] = rd[e] /\ written'[e] = written[e] /\ onwire'[e] = onwire[e]
      /\ UNCHANGED <<sent, fin, rst, acked, woken>> /\ waits \subseteq waits'
  BY DEF StepOfCur
<1>2. Staged(e)' = Staged(e) /\ Room(e)' = Room(e)
  BY <1>1 DEF Staged, Room
<1>3. CanProceed(e)' <=> CanProceed(e)
  BY <1>1, <1>2 DEF CanProceed, Source, Sink
<1> QED BY <1>1, <1>2, <1>3 DEF Quiet

\* poll_copy goes on with the same direction.
LEMMA StayKeeps ==
    ASSUME IInv, StepOfCur, task' = "run", pc' \notin {"idle", "combine"},
           UNCHANGED <<cur, res>>, pc' = "flushp" => ReaderAsleep(cur)'
    PROVE  ResultInv' /\ WakerInv' /\ FailsOnlyOnReset'
<1>1. \A e \in Dir : Polled(e)' => Polled(e) /\ e \in Dir \ {cur}
  BY DEF Polled, StepOfCur
<1>2. ResultInv'
  BY <1>1 DEF IInv, ResultInv, OkMeansComplete, StepOfCur
<1>3. WakerInv'
  BY <1>1, OtherQuiet DEF IInv, WakerInv, StepOfCur
<1> QED BY <1>2, <1>3 DEF FailsOnlyOnReset

\* transfer returns with nothing more to do than its wakers will tell.
LEMMA YieldKeeps ==
    ASSUME IInv, TypeOK', StepOfCur, task' = "run",
           NEW d \in Dir, cur = d, NEW r \in {"pending", "ready"}, Yield(d, r),
           r = "ready" <=> st'[d] = "Done", Quiet(d)'
    PROVE  CallInv' /\ ResultInv' /\ WakerInv' /\ FailsOnlyOnReset'
<1> USE DEF IInv
<1>1. res' = [res EXCEPT ![d] = r]
  BY DEF Yield
<1>2. res'[d] = r /\ \A e \in Dir \ {d} : res'[e] = res[e]
  BY <1>1 DEF TypeOK
<1>3. CASE d = "a2b"
  <2>1. cur' = "b2a" /\ pc' = Enter("b2a") /\ "b2a" \in Dir \ {cur}
    BY <1>3 DEF Yield, Dir
  <2>2. pc' \notin {"idle", "combine", "flushp"}
    BY <2>1, EnterType
  <2>3. CallInv'
    BY <2>1, EnterType DEF CallInv, StepOfCur
  <2>4. \A e \in Dir : Polled(e)' => e = d
    BY <1>3, <2>2 DEF Polled
  <2>5. ResultInv'
    BY <1>2, <2>4 DEF ResultInv, OkMeansComplete
  <2>6. WakerInv'
    BY <2>2, <2>4 DEF WakerInv
  <2> QED BY <2>3, <2>5, <2>6 DEF FailsOnlyOnReset
<1>4. CASE d = "b2a"
  <2>1. pc' = "combine" /\ cur' = cur
    BY <1>4 DEF Yield
  <2>2. \A e \in Dir \ {d} : Polled(e)
    BY <1>4 DEF Polled, StepOfCur, Dir
  <2>3. ResultInv'
    BY <1>2, <2>1, <2>2 DEF ResultInv, OkMeansComplete, StepOfCur
  <2>4. WakerInv'
    BY <2>1, <2>2, OtherQuiet DEF WakerInv, StepOfCur
  <2> QED BY <2>1, <2>3, <2>4 DEF CallInv, FailsOnlyOnReset
<1> QED BY <1>3, <1>4 DEF Dir

\* An error ends the future, and it had a reason.
LEMMA FailKeeps ==
    ASSUME IInv, Fail, UNCHANGED rst, rst # {}
    PROVE  CallInv' /\ ResultInv' /\ WakerInv' /\ FailsOnlyOnReset'
BY DEF Fail, CallInv, ResultInv, OkMeansComplete, WakerInv, FailsOnlyOnReset

\* Starting a poll of the future preserves the invariant.
LEMMA PollInv == ASSUME IInv, Poll PROVE IInv'
<1> USE DEF IInv
<1>1. UNCHANGED <<brutal, sent, fin, rst, acked, written, onwire, shut, rd, st, read_done,
                  need_flush, pos, cap, amt, buf, task, result, waits>>
  BY DEF Poll, envVars, bufVars, wireVars, endVars
<1>2. /\ task = "run" /\ cur' = "a2b" /\ pc' = Enter("a2b") /\ "a2b" \in Dir /\ ~woken'
      /\ res' = [d \in Dir |-> "pending"]
  BY DEF Poll, Dir
<1>3. TypeOK'
  <2>1. res' \in [Dir -> {"pending", "ready"}] /\ cur' \in Dir /\ woken' \in BOOLEAN
    BY <1>2 DEF Poll
  <2>2. pc' \in {"read", "write", "flusheof", "shutdown", "ready"}
    BY <1>2, EnterType
  <2> QED BY <1>1, <2>1, <2>2 DEF TypeOK
<1>4. ByteOrder' /\ WireInv' /\ PhaseInv' /\ FailsOnlyOnReset'
  BY <1>1 DEF ByteOrder, Mask, WireInv, PhaseInv, FailsOnlyOnReset
<1>5. CallInv'
  BY <1>1, <1>2, EnterType DEF CallInv
<1>6. \A d \in Dir : ~Polled(d)' /\ pc' # "idle" /\ pc' # "flushp"
  BY <1>2, EnterType DEF Polled
<1>7. ResultInv' /\ WakerInv'
  BY <1>1, <1>2, <1>6 DEF ResultInv, OkMeansComplete, WakerInv
<1> QED BY <1>3, <1>4, <1>5, <1>7

\* A transfer that has ended has nothing left to do.
LEMMA DoneQuiet ==
    ASSUME IInv, NEW d \in Dir, st[d] = "Done"
    PROVE  ~CanProceed(d) /\ Staged(d) = 0 /\ pos[d] = cap[d] /\ read_done[d]
<1>1. read_done[d] /\ pos[d] = cap[d] /\ onwire[d] = Len(written[d])
  BY DEF IInv, PhaseInv
<1>2. Staged(d) = 0
  BY <1>1, DirTypes DEF IInv, Staged
<1> QED BY <1>1, <1>2, DirTypes DEF IInv, CanProceed

\* A finished transfer that reports its count preserves it.
LEMMA TransferDoneInv == ASSUME IInv, TransferDone PROVE IInv'
<1> USE DEF IInv
<1>1. UNCHANGED <<brutal, sent, fin, rst, acked, written, onwire, shut, rd, st, read_done,
                  need_flush, pos, cap, amt, buf, task, result, waits, woken>>
  BY DEF TransferDone, envVars, bufVars, wireVars, endVars
<1>2. PICK d \in Dir : cur = d
  BY DEF TypeOK
<1>3. Yield(d, "ready") /\ task = "run" /\ pc = "ready" /\ st[d] = "Done"
  BY <1>2 DEF TransferDone, CallInv
<1>4. TypeOK'
  <2>1. res' \in [Dir -> {"pending", "ready"}]
    BY <1>3 DEF Yield, TypeOK
  <2>2. cur' \in Dir /\ pc' \in {"read", "write", "flusheof", "shutdown", "ready", "combine"}
    BY <1>2, <1>3, EnterType DEF Yield, Dir
  <2> QED BY <1>1, <2>1, <2>2 DEF TypeOK
<1>5. ByteOrder' /\ WireInv' /\ PhaseInv'
  BY <1>1 DEF ByteOrder, Mask, WireInv, PhaseInv
<1>6. StepOfCur
  BY <1>1, <1>3 DEF StepOfCur
<1>7. Quiet(d)'
  <2>1. ~CanProceed(d)' /\ Staged(d)' = 0
    BY <1>1, <1>3, DoneQuiet DEF CanProceed, Staged, Room, Source, Sink
  <2> QED BY <1>1, <1>3, <2>1, DoneQuiet, DirTypes DEF Quiet
<1>8. task' = "run" /\ st'[d] = "Done"
  BY <1>1, <1>3
<1> QED BY <1>2, <1>3, <1>4, <1>5, <1>6, <1>7, <1>8, YieldKeeps

\* Combining the two results preserves it, with either shutdown feature.
LEMMA CombineInv == ASSUME IInv, Combine PROVE IInv'
<1> USE DEF IInv
<1>1. /\ task = "run" /\ pc = "combine" /\ pc' = "idle"
      /\ UNCHANGED <<brutal, sent, fin, rst, acked, written, onwire, shut, rd, st, read_done,
                     need_flush, pos, cap, amt, buf, cur, res, waits, woken>>
  BY DEF Combine, envVars, bufVars, wireVars
<1>2. ByteOrder' /\ WireInv' /\ PhaseInv'
  BY <1>1 DEF ByteOrder, Mask, WireInv, PhaseInv
<1>3. \A d \in Dir : /\ (res[d] = "ready" <=> st[d] = "Done") /\ (shut[d] <=> st[d] = "Done")
                     /\ st[d] = "Done" => amt[d] = sent[d]
  <2> TAKE d \in Dir
  <2>1. /\ (res[d] = "ready" <=> st[d] = "Done") /\ (shut[d] <=> st[d] = "Done")
        /\ st[d] = "Done" => rd[d] = sent[d] /\ pos[d] = cap[d]
        /\ rd[d] = amt[d] + (cap[d] - pos[d])
    BY <1>1 DEF ResultInv, Polled, PhaseInv, ByteOrder
  <2> QED BY <2>1, DirTypes
<1>4. CASE Completes
  <2>1. task' = "ok" /\ result' = [d \in Dir |-> Count(d)]
    BY <1>4 DEF Combine
  <2>2. \A d \in Dir : result'[d] = IF shut[d] THEN sent[d] ELSE 0
    BY <1>3, <2>1 DEF Count
  <2>3. IF brutal THEN \E d \in Dir : shut[d] ELSE \A d \in Dir : shut[d]
    BY <1>3, <1>4 DEF Completes
  <2>4. result' \in [Dir -> Nat]
    BY <2>1, DirTypes DEF Count
  <2>5. TypeOK'
    BY <1>1, <2>1, <2>4 DEF TypeOK
  <2> QED BY <1>1, <1>2, <2>1, <2>2, <2>3, <2>5
          DEF CallInv, ResultInv, OkMeansComplete, WakerInv, FailsOnlyOnReset
<1>5. CASE ~Completes
  <2>1. UNCHANGED <<task, result>>
    BY <1>5 DEF Combine, endVars
  <2>2. TypeOK'
    BY <1>1, <2>1 DEF TypeOK
  <2>3. CallInv' /\ ResultInv' /\ FailsOnlyOnReset'
    BY <1>1, <2>1 DEF CallInv, ResultInv, OkMeansComplete, Polled, FailsOnlyOnReset
  <2>4. \A d \in Dir : Quiet(d)'
    BY <1>1 DEF WakerInv, Polled, Quiet, CanProceed, Staged, Room, Source, Sink
  <2> QED BY <1>1, <1>2, <2>2, <2>3, <2>4 DEF WakerInv
<1> QED BY <1>4, <1>5

-----------------------------------------------------------------------------
(* poll_read_buf                                                           *)

\* A read on a reset socket ends the future with an error.
LEMMA ReadFailInv ==
    ASSUME IInv, PollRead, Source(cur) \in rst, Fail, UNCHANGED <<bufVars, rd, waits>>
    PROVE  IInv'
<1> USE DEF IInv
<1>1. UNCHANGED <<brutal, sent, fin, rst, acked, written, onwire, shut, rd, st, read_done,
                  need_flush, pos, cap, amt, buf, waits, woken, cur, res, result>>
  BY DEF PollRead, Fail, envVars, bufVars, wireVars
<1>2. TypeOK'
  BY <1>1 DEF TypeOK, Fail
<1>3. ByteOrder' /\ WireInv' /\ PhaseInv'
  BY <1>1 DEF ByteOrder, Mask, WireInv, PhaseInv
<1> QED BY <1>1, <1>2, <1>3, FailKeeps

\* A read of any length replaces an empty buffer and keeps the order of bytes.
LEMMA ReadSomeInv ==
    ASSUME IInv, PollRead, NEW d \in Dir, cur = d, ReadSome(d) PROVE IInv'
<1> USE DEF IInv
<1>1. PICK t \in TargetLens : \E n \in 1..Least(t, sent[d] - rd[d]) :
        /\ buf' = [buf EXCEPT ![d] =
               [k \in 0..BufSize - 1 |-> IF k < n THEN Mask(rd[d] + k + 1) ELSE buf[d][k]]]
        /\ pos' = [pos EXCEPT ![d] = 0]
        /\ cap' = [cap EXCEPT ![d] = n]
        /\ rd' = [rd EXCEPT ![d] = @ + n]
        /\ pc' = "write"
        /\ UNCHANGED <<read_done, need_flush, amt, endVars, res, cur, waits>>
  BY DEF ReadSome
<1>2. PICK n \in 1..Least(t, sent[d] - rd[d]) :
        /\ buf' = [buf EXCEPT ![d] =
               [k \in 0..BufSize - 1 |-> IF k < n THEN Mask(rd[d] + k + 1) ELSE buf[d][k]]]
        /\ pos' = [pos EXCEPT ![d] = 0]
        /\ cap' = [cap EXCEPT ![d] = n]
        /\ rd' = [rd EXCEPT ![d] = @ + n]
        /\ pc' = "write"
        /\ UNCHANGED <<read_done, need_flush, amt, endVars, res, cur, waits>>
  BY <1>1
<1>3. /\ task = "run" /\ pc = "read"
      /\ UNCHANGED <<brutal, sent, fin, rst, acked, written, onwire, shut, st, read_done,
                     need_flush, amt, task, result, res, cur, waits, woken>>
  BY <1>2 DEF PollRead, envVars, wireVars, endVars
<1>4. n \in Nat /\ n > 0 /\ n <= BufSize /\ rd[d] + n <= sent[d]
  <2>1. t \in Nat /\ t <= BufSize
    BY ChunkFits, BufAssumption
  <2>2. sent[d] \in Nat /\ rd[d] \in Nat
    BY DirTypes
  <2>3. n \in Nat /\ n > 0 /\ n <= t /\ n <= sent[d] - rd[d]
    BY <2>1, <2>2 DEF Least
  <2> QED BY <2>1, <2>2, <2>3, BufAssumption
<1>5. st[d] = "Running" /\ pos[d] = cap[d] /\ ~read_done[d]
  BY <1>3 DEF CallInv
<1>6. /\ pos'[d] = 0 /\ cap'[d] = n /\ rd'[d] = rd[d] + n
      /\ \A k \in 0..BufSize - 1 : k < n => buf'[d][k] = Mask(rd[d] + k + 1)
      /\ \A e \in Dir \ {d} : /\ pos'[e] = pos[e] /\ cap'[e] = cap[e]
                              /\ rd'[e] = rd[e] /\ buf'[e] = buf[e]
  BY <1>2, <1>4 DEF TypeOK
<1>7. TypeOK'
  <2>1. pos' \in [Dir -> 0..BufSize] /\ cap' \in [Dir -> 0..BufSize]
    <3>1. 0 \in 0..BufSize /\ n \in 0..BufSize
      BY <1>4, BufAssumption
    <3>2. pos \in [Dir -> 0..BufSize] /\ cap \in [Dir -> 0..BufSize]
      BY DEF TypeOK
    <3> HIDE DEF IInv
    <3> QED BY <1>2, <3>1, <3>2
  <2>2. rd' \in [Dir -> Nat]
    <3>1. rd \in [Dir -> Nat] /\ rd[d] + n \in Nat
      BY <1>4 DEF TypeOK
    <3> HIDE DEF IInv
    <3> QED BY <1>2, <3>1
  <2>3. buf' \in [Dir -> [0..BufSize - 1 -> Int]]
    <3> DEFINE B == [k \in 0..BufSize - 1 |->
                        IF k < n THEN Mask(rd[d] + k + 1) ELSE buf[d][k]]
    <3>1. rd[d] \in Nat /\ buf[d] \in [0..BufSize - 1 -> Int]
      BY DirTypes
    <3>2. ASSUME NEW k \in 0..BufSize - 1 PROVE Mask(rd[d] + k + 1) \in Int
      BY <3>1, BufAssumption DEF Mask
    <3>3. B \in [0..BufSize - 1 -> Int]
      BY <3>1, <3>2
    <3>4. buf \in [Dir -> [0..BufSize - 1 -> Int]] /\ buf' = [buf EXCEPT ![d] = B]
      BY <1>2 DEF TypeOK
    <3> HIDE DEF B, IInv
    <3> QED BY <3>3, <3>4, ExceptType
  <2>4. \A e \in Dir : pos'[e] <= cap'[e]
    <3> SUFFICES ASSUME NEW e \in Dir PROVE pos'[e] <= cap'[e]
      OBVIOUS
    <3>1. pos[e] <= cap[e]
      BY DirTypes
    <3> HIDE DEF IInv
    <3> QED BY <1>4, <1>6, <3>1
  <2> QED BY <1>2, <1>3, <2>1, <2>2, <2>3, <2>4 DEF TypeOK
<1>8. ByteOrder'
  <2> SUFFICES ASSUME NEW e \in Dir
               PROVE  /\ amt'[e] = Len(written'[e])
                      /\ rd'[e] = amt'[e] + (cap'[e] - pos'[e])
                      /\ \A j \in 1..Len(written'[e]) : written'[e][j] = Mask(j)
                      /\ \A k \in pos'[e]..cap'[e] - 1 :
                             buf'[e][k] = Mask(amt'[e] + k - pos'[e] + 1)
    BY DEF ByteOrder, Mask
  <2>1. CASE e # d
    BY <1>3, <1>6, <2>1 DEF ByteOrder
  <2>2. CASE e = d
    <3>1. amt[d] = rd[d]
      BY <1>5, DirTypes DEF ByteOrder
    <3>2. ASSUME NEW k \in 0..n - 1
          PROVE  buf'[d][k] = Mask(amt[d] + k - 0 + 1)
      <4>1. k \in 0..BufSize - 1 /\ k < n /\ rd[d] + k + 1 = amt[d] + k - 0 + 1
        BY <1>4, <3>1, DirTypes, BufAssumption
      <4> QED BY <1>6, <4>1
    <3>3. amt' = amt /\ written' = written /\ pos'[d] = 0 /\ cap'[d] = n /\ rd'[d] = rd[d] + n
      BY <1>3, <1>6, <2>2
    <3>4. \A k \in 0..n - 1 : buf'[d][k] = Mask(amt[d] + k - 0 + 1)
      BY <3>2
    <3>5. /\ amt[d] = Len(written[d]) /\ amt[d] \in Nat
          /\ \A j \in 1..Len(written[d]) : written[d][j] = Mask(j)
      BY DirTypes DEF ByteOrder
    <3>6. rd'[d] = amt[d] + (n - 0)
      BY <1>4, <3>1, <3>3, <3>5
    <3> HIDE DEF IInv
    <3> QED BY <2>2, <3>3, <3>4, <3>5, <3>6
  <2> QED BY <2>1, <2>2
<1>9. WireInv' /\ PhaseInv'
  <2>1. \A e \in Dir : rd'[e] <= sent[e]
    BY <1>4, <1>6 DEF WireInv
  <2>2. WireInv'
    BY <1>3, <2>1 DEF WireInv
  <2>3. \A e \in Dir : read_done[e] \/ st[e] # "Running" => e # d
    BY <1>5
  <2> QED BY <1>3, <1>6, <2>2, <2>3 DEF PhaseInv
<1>10. CallInv'
  BY <1>2, <1>3, <1>4, <1>5, <1>6 DEF CallInv
<1>11. StepOfCur
  BY <1>3, <1>6 DEF StepOfCur
<1> QED BY <1>2, <1>3, <1>7, <1>8, <1>9, <1>10, <1>11, StayKeeps

\* A read of no bytes means the end of the source, and sets read_done.
LEMMA ReadEofInv ==
    ASSUME IInv, PollRead, NEW d \in Dir, cur = d, ReadEof(d) PROVE IInv'
<1> USE DEF IInv
<1>1. /\ task = "run" /\ pc = "read"
      /\ UNCHANGED <<brutal, sent, fin, rst, acked, written, onwire, shut, rd, st, need_flush,
                     pos, cap, amt, buf, task, result, res, cur, waits, woken>>
  BY DEF PollRead, ReadEof, envVars, wireVars, endVars
<1>2. st[d] = "Running" /\ pos[d] = cap[d] /\ ~read_done[d]
  BY <1>1 DEF CallInv
<1>3. sent[d] = rd[d] /\ fin[d]
  BY ChunkFits, BufAssumption DEF ReadEof, AtEof
<1>4. /\ read_done' = [read_done EXCEPT ![d] = TRUE] /\ pc' = "flusheof"
      /\ read_done'[d] = TRUE /\ \A e \in Dir \ {d} : read_done'[e] = read_done[e]
  BY <1>2, DirTypes DEF ReadEof, LoopTop, TypeOK
<1>5. TypeOK'
  <2>1. read_done' \in [Dir -> BOOLEAN]
    BY <1>4 DEF TypeOK
  <2> QED BY <1>1, <1>4, <2>1 DEF TypeOK
<1>6. ByteOrder' /\ WireInv'
  BY <1>1 DEF ByteOrder, Mask, WireInv
<1>7. PhaseInv'
  BY <1>1, <1>2, <1>3, <1>4 DEF PhaseInv
<1>8. CallInv'
  BY <1>1, <1>2, <1>4 DEF CallInv
<1>9. StepOfCur
  BY <1>1, <1>4 DEF StepOfCur
<1> QED BY <1>1, <1>4, <1>5, <1>6, <1>7, <1>8, <1>9, StayKeeps

\* A read that would block leaves its waker and goes on to the flush.
LEMMA ReadPendingInv ==
    ASSUME IInv, PollRead, NEW d \in Dir, cur = d, Source(d) \notin rst, ReadPending(d)
    PROVE  IInv'
<1> USE DEF IInv
<1>1. /\ task = "run" /\ pc = "read"
      /\ UNCHANGED <<brutal, sent, fin, rst, acked, written, onwire, shut, rd, st, read_done,
                     need_flush, pos, cap, amt, buf, task, result, woken>>
  BY DEF PollRead, ReadPending, envVars, wireVars, endVars, bufVars
<1>2. st[d] = "Running" /\ pos[d] = cap[d] /\ ~read_done[d]
  BY <1>1 DEF CallInv
<1>3. sent[d] = rd[d] /\ ~fin[d] /\ waits' = waits \union {<<"read", d>>}
  BY DEF ReadPending, Await
<1>4. waits' \subseteq {"read", "write"} \X Dir
  BY <1>3 DEF TypeOK
<1>5. ByteOrder' /\ WireInv' /\ PhaseInv'
  BY <1>1 DEF ByteOrder, Mask, WireInv, PhaseInv
<1>6. StepOfCur
  BY <1>1, <1>3 DEF StepOfCur
<1>7. CASE need_flush[d]
  <2>1. pc' = "flushp" /\ UNCHANGED <<res, cur>>
    BY <1>7 DEF ReadPending, FlushBeforeSleep
  <2>2. TypeOK'
    BY <1>1, <1>4, <2>1 DEF TypeOK
  <2>3. CallInv'
    BY <1>1, <1>2, <2>1 DEF CallInv
  <2>4. ReaderAsleep(cur)'
    BY <1>1, <1>3, <2>1 DEF ReaderAsleep, Source
  <2> QED BY <1>1, <1>5, <1>6, <2>1, <2>2, <2>3, <2>4, StayKeeps
<1>8. CASE ~need_flush[d]
  <2>1. Yield(d, "pending")
    BY <1>8 DEF ReadPending, FlushBeforeSleep
  <2>2. TypeOK'
    <3>1. res' \in [Dir -> {"pending", "ready"}]
      BY <2>1 DEF Yield, TypeOK
    <3>2. cur' \in Dir /\ pc' \in {"read", "write", "flusheof", "shutdown", "ready", "combine"}
      BY <2>1, EnterType DEF Yield, Dir
    <3> QED BY <1>1, <1>4, <3>1, <3>2 DEF TypeOK
  <2>3. Quiet(d)'
    <3>1. onwire[d] = Len(written[d])
      BY <1>8 DEF WireInv
    <3>2. Staged(d)' = 0
      BY <1>1, <3>1, DirTypes DEF Staged
    <3>3. ~CanProceed(d)'
      BY <1>1, <1>2, <1>3, <3>2, DirTypes DEF CanProceed, Source
    <3> QED BY <1>1, <1>2, <1>3, <3>2, <3>3, DirTypes DEF Quiet
  <2>4. st'[d] # "Done" /\ task' = "run"
    BY <1>1, <1>2
  <2> QED BY <1>5, <1>6, <2>1, <2>2, <2>3, <2>4, YieldKeeps
<1> QED BY <1>7, <1>8

\* Every outcome of poll_read_buf preserves the invariant.
LEMMA PollReadInv == ASSUME IInv, PollRead PROVE IInv'
<1>1. PICK d \in Dir : cur = d
  BY DEF IInv, TypeOK
<1>2. CASE Source(cur) \in rst /\ Fail /\ UNCHANGED <<bufVars, rd, waits>>
  BY <1>2, ReadFailInv
<1>3. CASE ReadSome(cur)
  BY <1>1, <1>3, ReadSomeInv
<1>4. CASE Source(cur) \notin rst /\ ReadEof(cur)
  BY <1>1, <1>4, ReadEofInv
<1>5. CASE Source(cur) \notin rst /\ ReadPending(cur)
  BY <1>1, <1>5, ReadPendingInv
<1> QED BY <1>2, <1>3, <1>4, <1>5 DEF PollRead

-----------------------------------------------------------------------------
(* poll_write_buf                                                          *)

\* Where a byte of the second of two concatenated sequences ends up.
LEMMA ConcatAt ==
    ASSUME NEW s \in Seq(Int), NEW t \in Seq(Int)
    PROVE  /\ s \o t \in Seq(Int) /\ Len(s \o t) = Len(s) + Len(t)
           /\ \A m \in 1..Len(s) : (s \o t)[m] = s[m]
           /\ \A m \in Len(s) + 1..Len(s) + Len(t) : (s \o t)[m] = t[m - Len(s)]
<1>1. Len(s) \in Nat /\ Len(t) \in Nat
  OBVIOUS
<1>2. /\ s \o t \in Seq(Int) /\ Len(s \o t) = Len(s) + Len(t)
      /\ \A m \in 1..Len(s) + Len(t) : (s \o t)[m] = IF m <= Len(s) THEN s[m] ELSE t[m - Len(s)]
  BY ConcatProperties
<1> QED BY <1>1, <1>2

\* A write on a reset socket ends the future; the empty slice never occurs.
LEMMA WriteFailInv ==
    ASSUME IInv, PollWrite, WriterFails(cur), Fail, UNCHANGED <<bufVars, wireVars, waits>>
    PROVE  IInv'
<1> USE DEF IInv
<1>1. UNCHANGED <<brutal, sent, fin, rst, acked, written, onwire, shut, rd, st, read_done,
                  need_flush, pos, cap, amt, buf, waits, woken, cur, res, result>>
  BY DEF PollWrite, Fail, envVars, bufVars, wireVars
<1>2. TypeOK'
  BY <1>1 DEF TypeOK, Fail
<1>3. ByteOrder' /\ WireInv' /\ PhaseInv'
  BY <1>1 DEF ByteOrder, Mask, WireInv, PhaseInv
<1>4. cur \in Dir /\ pos[cur] < cap[cur]
  BY DEF PollWrite, CallInv, TypeOK
<1>5. rst # {}
  BY <1>4, DirTypes DEF WriterFails
<1> QED BY <1>1, <1>2, <1>3, <1>5, FailKeeps

\* A short write appends the next bytes of the stream and advances pos.
LEMMA WriteSomeInv ==
    ASSUME IInv, PollWrite, NEW d \in Dir, cur = d, WriteSome(d) PROVE IInv'
<1> USE DEF IInv
<1>1. PICK i \in 1..Offered(d) : \E j \in onwire[d]..Len(written[d]) + i :
        /\ j <= acked[d] + SndBuf
        /\ Len(written[d]) + i - j <= StageCap
        /\ written' = [written EXCEPT ![d] = @ \o Taken(d, i)]
        /\ onwire' = [onwire EXCEPT ![d] = j]
        /\ pos' = [pos EXCEPT ![d] = @ + i]
        /\ amt' = [amt EXCEPT ![d] = @ + i]
        /\ need_flush' = [need_flush EXCEPT ![d] = TRUE]
        /\ pc' = LoopTop(pos[d] + i, cap[d], read_done[d])
        /\ UNCHANGED <<read_done, cap, buf, shut, endVars, res, cur, waits>>
  BY DEF WriteSome
<1>2. PICK j \in onwire[d]..Len(written[d]) + i :
        /\ j <= acked[d] + SndBuf
        /\ written' = [written EXCEPT ![d] = @ \o Taken(d, i)]
        /\ onwire' = [onwire EXCEPT ![d] = j]
        /\ pos' = [pos EXCEPT ![d] = @ + i]
        /\ amt' = [amt EXCEPT ![d] = @ + i]
        /\ need_flush' = [need_flush EXCEPT ![d] = TRUE]
        /\ pc' = LoopTop(pos[d] + i, cap[d], read_done[d])
        /\ UNCHANGED <<read_done, cap, buf, shut, endVars, res, cur, waits>>
  BY <1>1
<1>3. /\ task = "run" /\ pc = "write"
      /\ UNCHANGED <<brutal, sent, fin, rst, acked, shut, rd, st, read_done, cap, buf,
                     task, result, res, cur, waits, woken>>
  BY <1>2 DEF PollWrite, envVars, endVars
<1>4. st[d] = "Running" /\ pos[d] < cap[d]
  BY <1>3 DEF CallInv
<1>5. i \in Nat /\ i > 0 /\ pos[d] + i <= cap[d]
  <2>1. pos[d] \in Nat /\ cap[d] \in Nat
    BY DirTypes
  <2> QED BY <2>1 DEF Offered
<1>6. j \in Nat /\ onwire[d] <= j /\ j <= Len(written[d]) + i /\ j <= acked[d] + SndBuf
  BY <1>2, <1>5, DirTypes
<1>7. /\ written'[d] = written[d] \o Taken(d, i) /\ onwire'[d] = j
      /\ pos'[d] = pos[d] + i /\ amt'[d] = amt[d] + i /\ need_flush'[d] = TRUE
      /\ \A e \in Dir \ {d} : /\ written'[e] = written[e] /\ onwire'[e] = onwire[e]
                              /\ pos'[e] = pos[e] /\ amt'[e] = amt[e]
                              /\ need_flush'[e] = need_flush[e]
  BY <1>2 DEF TypeOK
<1>8. /\ Len(written'[d]) = Len(written[d]) + i
      /\ written'[d] \in Seq(Int)
      /\ \A m \in 1..Len(written[d]) : written'[d][m] = written[d][m]
      /\ \A m \in Len(written[d]) + 1..Len(written[d]) + i :
             written'[d][m] = Taken(d, i)[m - Len(written[d])]
  <2> DEFINE s == written[d]
             t == Taken(d, i)
  <2>1. s \in Seq(Int) /\ t \in Seq(Int) /\ Len(t) = i /\ written'[d] = s \o t
    BY <1>7, TakenSeq, DirTypes
  <2> HIDE DEF s, t
  <2>2. /\ s \o t \in Seq(Int) /\ Len(s \o t) = Len(s) + Len(t)
        /\ \A m \in 1..Len(s) : (s \o t)[m] = s[m]
        /\ \A m \in Len(s) + 1..Len(s) + Len(t) : (s \o t)[m] = t[m - Len(s)]
    BY <2>1, ConcatAt
  <2> QED BY <2>1, <2>2 DEF s, t
<1>9. TypeOK'
  <2>1. written' \in [Dir -> Seq(Int)]
    BY <1>2, <1>7, <1>8 DEF TypeOK
  <2>2. onwire' \in [Dir -> Nat] /\ need_flush' \in [Dir -> BOOLEAN]
    BY <1>2, <1>6 DEF TypeOK
  <2>3. amt' \in [Dir -> Nat]
    BY <1>2, <1>5 DEF TypeOK
  <2>4. pos' \in [Dir -> 0..BufSize]
    <3>1. pos[d] + i \in 0..BufSize
      BY <1>5, DirTypes, BufAssumption
    <3> QED BY <1>2, <3>1 DEF TypeOK
  <2>5. \A e \in Dir : pos'[e] <= cap[e]
    BY <1>5, <1>7, DirTypes
  <2>6. pc' \in {"read", "write", "flusheof"}
    BY <1>2 DEF LoopTop
  <2> QED BY <1>3, <2>1, <2>2, <2>3, <2>4, <2>5, <2>6 DEF TypeOK
<1>10. ByteOrder'
  <2> SUFFICES ASSUME NEW e \in Dir
               PROVE  /\ amt'[e] = Len(written'[e])
                      /\ rd'[e] = amt'[e] + (cap'[e] - pos'[e])
                      /\ \A m \in 1..Len(written'[e]) : written'[e][m] = Mask(m)
                      /\ \A k \in pos'[e]..cap'[e] - 1 :
                             buf'[e][k] = Mask(amt'[e] + k - pos'[e] + 1)
    BY DEF ByteOrder, Mask
  <2>1. CASE e # d
    BY <1>3, <1>7, <2>1 DEF ByteOrder
  <2>2. CASE e = d
    <3>1. /\ amt[d] = Len(written[d])
          /\ rd[d] = amt[d] + (cap[d] - pos[d])
          /\ \A m \in 1..Len(written[d]) : written[d][m] = Mask(m)
          /\ \A k \in pos[d]..cap[d] - 1 : buf[d][k] = Mask(amt[d] + k - pos[d] + 1)
      BY DEF ByteOrder
    <3>2. amt'[d] = Len(written'[d]) /\ rd'[d] = amt'[d] + (cap'[d] - pos'[d])
      <4>1. rd[d] \in Nat /\ pos[d] \in Nat /\ cap[d] \in Nat /\ amt[d] \in Nat
        BY DirTypes
      <4>2. amt'[d] = amt[d] + i /\ pos'[d] = pos[d] + i /\ cap'[d] = cap[d] /\ rd'[d] = rd[d]
        BY <1>3, <1>7
      <4> HIDE DEF IInv
      <4>3. amt'[d] = Len(written'[d])
        BY <1>8, <3>1, <4>2
      <4>4. rd[d] = amt[d] + i + (cap[d] - (pos[d] + i))
        BY <1>5, <3>1, <4>1
      <4> QED BY <4>2, <4>3, <4>4
    <3>3. ASSUME NEW m \in Len(written[d]) + 1..Len(written[d]) + i
          PROVE  written'[d][m] = Mask(m)
      <4>1. /\ m \in Int /\ m - Len(written[d]) \in 1..i
            /\ pos[d] + (m - Len(written[d])) - 1 \in pos[d]..cap[d] - 1
            /\ amt[d] + (pos[d] + (m - Len(written[d])) - 1) - pos[d] + 1 = m
        <5> DEFINE p == pos[d]
                   c == cap[d]
                   a == amt[d]
        <5>1. /\ p \in Nat /\ c \in Nat /\ a \in Nat /\ p + i <= c
              /\ m \in a + 1..a + i
          BY <1>5, <3>1, DirTypes
        <5> HIDE DEF p, c, a
        <5>2. /\ m \in Int /\ m - a \in 1..i /\ p + (m - a) - 1 \in p..c - 1
              /\ a + (p + (m - a) - 1) - p + 1 = m
          BY <1>5, <5>1
        <5> QED BY <3>1, <5>2 DEF p, c, a
      <4>2. Taken(d, i)[m - Len(written[d])] = buf[d][pos[d] + (m - Len(written[d])) - 1]
        BY <4>1, TakenSeq
      <4> QED BY <1>8, <3>1, <4>1, <4>2
    <3>4. ASSUME NEW m \in 1..Len(written'[d])
          PROVE  written'[d][m] = Mask(m)
      <4>1. m \in 1..Len(written[d]) \/ m \in Len(written[d]) + 1..Len(written[d]) + i
        BY <1>5, <1>8, DirTypes
      <4> QED BY <1>8, <3>1, <3>3, <4>1
    <3>5. ASSUME NEW k \in pos[d] + i..cap[d] - 1
          PROVE  buf[d][k] = Mask(amt[d] + i + k - (pos[d] + i) + 1)
      <4>1. /\ k \in pos[d]..cap[d] - 1
            /\ amt[d] + i + k - (pos[d] + i) + 1 = amt[d] + k - pos[d] + 1
        <5>1. pos[d] \in Nat /\ cap[d] \in Nat /\ amt[d] \in Nat
          BY DirTypes
        <5> HIDE DEF IInv
        <5> QED BY <1>5, <5>1
      <4> QED BY <3>1, <4>1
    <3>6. buf' = buf /\ amt'[d] = amt[d] + i /\ pos'[d] = pos[d] + i /\ cap' = cap
      BY <1>3, <1>7
    <3>7. \A k \in pos[d] + i..cap[d] - 1 :
              buf[d][k] = Mask(amt[d] + i + k - (pos[d] + i) + 1)
      BY <3>5
    <3>8. \A m \in 1..Len(written'[d]) : written'[d][m] = Mask(m)
      BY <3>4
    <3> HIDE DEF IInv
    <3> QED BY <2>2, <3>2, <3>6, <3>7, <3>8
  <2> QED BY <2>1, <2>2
<1>11. WireInv'
  <2>1. /\ acked[d] <= onwire'[d] /\ onwire'[d] <= Len(written'[d])
        /\ onwire'[d] <= acked[d] + SndBuf /\ need_flush'[d]
    BY <1>6, <1>7, <1>8, DirTypes DEF WireInv
  <2> QED BY <1>3, <1>7, <2>1 DEF WireInv
<1>12. PhaseInv'
  BY <1>3, <1>4, <1>7 DEF PhaseInv
<1>13. CallInv'
  <2>1. pos[d] + i \in Int /\ cap[d] \in Int
    BY <1>5, DirTypes
  <2> QED BY <1>2, <1>3, <1>4, <1>5, <1>7, <2>1 DEF CallInv, LoopTop
<1>14. StepOfCur
  BY <1>3, <1>7 DEF StepOfCur
<1>15. pc' \in {"read", "write", "flusheof"}
  BY <1>2 DEF LoopTop
<1> QED BY <1>3, <1>9, <1>10, <1>11, <1>12, <1>13, <1>14, <1>15, StayKeeps

\* A write that would block leaves its waker behind.
LEMMA WritePendingInv ==
    ASSUME IInv, PollWrite, NEW d \in Dir, cur = d, ~WriterFails(d), WritePending(d)
    PROVE  IInv'
<1> USE DEF IInv
<1>1. /\ task = "run" /\ pc = "write"
      /\ UNCHANGED <<brutal, sent, fin, rst, acked, written, onwire, shut, rd, st, read_done,
                     need_flush, pos, cap, amt, buf, task, result, woken>>
  BY DEF PollWrite, WritePending, envVars, wireVars, endVars, bufVars
<1>2. st[d] = "Running" /\ pos[d] < cap[d]
  BY <1>1 DEF CallInv
<1>3. /\ Room(d) = 0 /\ Staged(d) >= StageCap /\ Yield(d, "pending")
      /\ waits' = waits \union {<<"write", d>>}
  BY DEF WritePending, Await
<1>4. TypeOK'
  <2>1. res' \in [Dir -> {"pending", "ready"}]
    BY <1>3 DEF Yield, TypeOK
  <2>2. cur' \in Dir /\ pc' \in {"read", "write", "flusheof", "shutdown", "ready", "combine"}
    BY <1>3, EnterType DEF Yield, Dir
  <2>3. waits' \subseteq {"read", "write"} \X Dir
    BY <1>3 DEF TypeOK
  <2> QED BY <1>1, <2>1, <2>2, <2>3 DEF TypeOK
<1>5. ByteOrder' /\ WireInv' /\ PhaseInv'
  BY <1>1 DEF ByteOrder, Mask, WireInv, PhaseInv
<1>6. StepOfCur
  BY <1>1, <1>3 DEF StepOfCur
<1>7. Quiet(d)'
  <2>1. Room(d)' = 0 /\ Staged(d)' = Staged(d) /\ Staged(d) \in Int
    BY <1>1, <1>3, DirTypes DEF Room, Staged
  <2>2. ~CanProceed(d)'
    BY <1>1, <1>2, <1>3, <2>1, DirTypes, StageAssumption DEF CanProceed, WriterFails, Sink
  <2> QED BY <1>1, <1>2, <1>3, <2>2, DirTypes DEF Quiet
<1>8. st'[d] # "Done" /\ task' = "run"
  BY <1>1, <1>2
<1> QED BY <1>3, <1>4, <1>5, <1>6, <1>7, <1>8, YieldKeeps

\* Every outcome of poll_write_buf preserves the invariant.
LEMMA PollWriteInv == ASSUME IInv, PollWrite PROVE IInv'
<1>1. PICK d \in Dir : cur = d
  BY DEF IInv, TypeOK
<1>2. CASE WriterFails(cur) /\ Fail /\ UNCHANGED <<bufVars, wireVars, waits>>
  BY <1>2, WriteFailInv
<1>3. CASE ~WriterFails(cur) /\ WriteSome(cur)
  BY <1>1, <1>3, WriteSomeInv
<1>4. CASE ~WriterFails(cur) /\ WritePending(cur)
  BY <1>1, <1>4, WritePendingInv
<1> QED BY <1>2, <1>3, <1>4 DEF PollWrite

-----------------------------------------------------------------------------
(* poll_flush_buf and poll_shutdown                                        *)

\* What a flush leaves: nothing staged, or a full wire.
LEMMA PushFacts ==
    ASSUME IInv, NEW d \in Dir, Push(d)
    PROVE  /\ onwire' \in [Dir -> Nat]
           /\ \A e \in Dir \ {d} : onwire'[e] = onwire[e]
           /\ acked[d] <= onwire'[d] /\ onwire'[d] <= Len(written[d])
           /\ onwire'[d] <= acked[d] + SndBuf
           /\ Staged(d) <= Room(d) => onwire'[d] = Len(written[d])
           /\ Staged(d) > Room(d) => SndBuf - (onwire'[d] - acked[d]) = 0
           /\ onwire[d] = Len(written[d]) => Staged(d) <= Room(d)
<1>1. /\ acked[d] \in Nat /\ onwire[d] \in Nat /\ Len(written[d]) \in Nat /\ SndBuf \in Nat
      /\ acked[d] <= onwire[d] /\ onwire[d] <= Len(written[d])
      /\ onwire[d] <= acked[d] + SndBuf
  BY DirTypes, WireAssumption DEF IInv, WireInv
<1>2. /\ onwire'[d] = onwire[d] + Least(Staged(d), Room(d))
      /\ \A e \in Dir \ {d} : onwire'[e] = onwire[e]
  BY DEF IInv, TypeOK, Push
<1>3. onwire[d] + Least(Staged(d), Room(d)) \in Nat
  BY <1>1 DEF Least, Staged, Room
<1>4. onwire' \in [Dir -> Nat]
  BY <1>3 DEF IInv, TypeOK, Push
<1>5. /\ acked[d] <= onwire'[d] /\ onwire'[d] <= Len(written[d])
      /\ onwire'[d] <= acked[d] + SndBuf
      /\ Staged(d) <= Room(d) => onwire'[d] = Len(written[d])
      /\ Staged(d) > Room(d) => SndBuf - (onwire'[d] - acked[d]) = 0
      /\ onwire[d] = Len(written[d]) => Staged(d) <= Room(d)
  <2> DEFINE a == acked[d]
             o == onwire[d]
             w == Len(written[d])
  <2>1. Staged(d) = w - o /\ Room(d) = SndBuf - (o - a)
    BY DEF Staged, Room
  <2>2. onwire'[d] = o + Least(w - o, SndBuf - (o - a))
    BY <1>2, <2>1
  <2> HIDE DEF a, o, w
  <2>3. a \in Nat /\ o \in Nat /\ w \in Nat /\ SndBuf \in Nat
        /\ a <= o /\ o <= w /\ o <= a + SndBuf
    BY <1>1 DEF a, o, w
  <2>4. LET z == o + Least(w - o, SndBuf - (o - a)) IN
        /\ a <= z /\ z <= w /\ z <= a + SndBuf
        /\ w - o <= SndBuf - (o - a) => z = w
        /\ w - o > SndBuf - (o - a) => SndBuf - (z - a) = 0
        /\ o = w => w - o <= SndBuf - (o - a)
    BY <2>3 DEF Least
  <2> QED BY <2>1, <2>2, <2>4 DEF a, o, w
<1> QED BY <1>2, <1>4, <1>5

\* A stream is reset under a flush or a shutdown.
LEMMA FlushFailInv ==
    ASSUME IInv, NEW d \in Dir, Sink(d) \in rst, Fail,
           UNCHANGED <<brutal, sent, fin, rst, acked, written, onwire, shut, rd, st, read_done,
                       need_flush, pos, cap, amt, buf, waits, woken>>
    PROVE  IInv'
<1> USE DEF IInv
<1>1. TypeOK'
  BY DEF TypeOK, Fail
<1>2. ByteOrder' /\ WireInv' /\ PhaseInv'
  BY DEF ByteOrder, Mask, WireInv, PhaseInv
<1> QED BY <1>1, <1>2, FailKeeps

\* The wire is full before everything staged is sent.
LEMMA FlushPendingInv ==
    ASSUME IInv, NEW d \in Dir, cur = d, task = "run", pc \in {"flushp", "flusheof"},
           Sink(d) \notin rst, Push(d), FlushPending(d),
           UNCHANGED <<brutal, sent, fin, rst, acked, written, shut, rd, st, read_done,
                       need_flush, pos, cap, amt, buf, task, result, woken>>
    PROVE  IInv'
<1> USE DEF IInv
<1>1. /\ Staged(d) > Room(d) /\ Yield(d, "pending")
      /\ waits' = waits \union {<<"write", d>>}
  BY DEF FlushPending, Await
<1>2. st[d] = "Running" /\ pos[d] = cap[d]
  BY DEF CallInv
<1>3. TypeOK'
  <2>1. res' \in [Dir -> {"pending", "ready"}]
    BY <1>1 DEF Yield, TypeOK
  <2>2. cur' \in Dir /\ pc' \in {"read", "write", "flusheof", "shutdown", "ready", "combine"}
    BY <1>1, EnterType DEF Yield, Dir
  <2>3. waits' \subseteq {"read", "write"} \X Dir
    BY <1>1 DEF TypeOK
  <2> QED BY <2>1, <2>2, <2>3, PushFacts DEF TypeOK
<1>4. ByteOrder'
  BY DEF ByteOrder, Mask
<1>5. need_flush[d] \/ Staged(d) <= Room(d)
  BY PushFacts DEF WireInv
<1>6. WireInv'
  <2>1. need_flush[d]
    BY <1>1, <1>5, DirTypes, WireAssumption DEF Staged, Room
  <2> QED BY <2>1, PushFacts DEF WireInv
<1>7. PhaseInv'
  BY <1>2, PushFacts DEF PhaseInv
<1>8. StepOfCur
  BY <1>1, PushFacts DEF StepOfCur
<1>9. Quiet(d)'
  <2>1. Room(d)' = 0
    BY <1>1, PushFacts DEF Room
  <2>2. CASE pc = "flushp"
    <3>1. woken \/ (/\ <<"read", d>> \in waits'
                    /\ rd[d] = sent[d] /\ ~fin[d] /\ Source(d) \notin rst)
      BY <1>1, <2>2 DEF WakerInv, ReaderAsleep
    <3>2. woken \/ ~CanProceed(d)'
      BY <1>2, <2>1, <3>1, DirTypes DEF CanProceed, Source, Sink
    <3> QED BY <1>1, <3>1, <3>2 DEF Quiet
  <2>3. CASE pc = "flusheof"
    <3>1. read_done[d]
      BY <2>3 DEF CallInv
    <3>2. ~CanProceed(d)'
      BY <1>2, <2>1, <3>1, DirTypes DEF CanProceed, Source, Sink
    <3> QED BY <1>1, <3>1, <3>2 DEF Quiet
  <2> QED BY <2>2, <2>3
<1>10. st'[d] # "Done" /\ task' = "run"
  BY <1>2
<1> QED BY <1>1, <1>3, <1>4, <1>6, <1>7, <1>8, <1>9, <1>10, YieldKeeps

\* The flush on a pending read preserves the invariant.
LEMMA PollFlushInv == ASSUME IInv, PollFlush PROVE IInv'
<1> USE DEF IInv
<1>1. PICK d \in Dir : cur = d
  BY DEF TypeOK
<1>2. /\ task = "run" /\ pc = "flushp"
      /\ UNCHANGED <<brutal, sent, fin, rst, acked, written, shut, rd, st, read_done, pos, cap,
                     amt, buf, woken>>
  BY DEF PollFlush, envVars
<1>3. CASE Sink(cur) \in rst /\ Fail /\ UNCHANGED <<onwire, need_flush, waits>>
  BY <1>1, <1>2, <1>3, FlushFailInv
<1>4. CASE Sink(cur) \notin rst /\ Push(cur) /\ FlushPending(cur)
  <2>1. UNCHANGED <<need_flush, task, result>>
    BY <1>4 DEF FlushPending, endVars
  <2> QED BY <1>1, <1>2, <1>4, <2>1, FlushPendingInv
<1>5. CASE /\ Push(cur) /\ Staged(cur) <= Room(cur)
           /\ need_flush' = [need_flush EXCEPT ![cur] = FALSE]
           /\ Yield(cur, "pending") /\ UNCHANGED <<endVars, waits>>
  <2>1. /\ Push(d) /\ Staged(d) <= Room(d) /\ Yield(d, "pending")
        /\ need_flush' = [need_flush EXCEPT ![d] = FALSE]
        /\ UNCHANGED <<task, result, waits>>
    BY <1>1, <1>5 DEF endVars
  <2>2. st[d] = "Running" /\ pos[d] = cap[d] /\ ~read_done[d]
    BY <1>1, <1>2 DEF CallInv
  <2>3. onwire'[d] = Len(written[d])
    BY <2>1, PushFacts
  <2>4. TypeOK'
    <3>1. res' \in [Dir -> {"pending", "ready"}] /\ need_flush' \in [Dir -> BOOLEAN]
      BY <2>1 DEF Yield, TypeOK
    <3>2. cur' \in Dir /\ pc' \in {"read", "write", "flusheof", "shutdown", "ready", "combine"}
      BY <1>1, <2>1, EnterType DEF Yield, Dir
    <3> QED BY <1>2, <2>1, <3>1, <3>2, PushFacts DEF TypeOK
  <2>5. ByteOrder'
    BY <1>2 DEF ByteOrder, Mask
  <2>6. WireInv'
    <3>1. \A e \in Dir \ {d} : need_flush'[e] = need_flush[e]
      BY <2>1 DEF TypeOK
    <3> QED BY <1>2, <2>1, <2>3, <3>1, PushFacts DEF WireInv
  <2>7. PhaseInv'
    BY <1>2, <2>1, <2>2, PushFacts DEF PhaseInv
  <2>8. StepOfCur
    BY <1>1, <1>2, <2>1, PushFacts DEF StepOfCur
  <2>9. Quiet(d)'
    <3>1. Staged(d)' = 0
      BY <1>2, <2>3, DirTypes DEF Staged
    <3>2. woken \/ (/\ <<"read", d>> \in waits
                    /\ rd[d] = sent[d] /\ ~fin[d] /\ Source(d) \notin rst)
      BY <1>1, <1>2 DEF WakerInv, ReaderAsleep
    <3>3. woken \/ ~CanProceed(d)'
      BY <1>2, <2>2, <3>1, <3>2, DirTypes DEF CanProceed, Source
    <3> QED BY <1>2, <2>1, <2>2, <3>1, <3>2, <3>3, DirTypes DEF Quiet
  <2>10. st'[d] # "Done" /\ task' = "run"
    BY <1>2, <2>1, <2>2
  <2> QED BY <1>1, <2>1, <2>4, <2>5, <2>6, <2>7, <2>8, <2>9, <2>10, YieldKeeps
<1> QED BY <1>3, <1>4, <1>5 DEF PollFlush

\* A flush or shutdown is complete: the transfer goes on to its next state.
LEMMA AdvanceInv ==
    ASSUME IInv, NEW d \in Dir, cur = d, task = "run",
           \/ /\ pc = "flusheof" /\ pc' = "shutdown"
              /\ st' = [st EXCEPT ![d] = "ShuttingDown"] /\ shut' = shut
           \/ /\ pc = "shutdown" /\ pc' = "ready"
              /\ st' = [st EXCEPT ![d] = "Done"] /\ shut' = [shut EXCEPT ![d] = TRUE],
           Push(d), Staged(d) <= Room(d),
           UNCHANGED <<brutal, sent, fin, rst, acked, written, rd, read_done, need_flush, pos,
                       cap, amt, buf, task, result, res, cur, waits, woken>>
    PROVE  IInv'
<1> USE DEF IInv
<1>1. /\ st'[d] = IF pc = "flusheof" THEN "ShuttingDown" ELSE "Done"
      /\ shut'[d] = IF pc = "flusheof" THEN shut[d] ELSE TRUE
      /\ \A e \in Dir \ {d} : st'[e] = st[e] /\ shut'[e] = shut[e]
  BY DEF TypeOK
<1>2. onwire'[d] = Len(written[d])
  BY PushFacts
<1>3. read_done[d] /\ pos[d] = cap[d] /\ (pc = "flusheof" => st[d] = "Running")
  BY DEF CallInv, PhaseInv
<1>4. TypeOK'
  <2>1. st' \in [Dir -> {"Running", "ShuttingDown", "Done"}] /\ shut' \in [Dir -> BOOLEAN]
    BY DEF TypeOK
  <2> QED BY <2>1, PushFacts DEF TypeOK
<1>5. ByteOrder'
  BY DEF ByteOrder, Mask
<1>6. WireInv'
  BY <1>2, PushFacts DEF WireInv
<1>7. PhaseInv'
  <2> SUFFICES ASSUME NEW e \in Dir
               PROVE  /\ read_done[e] => fin[e] /\ rd[e] = sent[e]
                      /\ st'[e] # "Running" =>
                             read_done[e] /\ pos[e] = cap[e] /\ onwire'[e] = Len(written[e])
                      /\ shut'[e] <=> st'[e] = "Done"
    BY DEF PhaseInv
  <2>1. /\ read_done[e] => fin[e] /\ rd[e] = sent[e]
        /\ st[e] # "Running" =>
               read_done[e] /\ pos[e] = cap[e] /\ onwire[e] = Len(written[e])
        /\ shut[e] <=> st[e] = "Done"
    BY DEF PhaseInv
  <2>2. e # d => onwire'[e] = onwire[e]
    BY PushFacts
  <2> HIDE DEF IInv
  <2>3. CASE e # d
    BY <1>1, <2>1, <2>2, <2>3
  <2>4. CASE e = d
    BY <1>1, <1>2, <1>3, <2>1, <2>4
  <2> QED BY <2>3, <2>4
<1>8. CallInv'
  BY <1>1 DEF CallInv
<1>9. StepOfCur
  BY <1>1, PushFacts DEF StepOfCur
<1> QED BY <1>4, <1>5, <1>6, <1>7, <1>8, <1>9, StayKeeps

\* The flush at the end of the stream preserves the invariant.
LEMMA PollFlushEofInv == ASSUME IInv, PollFlushEof PROVE IInv'
<1> USE DEF IInv
<1>1. PICK d \in Dir : cur = d
  BY DEF TypeOK
<1>2. /\ task = "run" /\ pc = "flusheof"
      /\ UNCHANGED <<brutal, sent, fin, rst, acked, written, shut, rd, read_done, need_flush, pos,
                     cap, amt, buf, woken>>
  BY DEF PollFlushEof, envVars, bufVars
<1>3. CASE Sink(cur) \in rst /\ Fail /\ UNCHANGED <<onwire, st, waits>>
  BY <1>1, <1>2, <1>3, FlushFailInv
<1>4. CASE Sink(cur) \notin rst /\ Push(cur) /\ FlushPending(cur)
  <2>1. UNCHANGED <<st, task, result>>
    BY <1>4 DEF FlushPending, endVars
  <2> QED BY <1>1, <1>2, <1>4, <2>1, FlushPendingInv
<1>5. CASE /\ Push(cur) /\ Staged(cur) <= Room(cur)
           /\ st' = [st EXCEPT ![cur] = "ShuttingDown"]
           /\ pc' = "shutdown" /\ UNCHANGED <<endVars, res, cur, waits>>
  <2>1. UNCHANGED <<task, result>>
    BY <1>5 DEF endVars
  <2> QED BY <1>1, <1>2, <1>5, <2>1, AdvanceInv
<1> QED BY <1>3, <1>4, <1>5 DEF PollFlushEof

\* poll_shutdown preserves the invariant.
LEMMA PollShutdownInv == ASSUME IInv, PollShutdown PROVE IInv'
<1> USE DEF IInv
<1>1. PICK d \in Dir : cur = d
  BY DEF TypeOK
<1>2. /\ task = "run" /\ pc = "shutdown"
      /\ UNCHANGED <<brutal, sent, fin, rst, acked, written, rd, read_done, need_flush, pos, cap,
                     amt, buf, woken>>
  BY DEF PollShutdown, envVars, bufVars
<1>3. CASE Sink(cur) \in rst /\ Fail /\ UNCHANGED <<onwire, shut, st, waits>>
  BY <1>1, <1>2, <1>3, FlushFailInv
<1>4. CASE Push(cur) /\ FlushPending(cur)
  <2>1. onwire[d] = Len(written[d])
    BY <1>1, <1>2 DEF CallInv, PhaseInv
  <2>2. Staged(d) = 0 /\ Room(d) \in Nat
    BY <2>1, DirTypes, WireAssumption DEF Staged, Room, WireInv
  <2> QED BY <1>1, <1>4, <2>2 DEF FlushPending
<1>5. CASE /\ Push(cur) /\ Staged(cur) <= Room(cur)
           /\ shut' = [shut EXCEPT ![cur] = TRUE]
           /\ st' = [st EXCEPT ![cur] = "Done"]
           /\ pc' = "ready" /\ UNCHANGED <<endVars, res, cur, waits>>
  <2>1. UNCHANGED <<task, result>>
    BY <1>5 DEF endVars
  <2> QED BY <1>1, <1>2, <1>5, <2>1, AdvanceInv
<1> QED BY <1>3, <1>4, <1>5 DEF PollShutdown

-----------------------------------------------------------------------------
(* The theorems                                                            *)

\* A stuttering step preserves the invariant.
LEMMA StutterInv == ASSUME IInv, UNCHANGED vars PROVE IInv'
<1>1. UNCHANGED <<brutal, sent, fin, rst, acked, written, onwire, shut, rd, st, read_done,
                  need_flush, pos, cap, amt, buf, pc, cur, res, waits, woken, task, result>>
  BY DEF vars, envVars, bufVars, wireVars, endVars
<1>2. TypeOK'
  BY <1>1 DEF IInv, TypeOK
<1>3. ByteOrder' /\ WireInv' /\ PhaseInv' /\ CallInv'
  BY <1>1 DEF IInv, ByteOrder, Mask, WireInv, PhaseInv, CallInv
<1>4. ResultInv' /\ FailsOnlyOnReset'
  BY <1>1 DEF IInv, ResultInv, OkMeansComplete, Polled, FailsOnlyOnReset
<1>5. \A d \in Dir : (Quiet(d) => Quiet(d)') /\ (ReaderAsleep(d) => ReaderAsleep(d)')
  BY <1>1 DEF Quiet, ReaderAsleep, CanProceed, Staged, Room, Source, Sink
<1>6. WakerInv'
  BY <1>1, <1>5 DEF IInv, WakerInv, Polled, TypeOK
<1> QED BY <1>2, <1>3, <1>4, <1>6 DEF IInv

\* The invariant is inductive.
THEOREM Invariance == Spec => []IInv
<1>1. IInv /\ [Next]_vars => IInv'
  <2> SUFFICES ASSUME IInv, [Next]_vars PROVE IInv'
    OBVIOUS
  <2>1. CASE Step
    BY <2>1, PollInv, PollReadInv, PollWriteInv, PollFlushInv, PollFlushEofInv,
       PollShutdownInv, TransferDoneInv, CombineInv DEF Step
  <2>2. CASE Env
    BY <2>2, PeerSendInv, PeerFinInv, PeerReadInv, PeerResetInv DEF Env
  <2>3. CASE UNCHANGED vars
    BY <2>3, StutterInv
  <2> QED BY <2>1, <2>2, <2>3 DEF Next
<1> QED BY <1>1, InitInv, PTL DEF Spec

\* poll_copy keeps every index in its buffer, for every buffer size.
THEOREM TypeCorrect == Spec => []TypeOK
<1>1. IInv => TypeOK
  BY DEF IInv
<1> QED BY <1>1, Invariance, PTL

\* poll_copy neither loses, repeats nor reorders a byte, for every buffer
\* size, however reads and writes are cut.
THEOREM BytesInOrder == Spec => []ByteOrder
<1>1. IInv => ByteOrder
  BY DEF IInv
<1> QED BY <1>1, Invariance, PTL

\* transfer shuts a sink down only behind the last byte of its source.
THEOREM FinLast == Spec => []FinAfterDrain
<1>1. IInv => FinAfterDrain
  <2> SUFFICES ASSUME IInv, NEW d \in Dir, shut[d] PROVE fin[d] /\ onwire[d] = sent[d]
    BY DEF FinAfterDrain
  <2>1. /\ fin[d] /\ rd[d] = sent[d] /\ pos[d] = cap[d] /\ onwire[d] = Len(written[d])
        /\ amt[d] = Len(written[d]) /\ rd[d] = amt[d] + (cap[d] - pos[d])
    BY DEF IInv, PhaseInv, ByteOrder
  <2> QED BY <2>1, DirTypes DEF IInv
<1> QED BY <1>1, Invariance, PTL

\* A sleeping future has nothing it could do: no wakeup of poll_copy is lost.
THEOREM SleepsOnlyIdle == Spec => []NoLostWakeup
<1>1. IInv => NoLostWakeup
  BY DEF IInv, WakerInv, Quiet, NoLostWakeup
<1> QED BY <1>1, Invariance, PTL

\* The result of BidiCopy::poll means what it says: Ok that the streams were
\* relayed to their ends, an error that a socket was reset.
THEOREM ResultsTruthful == Spec => [](OkMeansComplete /\ FailsOnlyOnReset)
<1>1. IInv => OkMeansComplete /\ FailsOnlyOnReset
  BY DEF IInv, ResultInv
<1> QED BY <1>1, Invariance, PTL

-----------------------------------------------------------------------------
(* The refinement of StreamRelay                                           *)

\* What StreamRelay calls delivered, for one direction.
Delivered(d) == SubSeq(written[d], 1, onwire[d])

\* What is on the wire is the encoded start of the source stream.
WirePrefix ==
    \A d \in Dir :
        /\ Delivered(d) = [i \in 1..onwire[d] |-> Mask(i)]
        /\ Len(Delivered(d)) = onwire[d]
        /\ onwire[d] \in Nat /\ sent[d] \in Nat /\ onwire[d] <= sent[d]

\* It follows from the order of the bytes accepted.
LEMMA DeliveredPrefix == IInv => WirePrefix
<1> SUFFICES ASSUME IInv, NEW d \in Dir
             PROVE  /\ Delivered(d) = [i \in 1..onwire[d] |-> Mask(i)]
                    /\ Len(Delivered(d)) = onwire[d]
                    /\ onwire[d] \in Nat /\ sent[d] \in Nat /\ onwire[d] <= sent[d]
  BY DEF WirePrefix
<1>1. /\ written[d] \in Seq(Int) /\ onwire[d] \in Nat /\ Len(written[d]) \in Nat
      /\ sent[d] \in Nat /\ rd[d] \in Nat
      /\ pos[d] \in Nat /\ cap[d] \in Nat /\ pos[d] <= cap[d]
  BY DirTypes DEF IInv
<1>2. onwire[d] <= Len(written[d]) /\ rd[d] <= sent[d]
  BY DEF IInv, WireInv
<1>3. Len(written[d]) <= rd[d]
  <2>1. amt[d] = Len(written[d]) /\ rd[d] = amt[d] + (cap[d] - pos[d])
    BY DEF IInv, ByteOrder
  <2> QED BY <1>1, <2>1
<1>4. \A i \in 1..onwire[d] : written[d][i] = Mask(i)
  BY <1>1, <1>2 DEF IInv, ByteOrder
<1>5. Delivered(d) = [i \in 1..onwire[d] |-> written[d][i]]
  BY <1>1, <1>2 DEF Delivered
<1>6. Len(Delivered(d)) = onwire[d]
  BY <1>1, <1>2 DEF Delivered
<1>7. Delivered(d) = [i \in 1..onwire[d] |-> Mask(i)]
  BY <1>4, <1>5
<1> QED BY <1>1, <1>2, <1>3, <1>6, <1>7

\* A fresh relay is a fresh relay of the abstract specification.
LEMMA RelayInit == Init => Relay!Init
<1> SUFFICES ASSUME Init PROVE Relay!Init
  OBVIOUS
<1>1. \A d \in Dir : SubSeq(written[d], 1, onwire[d]) = <<>>
  BY DEF Init
<1> QED BY <1>1 DEF Init, Relay!Init

\* A step that puts nothing on a wire, and changes no socket and no result,
\* is invisible.
LEMMA Invisible ==
    ASSUME IInv, IInv', UNCHANGED <<brutal, sent, fin, onwire, shut, task>>,
           rst = {} <=> rst' = {}
    PROVE  UNCHANGED Relay!vars
<1>1. WirePrefix /\ WirePrefix'
  BY DeliveredPrefix, PTL
<1>2. \A d \in Dir : Delivered(d)' = Delivered(d)
  BY <1>1 DEF WirePrefix, Mask, Masked
<1>3. [d \in Dir |-> SubSeq(written'[d], 1, onwire'[d])] = [d \in Dir |-> SubSeq(written[d], 1, onwire[d])]
  BY <1>2 DEF Delivered
<1>4. (rst' # {}) = (rst # {})
  OBVIOUS
<1> QED BY <1>3, <1>4 DEF Relay!vars

\* A step that only moves bytes of one direction onto the wire delivers them,
\* or is invisible.
LEMMA WireStep ==
    ASSUME IInv, IInv', NEW d \in Dir, task = "run", ~shut[d],
           UNCHANGED <<brutal, sent, fin, rst, shut, task>>, onwire' \in [Dir -> Nat],
           onwire'[d] >= onwire[d], \A e \in Dir \ {d} : onwire'[e] = onwire[e]
    PROVE  [Relay!Next]_(Relay!vars)
<1>1. WirePrefix /\ WirePrefix'
  BY DeliveredPrefix, PTL
<1>2. CASE onwire'[d] = onwire[d]
  <2>1. onwire' = onwire
    BY <1>2 DEF IInv, TypeOK
  <2> QED BY <2>1, Invisible
<1>3. CASE onwire'[d] # onwire[d]
  <2>1. onwire'[d] \in Len(SubSeq(written[d], 1, onwire[d])) + 1..sent[d]
    BY <1>1, <1>3 DEF WirePrefix, Delivered
  <2>2. [e \in Dir |-> SubSeq(written'[e], 1, onwire'[e])] =
          [[e \in Dir |-> SubSeq(written[e], 1, onwire[e])] EXCEPT ![d] =
              [i \in 1..onwire'[d] |-> Mask(i)]]
    <3>1. \A e \in Dir : Delivered(e)' = IF e = d THEN [i \in 1..onwire'[d] |-> Mask(i)]
                                                ELSE Delivered(e)
      <4> TAKE e \in Dir
      <4>1. Delivered(e)' = [i \in 1..onwire'[e] |-> Mask(i)]
        BY <1>1 DEF WirePrefix, Mask, Masked
      <4>2. Delivered(e) = [i \in 1..onwire[e] |-> Mask(i)]
        BY <1>1 DEF WirePrefix
      <4> QED BY <4>1, <4>2
    <3> QED BY <3>1 DEF Delivered
  <2>3. Relay!Deliver(d)
    BY <2>1, <2>2 DEF Relay!Deliver
  <2> QED BY <2>3 DEF Relay!Next
<1> QED BY <1>2, <1>3

\* Each event of a peer is the abstract one; a read of the peer is invisible.
LEMMA EnvRefines == ASSUME IInv, IInv', Env PROVE [Relay!Next]_(Relay!vars)
<1>1. ASSUME NEW d \in Dir, PeerSend(d) PROVE Relay!Send(d)
  <2>1. PICK n \in 1..MaxBytes - sent[d] : sent' = [sent EXCEPT ![d] = @ + n]
    BY <1>1 DEF PeerSend
  <2>2. sent[d] + n \in sent[d] + 1..MaxBytes /\ sent' = [sent EXCEPT ![d] = sent[d] + n]
    BY <2>1, DirTypes, BoundAssumption DEF IInv
  <2>3. /\ task = "run" /\ ~fin[d]
        /\ UNCHANGED <<brutal, fin, rst, written, onwire, shut, task>>
    BY <1>1 DEF PeerSend, relayVars, wireVars, endVars
  <2> QED BY <2>2, <2>3 DEF Relay!Send
<1>2. ASSUME NEW d \in Dir, PeerFin(d) PROVE Relay!End(d)
  BY <1>2 DEF PeerFin, relayVars, wireVars, endVars, Relay!End
<1>3. ASSUME NEW d \in Dir, PeerRead(d) PROVE UNCHANGED Relay!vars
  BY <1>3 DEF PeerRead, relayVars, wireVars, endVars, Relay!vars
<1>4. ASSUME NEW s \in Sock, PeerReset(s) PROVE [Relay!Next]_(Relay!vars)
  <2>1. /\ task = "run" /\ rst' # {}
        /\ UNCHANGED <<brutal, sent, fin, written, onwire, shut, task>>
    BY <1>4 DEF PeerReset, relayVars, wireVars, endVars
  <2>2. CASE rst = {}
    BY <2>1, <2>2 DEF Relay!Break, Relay!Next
  <2>3. CASE rst # {}
    BY <2>1, <2>3, Invisible
  <2> QED BY <2>2, <2>3
<1>5. UNCHANGED brutal
  BY DEF Env, PeerSend, PeerFin, PeerRead, PeerReset, relayVars
<1> QED BY <1>1, <1>2, <1>3, <1>4, <1>5 DEF Env, Relay!Next

\* An error of the future is an abort: some socket was reset.
LEMMA FailRefines ==
    ASSUME IInv, IInv', Fail, task = "run",
           UNCHANGED <<brutal, sent, fin, rst, written, onwire, shut>>
    PROVE  [Relay!Next]_(Relay!vars)
<1>1. task' = "err" /\ rst # {}
  BY DEF Fail, IInv, FailsOnlyOnReset
<1> QED BY <1>1 DEF Relay!Abort, Relay!Next

\* poll_read_buf shows only when it fails.
LEMMA ReadRefines == ASSUME IInv, IInv', PollRead PROVE [Relay!Next]_(Relay!vars)
<1>1. task = "run" /\ UNCHANGED <<brutal, sent, fin, rst, written, onwire, shut>>
  BY DEF PollRead, envVars, wireVars
<1>2. CASE Fail
  BY <1>1, <1>2, FailRefines
<1>3. CASE ~Fail
  <2>1. task' = task
    BY <1>3 DEF PollRead, ReadSome, ReadEof, ReadPending, endVars
  <2> QED BY <1>1, <2>1, Invisible
<1> QED BY <1>2, <1>3

\* poll_write_buf delivers what the writer sends at once, and hides the rest.
LEMMA WriteRefines == ASSUME IInv, IInv', PollWrite PROVE [Relay!Next]_(Relay!vars)
<1>1. task = "run" /\ UNCHANGED <<brutal, sent, fin, rst>> /\ pc = "write"
  BY DEF PollWrite, envVars
<1>2. PICK d \in Dir : cur = d
  BY DEF IInv, TypeOK
<1>3. CASE Fail /\ UNCHANGED wireVars
  BY <1>1, <1>3, FailRefines DEF wireVars
<1>4. CASE WriteSome(d)
  <2>1. PICK i \in 1..Offered(d) : \E j \in onwire[d]..Len(written[d]) + i :
            onwire' = [onwire EXCEPT ![d] = j]
    BY <1>4 DEF WriteSome
  <2>2. PICK j \in onwire[d]..Len(written[d]) + i : onwire' = [onwire EXCEPT ![d] = j]
    BY <2>1
  <2>3. UNCHANGED <<shut, task>>
    BY <1>4 DEF WriteSome, endVars
  <2>4. onwire' \in [Dir -> Nat]
    BY DEF IInv, TypeOK
  <2>5. onwire'[d] = j /\ \A e \in Dir \ {d} : onwire'[e] = onwire[e]
    BY <2>2 DEF IInv, TypeOK
  <2>6. j >= onwire[d]
    OBVIOUS
  <2>7. ~shut[d]
    BY <1>1, <1>2 DEF IInv, CallInv, PhaseInv
  <2> QED BY <1>1, <2>3, <2>4, <2>5, <2>6, <2>7, WireStep
<1>5. CASE WritePending(d)
  <2>1. UNCHANGED <<onwire, shut, task>>
    BY <1>5 DEF WritePending, wireVars, endVars
  <2> QED BY <1>1, <2>1, Invisible
<1> QED BY <1>2, <1>3, <1>4, <1>5 DEF PollWrite

\* A flush in direction d delivers what the wire takes.
LEMMA PushRefines ==
    ASSUME IInv, IInv', NEW d \in Dir, task = "run", ~shut[d], Push(d),
           UNCHANGED <<brutal, sent, fin, rst, shut, task>>
    PROVE  [Relay!Next]_(Relay!vars)
<1>1. /\ onwire' \in [Dir -> Nat]
      /\ \A e \in Dir \ {d} : onwire'[e] = onwire[e]
  BY PushFacts
<1>2. /\ acked[d] \in Nat /\ onwire[d] \in Nat /\ Len(written[d]) \in Nat /\ SndBuf \in Nat
      /\ onwire[d] <= Len(written[d]) /\ onwire[d] <= acked[d] + SndBuf
  BY DirTypes, WireAssumption DEF IInv, WireInv
<1>3. onwire'[d] = onwire[d] + Least(Staged(d), Room(d))
  BY DEF IInv, TypeOK, Push
<1>4. onwire'[d] >= onwire[d]
  BY <1>2, <1>3 DEF Least, Staged, Room
<1> QED BY <1>1, <1>4, WireStep

\* Both calls of poll_flush_buf.
LEMMA FlushRefines ==
    ASSUME IInv, IInv', PollFlush \/ PollFlushEof PROVE [Relay!Next]_(Relay!vars)
<1>1. /\ task = "run" /\ UNCHANGED <<brutal, sent, fin, rst, written, shut>>
      /\ pc \in {"flushp", "flusheof"}
  BY DEF PollFlush, PollFlushEof, envVars
<1>2. PICK d \in Dir : cur = d
  BY DEF IInv, TypeOK
<1>3. ~shut[d]
  BY <1>1, <1>2 DEF IInv, CallInv, PhaseInv
<1>4. CASE Fail /\ UNCHANGED onwire
  BY <1>1, <1>4, FailRefines
<1>5. CASE Push(d) /\ UNCHANGED task
  BY <1>1, <1>3, <1>5, PushRefines
<1> QED BY <1>2, <1>4, <1>5 DEF PollFlush, PollFlushEof, FlushPending, endVars

\* poll_shutdown finds nothing staged: it closes the sink, or fails.
LEMMA ShutdownRefines == ASSUME IInv, IInv', PollShutdown PROVE [Relay!Next]_(Relay!vars)
<1>1. task = "run" /\ pc = "shutdown" /\ UNCHANGED <<brutal, sent, fin, rst, written>>
  BY DEF PollShutdown, envVars
<1>2. PICK d \in Dir : cur = d
  BY DEF IInv, TypeOK
<1>3. /\ st[d] = "ShuttingDown" /\ ~shut[d] /\ fin[d]
      /\ onwire[d] = Len(written[d]) /\ rd[d] = sent[d] /\ pos[d] = cap[d]
  BY <1>1, <1>2 DEF IInv, CallInv, PhaseInv
<1>4. CASE Fail /\ UNCHANGED <<onwire, shut>>
  BY <1>1, <1>4, FailRefines
<1>5. CASE Push(d) /\ UNCHANGED <<shut, task>>
  BY <1>1, <1>3, <1>5, PushRefines
<1>6. CASE Push(d) /\ shut' = [shut EXCEPT ![d] = TRUE] /\ UNCHANGED task
  <2>1. onwire' = onwire
    <3>1. Staged(d) <= Room(d) /\ onwire'[d] = onwire[d]
      BY <1>3, <1>6, PushFacts
    <3>2. onwire' \in [Dir -> Nat] /\ \A e \in Dir : onwire'[e] = onwire[e]
      BY <1>6, <3>1, PushFacts
    <3> QED BY <3>2 DEF IInv, TypeOK
  <2>2. Len(SubSeq(written[d], 1, onwire[d])) = sent[d]
    <3>1. amt[d] = Len(written[d]) /\ rd[d] = amt[d] + (cap[d] - pos[d])
      BY DEF IInv, ByteOrder
    <3>2. onwire[d] = sent[d]
      BY <1>3, <3>1, DirTypes DEF IInv
    <3> QED BY <3>2, DeliveredPrefix DEF WirePrefix, Delivered
  <2>3. Relay!Close(d)
    BY <1>1, <1>3, <1>6, <2>1, <2>2 DEF Relay!Close
  <2> QED BY <1>1, <2>3 DEF Relay!Next
<1> QED BY <1>2, <1>4, <1>5, <1>6 DEF PollShutdown, FlushPending, endVars

\* Combine finishes the abstract relay when the closed sinks allow it.
LEMMA CombineRefines == ASSUME IInv, IInv', Combine PROVE [Relay!Next]_(Relay!vars)
<1>1. task = "run" /\ UNCHANGED <<brutal, sent, fin, rst, written, onwire, shut>>
  BY DEF Combine, envVars, wireVars
<1>2. CASE task' = "ok"
  <2>1. IF brutal THEN \E d \in Dir : shut[d] ELSE \A d \in Dir : shut[d]
    BY <1>1, <1>2 DEF IInv, ResultInv, OkMeansComplete
  <2> QED BY <1>1, <1>2, <2>1 DEF Relay!Finish, Relay!Next
<1>3. CASE task' = task
  BY <1>1, <1>3, Invisible
<1> QED BY <1>2, <1>3 DEF Combine, endVars

\* The future, with its buffers, wakers and partial polls, implements the
\* relay of StreamRelay, for every buffer size, wire, stream and feature set.
THEOREM RelayRefined == Spec => ImplementsRelay
<1>1. IInv /\ IInv' /\ [Next]_vars => [Relay!Next]_(Relay!vars)
  <2> SUFFICES ASSUME IInv, IInv', [Next]_vars PROVE [Relay!Next]_(Relay!vars)
    OBVIOUS
  <2>1. CASE Env
    BY <2>1, EnvRefines
  <2>2. CASE PollRead \/ PollWrite \/ PollFlush \/ PollFlushEof \/ PollShutdown \/ Combine
    BY <2>2, ReadRefines, WriteRefines, FlushRefines, ShutdownRefines, CombineRefines
  <2>3. CASE Poll \/ TransferDone \/ UNCHANGED vars
    <3>1. UNCHANGED <<brutal, sent, fin, rst, onwire, shut, task>>
      BY <2>3 DEF Poll, TransferDone, vars, envVars, wireVars, endVars
    <3> QED BY <3>1, Invisible
  <2> QED BY <2>1, <2>2, <2>3 DEF Next, Step
<1> QED BY <1>1, RelayInit, Invariance, PTL DEF Spec, ImplementsRelay, Relay!Spec

=============================================================================
