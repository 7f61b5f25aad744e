----------------------------- MODULE ObfsPrefix -----------------------------
(***************************************************************************)
(* Two relays with obfuscation between them: an endpoint with obfs =       *)
(* "client" writes a random prefix before it relays (bidi_copy_buf, mode   *)
(* 1), an endpoint with obfs = "server" reads and drops it (mode 2), and   *)
(* drops a sender that does not start with one.  The stream from the       *)
(* client's relay to the server's is modelled, and for each end the choice *)
(* between pipes and memory buffers in run_relay, which starts             *)
(* bidi_copy_buf over when splice fails.                                   *)
(*                                                                         *)
(* Bytes have two bits and numbers two digits, '0' and '1', in place of    *)
(* eight and ten.  A read_exact is one step once all its bytes are there:  *)
(* what it has of them earlier is lost with an error.                      *)
(***************************************************************************)
EXTENDS Integers, Sequences, FiniteSets, FiniteSetsExt

\* Digits of a length, at most.
MaxDigits == 3

CONSTANTS
    HdrLen,         \* bytes of a header: 5 in the code
    MaxPayload      \* bound: payload bytes sent

ASSUME HdrAssumption == HdrLen \in Nat /\ HdrLen >= MaxDigits
ASSUME PayloadAssumption == MaxPayload \in Nat

Code == 0..3
Zero == 1                   \* b'0'
Base == 2                   \* digits are Zero..Zero + Base - 1
Header == [1..HdrLen -> Code]

Ends == {"client", "server"}

\* How both ends relay: over pipes, over memory buffers after splice failed
\* with InvalidInput, or over memory buffers from the start (a transport, or
\* not Linux).  Ends that differ in this do not understand each other.
Paths == {"pipe", "fallback", "memory"}

VARIABLES
    sender,     \* "relay", or "probe": something that is not a relay
    path,       \* the path of both ends
    buffered,   \* the transport's writer keeps bytes until it is flushed
    tries,      \* calls of bidi_copy_buf begun by each end
    cpc,        \* client: "generate", "write", "relay" or "ended"
    todo,       \* what write_all has still to write
    need_flush, \* CopyBuffer.need_flush of the client's relay
    staged,     \* bytes in the buffered writer
    wire,       \* bytes on the connection
    sent,       \* payload bytes the client's relay has written
    spc,        \* server: "header", "garbage", "sleep", "relay" or "ended"
    left,       \* garbage it has still to read
    fwd,        \* payload it has forwarded
    first       \* history: the first bytes of a probe, else <<>>

vars == <<sender, path, buffered, tries, cpc, todo, need_flush, staged, wire,
          sent, spc, left, fwd, first>>
config == <<sender, path, buffered, first>>
client == <<cpc, todo, need_flush, staged, sent>>
server == <<spc, left, fwd>>

\* Bytes on the wire: of a header, of the garbage, of the payload.
H(b) == <<"header", b>>
G == <<"garbage", 0>>
P(k) == <<"payload", k>>

-----------------------------------------------------------------------------
(* generate_dynamic_obfs                                                   *)

IsDigit(b) == b \in Zero..Zero + Base - 1

Digits(h) ==
    LET kept[i \in 0..HdrLen] ==
            IF i = 0 THEN <<>>
            ELSE IF IsDigit(h[i]) THEN Append(kept[i - 1], h[i])
            ELSE kept[i - 1]
    IN  kept[HdrLen]

\* The value of a string of digits.
Number(ds) ==
    LET val[i \in 0..Len(ds)] ==
            IF i = 0 THEN 0 ELSE val[i - 1] * Base + (ds[i] - Zero)
    IN  val[Len(ds)]

\* Two digits of which the first is not 0, or three of which one of the
\* first two is not 0.
DigitStrings ==
    LET D == Zero..Zero + Base - 1
    IN  {<<a, b>> : a \in D \ {Zero}, b \in D}
        \union {s \in D \X D \X D : s[1] = Zero => s[2] # Zero}

\* A random byte moved past the digits.
Filler(v) == IF v < Zero THEN v ELSE v + Base

\* The digits in order at the places S, fillers elsewhere.
Place(ds, S, v) ==
    [i \in 1..HdrLen |->
        IF i \in S THEN ds[Cardinality({j \in S : j <= i})] ELSE Filler(v[i])]

Headers ==
    UNION {{Place(ds, S, v) : S \in kSubset(Len(ds), 1..HdrLen),
                              v \in [1..HdrLen -> 0..3 - Base]} : ds \in DigitStrings}

\* The first bytes of the key: all of them differ but the second and third.
Key == <<2, 3, 3, 1, 0>>

Xor(a, b) == ((a + b) % 2) + 2 * (((a \div 2) + (b \div 2)) % 2)

\* A header with the key applied: applied twice it is the header again.
Keyed(h) == [i \in 1..HdrLen |-> Xor(h[i], Key[((i - 1) % Len(Key)) + 1])]

Prefix(h) ==
    [i \in 1..HdrLen |-> H(Keyed(h)[i])] \o [i \in 1..Number(Digits(h)) |-> G]

-----------------------------------------------------------------------------

Init ==
    /\ sender \in {"relay", "probe"}
    /\ buffered \in BOOLEAN
    /\ path \in Paths
    /\ buffered => path = "memory"
    /\ tries = [e \in Ends |-> 1]
    /\ first \in IF sender = "probe" THEN Header ELSE {<<>>}
    /\ todo = [i \in 1..Len(first) |-> H(first[i])]
    /\ cpc = IF sender = "probe" THEN "write" ELSE "generate"
    /\ need_flush = FALSE /\ staged = <<>> /\ wire = <<>> /\ sent = 0
    /\ spc = "header" /\ left = 0 /\ fwd = <<>>

\* The end relays over memory buffers in this try.
InMemory(e) == path = "memory" \/ tries[e] = 2

\* A splice of the first try fails with InvalidInput.
SpliceFails(e) == path = "fallback" /\ tries[e] = 1

\* poll_read_buf of the memory buffer masks, the pipe does not.  Masking
\* negates: like ^ 0x5A it changes every byte and undoes itself.
Mask(e, x) == IF InMemory(e) THEN <<x[1], -x[2]>> ELSE x

\* A write to the next hop.
Put(bytes) ==
    IF buffered THEN staged' = staged \o bytes /\ UNCHANGED wire
    ELSE wire' = wire \o bytes /\ UNCHANGED staged

\* The buffered writer passes on its first n bytes.
PassOn(n) ==
    /\ wire' = wire \o SubSeq(staged, 1, n)
    /\ staged' = SubSeq(staged, n + 1, Len(staged))

-----------------------------------------------------------------------------
(* The client's relay                                                      *)

Generate ==
    /\ cpc = "generate"
    /\ \E h \in Headers : todo' = Prefix(h)
    /\ cpc' = "write"
    /\ UNCHANGED <<config, tries, need_flush, staged, wire, sent, server>>

\* write_all, not followed by a flush.
WritePrefix ==
    /\ cpc = "write"
    /\ \E n \in 1..Len(todo) :
           /\ Put(SubSeq(todo, 1, n))
           /\ todo' = SubSeq(todo, n + 1, Len(todo))
           /\ cpc' = IF n = Len(todo) THEN "relay" ELSE "write"
    /\ UNCHANGED <<config, tries, need_flush, sent, server>>

\* Mutant: a write does not ask for a flush.
NeedFlush_Kept == need_flush

NeedFlush == TRUE

RelayPayload ==
    /\ cpc = "relay" /\ sent < MaxPayload
    /\ sender = "relay" => ~SpliceFails("client")
    /\ Put(<<Mask("client", P(sent + 1))>>)
    /\ sent' = sent + 1
    /\ need_flush' = NeedFlush
    /\ UNCHANGED <<config, tries, cpc, todo, server>>

\* A reader has nothing to read: poll_copy flushes what it has written.
Flush ==
    /\ cpc = "relay" /\ need_flush
    /\ PassOn(Len(staged))
    /\ need_flush' = FALSE
    /\ UNCHANGED <<config, tries, cpc, todo, sent, server>>

\* The writer passes bytes on by itself.
Spill ==
    /\ \E n \in 1..Len(staged) : PassOn(n)
    /\ UNCHANGED <<config, tries, cpc, todo, need_flush, sent, server>>

\* run_relay starts over with memory buffers, and bidi_copy_buf with a prefix.
ClientFallback ==
    /\ cpc = "relay" /\ sender = "relay" /\ SpliceFails("client")
    /\ tries' = [tries EXCEPT !["client"] = 2]
    /\ cpc' = "generate"
    /\ UNCHANGED <<config, todo, need_flush, staged, wire, sent, server>>

\* The stream ends, by an error also in the middle of the prefix.
ClientEnds ==
    /\ cpc # "ended"
    /\ cpc' = "ended" /\ todo' = <<>> /\ staged' = <<>>
    /\ UNCHANGED <<config, tries, need_flush, wire, sent, server>>

-----------------------------------------------------------------------------
(* The server's relay                                                      *)

\* Mutant: a zero in front is refused in numbers of three digits only.
IsProbe_ShortZero(ds) ==
    \/ Len(ds) \notin {2, 3}
    \/ Len(ds) = 3 /\ ds[1] = Zero /\ ds[2] = Zero

IsProbe(ds) ==
    \/ Len(ds) \notin {2, 3}
    \/ Len(ds) = 2 /\ ds[1] = Zero
    \/ Len(ds) = 3 /\ ds[1] = Zero /\ ds[2] = Zero

\* What the next bytes are as a header: garbage and payload may be any.
Readings ==
    IF \A i \in 1..HdrLen : wire[i][1] = "header"
    THEN {[i \in 1..HdrLen |-> wire[i][2]]}
    ELSE Header

\* read_exact of the header, and what follows from its digits.
ReadHeader ==
    /\ spc = "header" /\ Len(wire) >= HdrLen
    /\ wire' = SubSeq(wire, HdrLen + 1, Len(wire))
    /\ \E h \in Readings :
           LET ds == Digits(Keyed(h))
           IN  IF IsProbe(ds)
               THEN spc' = "sleep" /\ UNCHANGED left
               ELSE spc' = "garbage" /\ left' = Number(ds)
    /\ UNCHANGED <<config, tries, client, fwd>>

\* The sleep of three seconds before a probe is dropped.
DropProbe ==
    /\ spc = "sleep" /\ spc' = "ended"
    /\ UNCHANGED <<config, tries, client, wire, left, fwd>>

\* Mutant: the last byte of the garbage is not read.
Garbage_OneLess == left - 1

\* The length of vec![0u8; l].
Garbage == left

ReadGarbage ==
    /\ spc = "garbage" /\ Len(wire) >= Garbage
    /\ wire' = SubSeq(wire, Garbage + 1, Len(wire))
    /\ spc' = "relay" /\ left' = 0
    /\ UNCHANGED <<config, tries, client, fwd>>

\* read_exact fails with UnexpectedEof.
PrefixEof ==
    /\ cpc = "ended"
    /\ \/ spc = "header" /\ Len(wire) < HdrLen
       \/ spc = "garbage" /\ Len(wire) < Garbage
    /\ spc' = "ended" /\ left' = 0 /\ wire' = <<>>
    /\ UNCHANGED <<config, tries, client, fwd>>

Forward ==
    /\ spc = "relay" /\ wire # <<>> /\ ~SpliceFails("server")
    /\ wire' = Tail(wire)
    /\ fwd' = Append(fwd, Mask("server", Head(wire)))
    /\ UNCHANGED <<config, tries, client, spc, left>>

ServerFallback ==
    /\ spc = "relay" /\ SpliceFails("server")
    /\ tries' = [tries EXCEPT !["server"] = 2]
    /\ spc' = "header"
    /\ UNCHANGED <<config, client, wire, left, fwd>>

RelayEof ==
    /\ spc = "relay" /\ ~SpliceFails("server")
    /\ wire = <<>> /\ cpc = "ended"
    /\ spc' = "ended"
    /\ UNCHANGED <<config, tries, client, wire, left, fwd>>

-----------------------------------------------------------------------------

Client == Generate \/ WritePrefix \/ Flush
Server ==
    \/ ReadHeader \/ DropProbe \/ ReadGarbage \/ PrefixEof
    \/ Forward \/ RelayEof

Next ==
    \/ Client \/ ClientFallback \/ RelayPayload \/ Spill \/ ClientEnds
    \/ Server \/ ServerFallback

Spec == Init /\ [][Next]_vars

\* Both tasks are run; a splice is called, and may fail, when there is
\* something to read.  The application need not send, the stream need not end,
\* and a buffered writer need not pass anything on before it is flushed.
FairSpec ==
    /\ Spec
    /\ WF_vars(Client)
    /\ WF_vars(Server \/ (ServerFallback /\ wire # <<>>))

-----------------------------------------------------------------------------
(* Properties                                                              *)

\* Between two relays that take the same path the prefix is removed exactly,
\* once for each try of bidi_copy_buf, and what is forwarded is the payload,
\* unmasked, from its first byte on.
PayloadAligned ==
    sender = "relay" => \A k \in 1..Len(fwd) : fwd[k] = P(k)

\* consume_dynamic_obfs accepts what generate_dynamic_obfs makes and nothing
\* else: a relay is not taken for a probe, and of another sender nothing is
\* forwarded unless its first bytes are those of some prefix.
AcceptsPrefixesOnly ==
    /\ sender = "relay" => spc # "sleep"
    /\ sender = "probe" /\ fwd # <<>> => Keyed(first) \in Headers

\* Whatever the client's relay has read from the application and written is
\* forwarded by the server's relay unless the stream ends: the prefix that was
\* not flushed leaves with it at the latest, and a relay that waits for more to
\* read flushes both.
PayloadArrives ==
    sender = "relay" =>
        \A k \in 1..MaxPayload : sent >= k ~> Len(fwd) >= k \/ cpc = "ended"

=============================================================================
