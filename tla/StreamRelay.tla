---------------------------- MODULE StreamRelay ----------------------------
(***************************************************************************)
(* What a relay promises, whatever it buffers and however it is polled:    *)
(* each direction delivers a prefix of its source stream, byte for byte    *)
(* under the relay's encoding, passes the end of the stream on when all of *)
(* it is delivered, finishes only then, and fails only on a broken link.   *)
(***************************************************************************)
EXTENDS Integers, Sequences

CONSTANTS
    Dir,        \* the directions of the relay
    MaxBytes,   \* bound: bytes a source sends
    Encode(_)   \* what the relay makes of the byte at a position

VARIABLES
    brutal,     \* one finished direction finishes the relay
    sent,       \* bytes each source has sent
    fin,        \* each source has ended
    broken,     \* a link was reset
    delivered,  \* what each sink has been given
    closed,     \* each sink has been told the end of the stream
    status      \* "run", "ok" or "err"

vars == <<brutal, sent, fin, broken, delivered, closed, status>>

Init ==
    /\ brutal \in BOOLEAN
    /\ sent = [d \in Dir |-> 0]
    /\ fin = [d \in Dir |-> FALSE]
    /\ broken = FALSE
    /\ delivered = [d \in Dir |-> <<>>]
    /\ closed = [d \in Dir |-> FALSE]
    /\ status = "run"

Send(d) ==
    /\ status = "run" /\ ~fin[d]
    /\ \E n \in sent[d] + 1..MaxBytes : sent' = [sent EXCEPT ![d] = n]
    /\ UNCHANGED <<fin, broken, delivered, closed, status>>

End(d) ==
    /\ status = "run" /\ ~fin[d]
    /\ fin' = [fin EXCEPT ![d] = TRUE]
    /\ UNCHANGED <<sent, broken, delivered, closed, status>>

Break ==
    /\ status = "run" /\ ~broken
    /\ broken' = TRUE
    /\ UNCHANGED <<sent, fin, delivered, closed, status>>

Deliver(d) ==
    /\ status = "run" /\ ~closed[d]
    /\ \E n \in Len(delivered[d]) + 1..sent[d] :
           delivered' = [delivered EXCEPT ![d] = [i \in 1..n |-> Encode(i)]]
    /\ UNCHANGED <<sent, fin, broken, closed, status>>

Close(d) ==
    /\ status = "run" /\ ~closed[d] /\ fin[d]
    /\ Len(delivered[d]) = sent[d]
    /\ closed' = [closed EXCEPT ![d] = TRUE]
    /\ UNCHANGED <<sent, fin, broken, delivered, status>>

Finish ==
    /\ status = "run"
    /\ IF brutal THEN \E d \in Dir : closed[d] ELSE \A d \in Dir : closed[d]
    /\ status' = "ok"
    /\ UNCHANGED <<sent, fin, broken, delivered, closed>>

Abort ==
    /\ status = "run" /\ broken
    /\ status' = "err"
    /\ UNCHANGED <<sent, fin, broken, delivered, closed>>

Next ==
    /\ \/ \E d \in Dir : Send(d) \/ End(d) \/ Deliver(d) \/ Close(d)
       \/ Break \/ Finish \/ Abort
    /\ UNCHANGED brutal

Spec == Init /\ [][Next]_vars
=============================================================================
