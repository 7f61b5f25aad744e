------------------------ MODULE ProxyProtocolProofs ------------------------
(***************************************************************************)
(* The exchange of PROXY headers for every length of header and payload,   *)
(* every size of the peek buffer and every configured version.             *)
(***************************************************************************)
EXTENDS ProxyProtocol, TLAPS

\* handle_proxy is called only when it has something to do.
OptsInv == accept_proxy \/ send_proxy

\* The bytes of the header that are off the socket at each place, and that
\* what is to be removed has arrived: read_exact does not wait.
RemoveInv ==
    /\ pc \in {"peek", "parse", "remove"} => accept_proxy /\ taken = 0
    /\ pc = "parse" => peeked <= arrived
    /\ pc = "remove" => parsed_n = hlen /\ parsed_n <= arrived
    /\ pc \in {"addr", "write", "relay"} => taken = HdrOf
    /\ pc \in {"addr", "write"} => send_proxy

\* The addresses of the header are kept exactly when it carries some, and a
\* pair of addresses is set together, from one source.
AddrInv ==
    /\ pc \in {"peek", "parse"} => ~fwd_hdr
    /\ pc \in {"remove", "addr", "write"} => fwd_hdr = (accept_proxy /\ CarriesAddrs)
    /\ fwd_hdr => client_addr = "header" /\ server_addr = "header" /\ cfam = sfam
    /\ pc = "write" =>
           /\ client_addr = IF fwd_hdr THEN "header" ELSE "real"
           /\ server_addr # "uninit" /\ cfam = sfam
    /\ pc = "aborted" => send_proxy_version \notin {1, 2}

\* A header is sent last.
SentInv == (pc # "relay" => sent_hdr = "none") /\ TellsTheClient

IInv == TypeOK /\ OptsInv /\ RemoveInv /\ AddrInv /\ SentInv

\* The invariant holds when handle_proxy is entered.
LEMMA InitInv == Init => IInv
<1> SUFFICES ASSUME Init PROVE IInv
  OBVIOUS
<1>1. TypeOK
  <2>1. hlen \in Nat /\ PayLen \in Nat /\ PeekCap \in Nat
    BY LenAssumption DEF Init
  <2>2. arrived \in 0..hlen + PayLen /\ taken \in 0..arrived /\ peeked \in 0..PeekCap
        /\ parsed_n \in 0..PeekCap
    BY <2>1 DEF Init
  <2> QED BY <2>2 DEF Init, TypeOK
<1>2. OptsInv /\ RemoveInv /\ AddrInv /\ SentInv
  BY DEF Init, OptsInv, RemoveInv, AddrInv, SentInv, HdrOf, TellsTheClient
<1> QED BY <1>1, <1>2 DEF IInv

\* What the client does touches only the socket, which it may only fill.
LEMMA ClientInv == ASSUME IInv, Arrive \/ Close PROVE IInv'
<1> USE DEF IInv
<1>1. /\ UNCHANGED <<clientVars, taken, peeked, parsed_n, fwd_hdr, addrVars, sent_hdr, pc>>
      /\ arrived' \in 0..hlen + PayLen /\ arrived <= arrived' /\ eof' \in BOOLEAN
  <2>1. hlen \in Nat /\ PayLen \in Nat /\ HdrOf \in 0..hlen
    BY LenAssumption DEF TypeOK, HdrOf
  <2>2. CASE Arrive
    <3>1. PICK n \in 1..HdrOf + PayLen - arrived : arrived' = arrived + n
      BY <2>2 DEF Arrive
    <3>2. arrived \in Nat
      BY <2>1 DEF TypeOK
    <3>3. n \in Int /\ 1 <= n /\ n <= HdrOf + PayLen - arrived
      BY <2>1, <3>2
    <3>4. arrived' \in 0..hlen + PayLen /\ arrived <= arrived'
      BY <2>1, <3>1, <3>2, <3>3
    <3>5. eof' = eof /\ eof \in BOOLEAN
      BY <2>2 DEF Arrive, TypeOK
    <3> QED BY <2>2, <3>4, <3>5 DEF Arrive
  <2>3. CASE Close
    <3>1. arrived' = arrived /\ arrived \in 0..hlen + PayLen /\ eof' = TRUE
      BY <2>3 DEF Close, TypeOK
    <3>2. arrived <= arrived'
      BY <2>1, <3>1
    <3> QED BY <2>3, <3>1, <3>2 DEF Close
  <2> QED BY <2>2, <2>3
<1>2. TypeOK'
  BY <1>1, LenAssumption DEF TypeOK, clientVars, addrVars
<1>3. OptsInv' /\ RemoveInv' /\ AddrInv' /\ SentInv'
  BY <1>1, LenAssumption DEF TypeOK, OptsInv, RemoveInv, AddrInv, SentInv, TellsTheClient, HdrOf,
     CarriesAddrs, clientVars, addrVars
<1> QED BY <1>2, <1>3

\* An error, of the peek, of the parser or of a socket, ends the exchange.
LEMMA FailInv == ASSUME IInv, PeekTimeout \/ ParseErr \/ IoErr PROVE IInv'
<1> USE DEF IInv
<1>1. /\ pc' = "failed"
      /\ UNCHANGED <<clientVars, arrived, eof, taken, peeked, parsed_n, fwd_hdr, addrVars, sent_hdr>>
      /\ pc # "relay"
  BY DEF PeekTimeout, ParseErr, IoErr
<1>2. TypeOK'
  BY <1>1 DEF TypeOK, clientVars, addrVars
<1>3. OptsInv' /\ RemoveInv' /\ AddrInv' /\ SentInv'
  BY <1>1 DEF OptsInv, RemoveInv, AddrInv, SentInv, TellsTheClient, clientVars, addrVars
<1> QED BY <1>2, <1>3

\* A peek sees no more than has arrived.
LEMMA PeekInv == ASSUME IInv, Peek PROVE IInv'
<1> USE DEF IInv
<1>1. peeked' \in 0..PeekCap /\ peeked' <= arrived
  BY LenAssumption DEF Peek, TypeOK
<1>2. TypeOK'
  BY <1>1 DEF Peek, TypeOK, clientVars, addrVars
<1>3. OptsInv' /\ RemoveInv' /\ AddrInv' /\ SentInv'
  BY <1>1 DEF Peek, OptsInv, RemoveInv, AddrInv, SentInv, TellsTheClient, HdrOf, clientVars,
     addrVars
<1> QED BY <1>2, <1>3

\* A header is parsed only when all of it was peeked, hence has arrived.
LEMMA ParseOkInv == ASSUME IInv, ParseOk PROVE IInv'
<1> USE DEF IInv
<1>1. hlen \in Nat /\ hlen <= peeked /\ hlen <= arrived /\ parsed_n' = hlen
  BY LenAssumption DEF ParseOk, ParsedLen, TypeOK, RemoveInv
<1>2. /\ {cfam', sfam'} \subseteq Families
      /\ client_addr' \in {"uninit", "header", "real"}
      /\ server_addr' \in {"uninit", "header", "unspecified"}
      /\ fwd_hdr' = CarriesAddrs
      /\ fwd_hdr' => client_addr' = "header" /\ server_addr' = "header" /\ cfam' = sfam'
  BY DEF ParseOk, TypeOK, addrVars
<1>3. TypeOK'
  BY <1>1, <1>2, LenAssumption DEF ParseOk, TypeOK, clientVars, CarriesAddrs
<1>4. OptsInv' /\ RemoveInv' /\ SentInv'
  BY <1>1 DEF ParseOk, OptsInv, RemoveInv, SentInv, TellsTheClient, clientVars
<1>5. AddrInv'
  BY <1>2 DEF ParseOk, AddrInv, RemoveInv, CarriesAddrs, clientVars
<1> QED BY <1>3, <1>4, <1>5

\* Exactly the header is removed.
LEMMA RemoveStepInv == ASSUME IInv, Remove PROVE IInv'
<1> USE DEF IInv
<1>1. taken' = hlen /\ taken' \in 0..arrived /\ accept_proxy
  BY LenAssumption DEF Remove, RemoveInv, TypeOK
<1>2. TypeOK'
  BY <1>1 DEF Remove, TypeOK, clientVars, addrVars
<1>3. OptsInv' /\ RemoveInv'
  BY <1>1 DEF Remove, OptsInv, RemoveInv, HdrOf, clientVars
<1>4. AddrInv' /\ SentInv'
  BY <1>1 DEF Remove, AddrInv, SentInv, TellsTheClient, CarriesAddrs, clientVars, addrVars
<1> QED BY <1>2, <1>3, <1>4

\* After the choice of the addresses both are set, and of one family.
LEMMA UseRealAddrInv == ASSUME IInv, UseRealAddr PROVE IInv'
<1> USE DEF IInv
<1>1. /\ {cfam', sfam'} \subseteq Families /\ cfam' = sfam'
      /\ client_addr' = (IF fwd_hdr THEN "header" ELSE "real")
      /\ server_addr' = (IF fwd_hdr THEN "header" ELSE "unspecified")
  BY DEF UseRealAddr, NeedsReal, ServerFam, AddrInv, TypeOK, addrVars
<1>2. TypeOK'
  BY <1>1 DEF UseRealAddr, TypeOK, clientVars
<1>3. OptsInv' /\ RemoveInv' /\ SentInv'
  BY DEF UseRealAddr, OptsInv, RemoveInv, SentInv, TellsTheClient, HdrOf, clientVars
<1>4. AddrInv'
  BY <1>1 DEF UseRealAddr, AddrInv, CarriesAddrs, clientVars
<1> QED BY <1>2, <1>3, <1>4

\* The header names the client; only a version that does not exist aborts.
LEMMA WriteInv == ASSUME IInv, WriteHeader \/ Panic PROVE IInv'
<1> USE DEF IInv
<1>1. CASE WriteHeader
  <2>1. client_addr = (IF accept_proxy /\ CarriesAddrs THEN "header" ELSE "real") /\ send_proxy
    BY <1>1 DEF WriteHeader, AddrInv, RemoveInv
  <2>2. TypeOK'
    BY <1>1, <2>1 DEF WriteHeader, TypeOK, clientVars, addrVars
  <2>3. OptsInv' /\ RemoveInv' /\ AddrInv'
    BY <1>1 DEF WriteHeader, OptsInv, RemoveInv, AddrInv, HdrOf, clientVars, addrVars
  <2>4. SentInv'
    BY <1>1, <2>1 DEF WriteHeader, SentInv, TellsTheClient, CarriesAddrs, clientVars
  <2> QED BY <2>2, <2>3, <2>4
<1>2. CASE Panic
  <2>1. send_proxy_version \notin {1, 2}
    BY <1>2 DEF Panic, MakeHeaderPanics, AddrInv
  <2>2. TypeOK'
    BY <1>2 DEF Panic, TypeOK, clientVars, addrVars
  <2>3. OptsInv' /\ RemoveInv' /\ AddrInv' /\ SentInv'
    BY <1>2, <2>1 DEF Panic, OptsInv, RemoveInv, AddrInv, SentInv, TellsTheClient, clientVars,
       addrVars
  <2> QED BY <2>2, <2>3
<1> QED BY <1>1, <1>2

\* Every step, stuttering included, preserves the invariant.
LEMMA NextInv == IInv /\ [Next]_vars => IInv'
<1> SUFFICES ASSUME IInv, [Next]_vars PROVE IInv'
  OBVIOUS
<1>1. CASE Next
  BY <1>1, ClientInv, FailInv, PeekInv, ParseOkInv, RemoveStepInv, UseRealAddrInv, WriteInv
     DEF Next, Step
<1>2. CASE UNCHANGED vars
  BY <1>2 DEF IInv, TypeOK, OptsInv, RemoveInv, AddrInv, SentInv, TellsTheClient, HdrOf,
     CarriesAddrs, vars, clientVars, addrVars
<1> QED BY <1>1, <1>2

\* IInv is an invariant of handle_proxy.
LEMMA Invariance == Spec => []IInv
<1> QED BY InitInv, NextInv, PTL DEF Spec

\* Every variable keeps its type, and no byte is read before it arrived.
THEOREM TypeCorrect == Spec => []TypeOK
<1>1. IInv => TypeOK
  BY DEF IInv
<1> QED BY <1>1, Invariance, PTL

\* The relay starts at the first byte of the payload, for any length of header
\* and any way the bytes arrive.
THEOREM RelayStartsAtPayload == Spec => []PayloadIntact
<1>1. IInv => PayloadIntact
  BY DEF IInv, RemoveInv, PayloadIntact
<1> QED BY <1>1, Invariance, PTL

\* No unset address is used, and only a version that does not exist aborts.
THEOREM AddressesSet == Spec => []AbortsOnlyOnVersion
<1>1. IInv => AbortsOnlyOnVersion
  BY DEF IInv, AddrInv, AbortsOnlyOnVersion
<1> QED BY <1>1, Invariance, PTL

\* The server is told the right client.
THEOREM ClientNamed == Spec => []TellsTheClient
<1>1. IInv => TellsTheClient
  BY DEF IInv, SentInv
<1> QED BY <1>1, Invariance, PTL

=============================================================================
