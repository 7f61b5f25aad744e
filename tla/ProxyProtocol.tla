--------------------------- MODULE ProxyProtocol ---------------------------
(***************************************************************************)
(* handle_proxy of hoorayhug_core (tcp/proxy.rs): the PROXY header of the  *)
(* client is peeked, parsed and removed from the socket, and one is sent   *)
(* to the server, before the relay starts.  The client's bytes arrive in   *)
(* pieces.  The proxy-protocol crate's parse is external: it fails on an   *)
(* incomplete header and otherwise takes exactly the header.               *)
(***************************************************************************)
EXTENDS Integers

CONSTANTS
    HdrLens,        \* lengths a header may have
    PayLen,         \* bytes of payload behind the header
    PeekCap,        \* size of the peek buffer: 256
    HasTimeout,     \* accept_proxy_timeout # 0
    Versions        \* values of send_proxy_version, which nothing checks

ASSUME LenAssumption == HdrLens \subseteq Nat \ {0} /\ PayLen \in Nat /\ PeekCap \in Nat \ {0}
ASSUME TimeoutAssumption == HasTimeout \in BOOLEAN
ASSUME VersionAssumption == Versions \subseteq Nat /\ Versions # {}

\* What handle_header distinguishes: a version 1 header with addresses or
\* UNKNOWN; a version 2 header LOCAL, not of a stream, with ip addresses, or
\* without.
Kinds == {"v1ip", "v1unknown", "v2local", "v2dgram", "v2ip", "v2noip"}
Families == {4, 6}

VARIABLES
    accept_proxy, send_proxy, send_proxy_version,   \* ProxyOpts
    kind, hfam, hlen,   \* the client's header: kind, address family, length
    pfam,               \* address family of the client's connection
    arrived, eof,       \* bytes that have reached the socket, and its end
    taken,              \* bytes read from it
    peeked, parsed_n,   \* bytes peeked, and parsed of them
    fwd_hdr,            \* addresses were taken from the header
    client_addr, server_addr,   \* where they come from, or "uninit"
    cfam, sfam,         \* their families
    sent_hdr,           \* source of the header written to the server
    pc

clientVars == <<accept_proxy, send_proxy, send_proxy_version, kind, hfam, hlen, pfam>>
addrVars == <<client_addr, server_addr, cfam, sfam>>
vars == <<clientVars, arrived, eof, taken, peeked, parsed_n, fwd_hdr, addrVars, sent_hdr, pc>>

HdrOf == IF accept_proxy THEN hlen ELSE 0

Init ==
    /\ kind \in Kinds /\ hfam \in Families /\ pfam \in Families /\ hlen \in HdrLens
    /\ accept_proxy \in BOOLEAN /\ send_proxy \in BOOLEAN
    /\ send_proxy_version \in Versions
    /\ accept_proxy \/ send_proxy
    /\ arrived = 0 /\ eof = FALSE /\ taken = 0 /\ peeked = 0 /\ parsed_n = 0
    /\ fwd_hdr = FALSE
    /\ client_addr = "uninit" /\ server_addr = "uninit"
    /\ cfam \in Families /\ sfam \in Families
    /\ sent_hdr = "none"
    /\ pc = IF accept_proxy THEN "peek" ELSE "addr"

\* The client sends its header, when one is expected, and payload.
Arrive ==
    /\ ~eof
    /\ \E n \in 1..HdrOf + PayLen - arrived : arrived' = arrived + n
    /\ UNCHANGED <<clientVars, eof, taken, peeked, parsed_n, fwd_hdr, addrVars, sent_hdr, pc>>

\* The client closes, early or not.
Close ==
    /\ ~eof /\ eof' = TRUE
    /\ UNCHANGED <<clientVars, arrived, taken, peeked, parsed_n, fwd_hdr, addrVars, sent_hdr, pc>>

\* One peek, of what is there: "may not read the entire header".
Peek ==
    /\ pc = "peek" /\ (arrived > 0 \/ eof)
    /\ peeked' = IF arrived < PeekCap THEN arrived ELSE PeekCap
    /\ pc' = "parse"
    /\ UNCHANGED <<clientVars, arrived, eof, taken, parsed_n, fwd_hdr, addrVars, sent_hdr>>

\* Mutant: the peek has no timeout.
PeekExpires_Never == FALSE

\* timeoutfut polls the peek first.
PeekExpires == HasTimeout /\ arrived = 0 /\ ~eof

PeekTimeout ==
    /\ pc = "peek" /\ PeekExpires
    /\ pc' = "failed"
    /\ UNCHANGED <<clientVars, arrived, eof, taken, peeked, parsed_n, fwd_hdr, addrVars, sent_hdr>>

ParseErr ==
    /\ pc = "parse" /\ peeked < hlen
    /\ pc' = "failed"
    /\ UNCHANGED <<clientVars, arrived, eof, taken, peeked, parsed_n, fwd_hdr, addrVars, sent_hdr>>

\* Mutant: the whole peek is taken for the header.
ParsedLen_WholePeek == peeked

\* peek_n - slice.remaining()
ParsedLen == hlen

\* Mutant: LOCAL headers are not ignored.
CarriesAddrs_Local == kind \in {"v1ip", "v2ip", "v2local"}

\* handle_header returns the addresses of the header.
CarriesAddrs == kind \in {"v1ip", "v2ip"}

ParseOk ==
    /\ pc = "parse" /\ peeked >= hlen
    /\ parsed_n' = ParsedLen
    /\ fwd_hdr' = CarriesAddrs
    /\ IF CarriesAddrs
       THEN /\ client_addr' = "header" /\ server_addr' = "header"
            /\ cfam' = hfam /\ sfam' = hfam
       ELSE UNCHANGED addrVars
    /\ pc' = "remove"
    /\ UNCHANGED <<clientVars, arrived, eof, taken, peeked, sent_hdr>>

\* read_exact of the parsed bytes, which are in the socket.
Remove ==
    /\ pc = "remove"
    /\ taken' = taken + parsed_n
    /\ pc' = IF send_proxy THEN "addr" ELSE "relay"
    /\ UNCHANGED <<clientVars, arrived, eof, peeked, parsed_n, fwd_hdr, addrVars, sent_hdr>>

\* Mutant: a header without addresses leaves them unset.
NeedsReal_AcceptOff == ~accept_proxy

\* use real addr
NeedsReal == ~fwd_hdr

\* Mutant: the unspecified server address is always of version 4.
ServerFam_V4 == 4

ServerFam == pfam

UseRealAddr ==
    /\ pc = "addr"
    /\ IF NeedsReal
       THEN /\ client_addr' = "real" /\ server_addr' = "unspecified"
            /\ cfam' = pfam /\ sfam' = ServerFam
       ELSE UNCHANGED addrVars
    /\ pc' = "write"
    /\ UNCHANGED <<clientVars, arrived, eof, taken, peeked, parsed_n, fwd_hdr, sent_hdr>>

\* make_header: both versions unpack the two addresses by the client's family.
\* Anything else is unreachable!().
MakeHeaderPanics == send_proxy_version \notin {1, 2} \/ cfam # sfam

\* The header is made and written; a panic aborts the process.
WriteHeader ==
    /\ pc = "write" /\ ~MakeHeaderPanics
    /\ sent_hdr' = client_addr
    /\ pc' = "relay"
    /\ UNCHANGED <<clientVars, arrived, eof, taken, peeked, parsed_n, fwd_hdr, addrVars>>

Panic ==
    /\ pc = "write" /\ MakeHeaderPanics
    /\ pc' = "aborted"
    /\ UNCHANGED <<clientVars, arrived, eof, taken, peeked, parsed_n, fwd_hdr, addrVars, sent_hdr>>

\* The socket fails under peek, peer_addr, read_exact or write_all.
IoErr ==
    /\ pc \in {"peek", "remove", "addr", "write"}
    /\ pc = "addr" => NeedsReal
    /\ pc = "write" => ~MakeHeaderPanics
    /\ pc' = "failed"
    /\ UNCHANGED <<clientVars, arrived, eof, taken, peeked, parsed_n, fwd_hdr, addrVars, sent_hdr>>

Step ==
    \/ Peek \/ PeekTimeout \/ ParseErr \/ ParseOk \/ Remove \/ UseRealAddr
    \/ WriteHeader \/ Panic

Next == Arrive \/ Close \/ Step \/ IoErr

Spec == Init /\ [][Next]_vars

FairSpec == Spec /\ WF_vars(Step)

-----------------------------------------------------------------------------
(* Properties                                                              *)

\* Every variable has its type; bytes are read only after they arrived.
TypeOK ==
    /\ kind \in Kinds /\ {hfam, pfam, cfam, sfam} \subseteq Families /\ hlen \in HdrLens
    /\ send_proxy_version \in Versions
    /\ {accept_proxy, send_proxy, eof} \subseteq BOOLEAN
    /\ arrived \in 0..hlen + PayLen /\ taken \in 0..arrived
    /\ peeked \in 0..PeekCap /\ parsed_n \in 0..PeekCap
    /\ fwd_hdr \in BOOLEAN
    /\ client_addr \in {"uninit", "header", "real"}
    /\ server_addr \in {"uninit", "header", "unspecified"}
    /\ sent_hdr \in {"none", "header", "real"}
    /\ pc \in {"peek", "parse", "remove", "addr", "write", "relay", "failed", "aborted"}

\* The relay starts at the first byte of the payload, however header and
\* payload were cut into segments.
PayloadIntact ==
    pc = "relay" => taken = HdrOf

\* "sockaddr is always initialized": the two assume_init are never reached
\* with an unset address, whatever the options and the kind of header, and the
\* unpacking of the families never panics: only a configured header version
\* that does not exist aborts the process.
AbortsOnlyOnVersion ==
    /\ pc = "write" => client_addr # "uninit" /\ server_addr # "uninit"
    /\ pc = "aborted" => send_proxy_version \notin {1, 2}

\* The server is told the client's address: the one in the client's own
\* header when that carries one for a relayed tcp connection, else the
\* address of the connection; and no header is sent unless asked for.
TellsTheClient ==
    pc = "relay" =>
        sent_hdr = IF accept_proxy /\ ~send_proxy THEN "none"
                   ELSE IF accept_proxy /\ kind \in {"v1ip", "v2ip"} THEN "header"
                   ELSE "real"

\* With a timeout the exchange comes to an end, also with a silent client.
ExchangeEnds == <>(pc \in {"relay", "failed", "aborted"})

=============================================================================
