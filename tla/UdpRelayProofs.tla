--------------------------- MODULE UdpRelayProofs ---------------------------
(***************************************************************************)
(* The association map of UdpRelay for every set of clients and number of  *)
(* sockets and datagrams.                                                  *)
(***************************************************************************)
EXTENDS UdpRelay, TLAPS

\* A socket is made, and inserted, only for a client without an entry: the
\* entry task alone inserts, and what send_back does is remove.
MissInv ==
    epc \in {"associate", "insert"} => sockmap[cli] = None

\* On a single thread the new socket's send_back has not run before its entry
\* is in the map.
FreshInv ==
    ~MultiThread =>
        /\ MappedIsLive
        /\ epc = "insert" => Live(rsock) /\ owner[rsock] = cli

\* A batch is dealt with before the next one is received.
BatchInv == epc = "recv" => \A c \in Clients : batch[c] = 0

IInv == TypeOK /\ BatchInv /\ LiveIsMapped /\ MissInv /\ FreshInv /\ NoSilentLoss

\* The invariant holds before the first datagram.
LEMMA InitInv == Init => IInv
<1> SUFFICES ASSUME Init PROVE IInv
  OBVIOUS
<1>1. TypeOK
  <2>1. /\ inq \in [Clients -> Nat] /\ batch \in [Clients -> Nat]
        /\ total \in [Clients -> Nat] /\ fwd \in [Clients -> Nat]
    BY DEF Init, Empty
  <2>2. /\ sockmap \in [Clients -> Socks \union {None}] /\ owner \in [Socks -> Clients]
        /\ sb \in [Socks -> {"none", "recv", "send", "remove", "done"}]
    BY DEF Init
  <2>3. rq \in [Socks -> Nat] /\ held \in [Socks -> Nat] /\ out \in [Socks -> Nat]
    BY DEF Init
  <2> QED BY <2>1, <2>2, <2>3 DEF Init, TypeOK
<1>2. BatchInv /\ LiveIsMapped /\ MissInv /\ FreshInv
  <2>1. /\ \A s \in Socks : ~Live(s)
        /\ \A c \in Clients : sockmap[c] = None /\ batch[c] = 0
        /\ epc = "recv"
    BY DEF Init, Live, Empty
  <2> QED BY <2>1 DEF BatchInv, LiveIsMapped, MissInv, FreshInv, MappedIsLive
<1>3. NoSilentLoss
  <2>1. \A c \in Clients : inq[c] = 0 /\ batch[c] = 0 /\ fwd[c] = 0 /\ total[c] = 0
    BY DEF Init, Empty
  <2>2. ASSUME NEW c \in Clients
        PROVE  /\ inq[c] + batch[c] + fwd[c] <= total[c]
               /\ inq[c] + batch[c] + fwd[c] = total[c]
    <3>1. inq[c] = 0 /\ batch[c] = 0 /\ fwd[c] = 0 /\ total[c] = 0
      BY <2>1
    <3> QED BY <3>1
  <2> QED BY <2>2 DEF NoSilentLoss
<1> QED BY <1>1, <1>2, <1>3 DEF IInv

-----------------------------------------------------------------------------
(* The entry task                                                          *)

\* Receiving a batch moves datagrams from the socket to the registry.
LEMMA RecvInv == ASSUME IInv, Recv PROVE IInv'
<1> USE DEF IInv
<1>1. PICK n \in [Clients -> 0..MaxPkts] :
        /\ \A c \in Clients : n[c] <= inq[c]
        /\ batch' = n /\ inq' = [c \in Clients |-> inq[c] - n[c]]
  BY DEF Recv, RecvMulPkts
<1>2. \A c \in Clients : n[c] \in Nat /\ inq[c] - n[c] \in Nat
  BY <1>1, PktsAssumption DEF TypeOK
<1>3. TypeOK'
  <2>1. batch' \in [Clients -> Nat] /\ inq' \in [Clients -> Nat]
    BY <1>1, <1>2
  <2> QED BY <2>1 DEF TypeOK, Recv, sbVars, cntVars
<1>4. BatchInv' /\ LiveIsMapped' /\ MissInv' /\ FreshInv'
  BY DEF Recv, sbVars, BatchInv, LiveIsMapped, MissInv, FreshInv, MappedIsLive, Live
<1>5. NoSilentLoss'
  <2> SUFFICES ASSUME NEW c \in Clients
               PROVE  inq'[c] + batch'[c] + fwd'[c] = inq[c] + batch[c] + fwd[c]
    BY DEF NoSilentLoss, Recv, cntVars
  <2>1. /\ batch[c] = 0 /\ batch'[c] = n[c] /\ inq'[c] = inq[c] - n[c] /\ fwd'[c] = fwd[c]
        /\ inq[c] \in Nat /\ n[c] \in Nat /\ fwd[c] \in Nat
    BY <1>1, <1>2 DEF Recv, BatchInv, TypeOK, cntVars
  <2> QED BY <2>1
<1> QED BY <1>3, <1>4, <1>5

\* Steps of associate_and_relay that leave sockmap, sockets and counts alone.
LEMMA ResolveInv == ASSUME IInv, Resolve PROVE IInv'
<1> USE DEF IInv
<1>1. UNCHANGED <<inq, batch, cli, rsock, sockmap, owner, sb, rq, held, out, total, fwd, failed>>
      /\ epc' = "group"
  BY DEF Resolve, sbVars, cntVars
<1>2. TypeOK'
  BY <1>1 DEF TypeOK
<1>3. BatchInv' /\ LiveIsMapped' /\ MissInv' /\ FreshInv'
  BY <1>1 DEF Resolve, BatchInv, LiveIsMapped, MissInv, FreshInv, MappedIsLive, Live
<1>4. NoSilentLoss'
  BY <1>1 DEF NoSilentLoss
<1> QED BY <1>2, <1>3, <1>4

\* A batch ends with nothing left in the registry.
LEMMA EndBatchInv == ASSUME IInv, EndBatch PROVE IInv'
<1> USE DEF IInv
<1>1. /\ UNCHANGED <<inq, batch, cli, sockmap, owner, sb, rq, held, out, total, fwd, failed>>
      /\ epc = "group" /\ epc' = "recv" /\ rsock' = None /\ batch = Empty
  BY DEF EndBatch, sbVars, cntVars
<1>2. TypeOK'
  BY <1>1 DEF TypeOK
<1>3. BatchInv' /\ LiveIsMapped' /\ MissInv' /\ FreshInv'
  BY <1>1 DEF BatchInv, Empty, LiveIsMapped, MissInv, FreshInv, MappedIsLive, Live
<1>4. NoSilentLoss'
  BY <1>1 DEF NoSilentLoss
<1> QED BY <1>2, <1>3, <1>4

\* An error of associate_and_relay drops the batch, and nothing else.
LEMMA ReturnInv ==
    ASSUME IInv, epc # "insert", Return,
           UNCHANGED <<inq, cli, sockmap, owner, sb, rq, held, out, total, fwd>>
    PROVE  IInv'
<1> USE DEF IInv
<1>1. batch' = [c \in Clients |-> 0] /\ epc' = "recv" /\ rsock' = None /\ failed' = TRUE
  BY DEF Return, Empty
<1>2. TypeOK'
  <2>1. batch' \in [Clients -> Nat]
    BY <1>1
  <2> QED BY <1>1, <2>1 DEF TypeOK
<1>3. BatchInv' /\ LiveIsMapped' /\ MissInv' /\ FreshInv'
  BY <1>1 DEF BatchInv, LiveIsMapped, MissInv, FreshInv, MappedIsLive, Live
<1>4. NoSilentLoss'
  <2> SUFFICES ASSUME NEW c \in Clients PROVE inq[c] + 0 + fwd[c] <= total[c]
    BY <1>1 DEF NoSilentLoss
  <2>1. inq[c] \in Nat /\ batch[c] \in Nat /\ fwd[c] \in Nat /\ total[c] \in Nat
    BY DEF TypeOK
  <2> QED BY <2>1 DEF NoSilentLoss
<1> QED BY <1>2, <1>3, <1>4

\* Looking a client up finds a socket, or notes that it has none.
LEMMA FindInv == ASSUME IInv, NEW c \in Clients, Find(c) PROVE IInv'
<1> USE DEF IInv
<1>1. /\ UNCHANGED <<inq, batch, sockmap, owner, sb, rq, held, out, total, fwd, failed>>
      /\ epc = "group" /\ cli' = c /\ rsock' = sockmap[c]
      /\ epc' = IF sockmap[c] = None THEN "associate" ELSE "send"
  BY DEF Find, Groups, AfterFind, sbVars, cntVars
<1>2. TypeOK'
  BY <1>1 DEF TypeOK
<1>3. BatchInv' /\ LiveIsMapped' /\ MissInv' /\ FreshInv'
  BY <1>1 DEF BatchInv, LiveIsMapped, MissInv, FreshInv, MappedIsLive, Live
<1>4. NoSilentLoss'
  BY <1>1 DEF NoSilentLoss
<1> QED BY <1>2, <1>3, <1>4

\* The new socket is its client's only one: no send_back of it is running.
LEMMA AssociateInv == ASSUME IInv, NEW s \in Socks, Associate(s) PROVE IInv'
<1> USE DEF IInv
<1>1. /\ UNCHANGED <<inq, batch, cli, sockmap, rq, held, out, total, fwd, failed>>
      /\ epc = "associate" /\ epc' = "insert" /\ rsock' = s /\ sb[s] = "none"
      /\ owner' = [owner EXCEPT ![s] = cli] /\ sb' = [sb EXCEPT ![s] = "recv"]
  BY DEF Associate, cntVars
<1>2. TypeOK'
  <2>1. owner' \in [Socks -> Clients]
        /\ sb' \in [Socks -> {"none", "recv", "send", "remove", "done"}]
    BY <1>1 DEF TypeOK
  <2>2. rsock' # None
    BY <1>1, SocksAssumption DEF Socks, None
  <2> QED BY <1>1, <2>1, <2>2 DEF TypeOK
<1>3. /\ owner'[s] = cli /\ sb'[s] = "recv"
      /\ \A t \in Socks \ {s} : owner'[t] = owner[t] /\ sb'[t] = sb[t]
  BY <1>1 DEF TypeOK
<1>4. LiveIsMapped'
  BY <1>1, <1>3 DEF LiveIsMapped, Live
<1>5. BatchInv' /\ MissInv'
  BY <1>1 DEF BatchInv, MissInv
<1>6. FreshInv'
  BY <1>1, <1>3 DEF FreshInv, MappedIsLive, Live, TypeOK
<1>7. NoSilentLoss'
  BY <1>1 DEF NoSilentLoss
<1> QED BY <1>2, <1>4, <1>5, <1>6, <1>7

\* Inserting hides no running socket: the client had no entry.
LEMMA InsertInv == ASSUME IInv, Insert PROVE IInv'
<1> USE DEF IInv
<1>1. /\ UNCHANGED <<inq, batch, cli, rsock, owner, sb, rq, held, out, total, fwd, failed>>
      /\ epc = "insert" /\ epc' = "send" /\ sockmap' = [sockmap EXCEPT ![cli] = rsock]
  BY DEF Insert, sbVars, cntVars
<1>2. rsock \in Socks /\ cli \in Clients
  BY <1>1 DEF TypeOK
<1>3. TypeOK'
  <2>1. sockmap' \in [Clients -> Socks \union {None}]
    BY <1>1, <1>2 DEF TypeOK
  <2> QED BY <1>1, <2>1 DEF TypeOK
<1>4. sockmap'[cli] = rsock /\ \A c \in Clients \ {cli} : sockmap'[c] = sockmap[c]
  BY <1>1 DEF TypeOK
<1>5. LiveIsMapped'
  <2> SUFFICES ASSUME NEW s \in Socks, Live(s) PROVE sockmap'[owner[s]] = s
    BY <1>1 DEF LiveIsMapped, Live
  <2>1. owner[s] \in Clients /\ s # None
    BY SocksAssumption DEF TypeOK, Socks, None
  <2> QED BY <1>1, <1>4, <2>1 DEF LiveIsMapped, MissInv
<1>6. BatchInv' /\ MissInv'
  BY <1>1 DEF BatchInv, MissInv
<1>7. FreshInv'
  BY <1>1, <1>4 DEF FreshInv, MappedIsLive, Live
<1>8. NoSilentLoss'
  BY <1>1 DEF NoSilentLoss
<1> QED BY <1>3, <1>5, <1>6, <1>7, <1>8

\* Each sendmmsg of send_all counts its datagrams once.
LEMMA SendSomeInv == ASSUME IInv, SendSome PROVE IInv'
<1> USE DEF IInv
<1>1. PICK n \in 1..batch[cli] :
        /\ batch' = [batch EXCEPT ![cli] = batch[cli] - n]
        /\ fwd' = [fwd EXCEPT ![cli] = @ + n]
        /\ out' = [out EXCEPT ![rsock] = @ + n]
        /\ epc' \in {"group", "send"}
  BY DEF SendSome, SendMulPkts, Unsent, AfterSend
<1>2. /\ epc = "send"
      /\ UNCHANGED <<inq, cli, rsock, sockmap, owner, sb, rq, held, total, failed>>
  BY DEF SendSome, sbVars
<1>3. cli \in Clients /\ batch[cli] \in Nat /\ fwd[cli] \in Nat /\ n \in Nat /\ n <= batch[cli]
      /\ rsock \in Socks
  BY <1>2 DEF TypeOK
<1>4. TypeOK'
  <2>1. batch' \in [Clients -> Nat]
    BY <1>1, <1>3 DEF TypeOK
  <2>2. fwd' \in [Clients -> Nat] /\ out' \in [Socks -> Nat]
    BY <1>1, <1>3 DEF TypeOK
  <2> QED BY <1>1, <1>2, <2>1, <2>2 DEF TypeOK
<1>5. BatchInv' /\ LiveIsMapped' /\ MissInv' /\ FreshInv'
  BY <1>1, <1>2 DEF BatchInv, LiveIsMapped, MissInv, FreshInv, MappedIsLive, Live
<1>6. NoSilentLoss'
  <2> SUFFICES ASSUME NEW c \in Clients
               PROVE  inq[c] + batch'[c] + fwd'[c] = inq[c] + batch[c] + fwd[c]
    BY <1>2 DEF NoSilentLoss
  <2>1. CASE c = cli
    <3>1. batch'[c] = batch[c] - n /\ fwd'[c] = fwd[c] + n /\ inq[c] \in Nat
      BY <1>1, <2>1 DEF TypeOK
    <3> QED BY <1>3, <2>1, <3>1
  <2>2. CASE c # cli
    BY <1>1, <2>2 DEF TypeOK
  <2> QED BY <2>1, <2>2
<1> QED BY <1>4, <1>5, <1>6

-----------------------------------------------------------------------------
(* send_back                                                               *)

\* A send_back that goes on running, or gives up, leaves the map alone.
LEMMA RunningInv ==
    ASSUME IInv, NEW s \in Socks, Live(s), NEW l \in {"recv", "send", "remove"},
           sb' = [sb EXCEPT ![s] = l], rq' \in [Socks -> Nat], held' \in [Socks -> Nat],
           UNCHANGED <<inq, batch, epc, cli, rsock, failed, sockmap, owner, out, total, fwd>>
    PROVE  IInv'
<1> USE DEF IInv
<1>1. sb'[s] = l /\ \A t \in Socks \ {s} : sb'[t] = sb[t]
  BY DEF TypeOK
<1>2. \A t \in Socks : Live(t)' <=> Live(t)
  BY <1>1 DEF Live
<1>3. TypeOK'
  <2>1. sb' \in [Socks -> {"none", "recv", "send", "remove", "done"}]
    BY DEF TypeOK
  <2> QED BY <2>1 DEF TypeOK
<1>4. LiveIsMapped'
  BY <1>2 DEF LiveIsMapped
<1>5. FreshInv'
  <2>1. rsock \in Socks => (Live(rsock)' <=> Live(rsock))
    <3> SUFFICES ASSUME NEW t \in Socks, t = rsock PROVE Live(rsock)' <=> Live(rsock)
      OBVIOUS
    <3> QED BY <1>2 DEF Live
  <2>2. \A c \in Clients : sockmap[c] # None => (Live(sockmap[c])' <=> Live(sockmap[c]))
    <3> SUFFICES ASSUME NEW c \in Clients, sockmap[c] # None
                 PROVE  Live(sockmap[c])' <=> Live(sockmap[c])
      OBVIOUS
    <3>1. sockmap[c] \in Socks
      BY DEF TypeOK
    <3> QED BY <1>1, <3>1 DEF Live
  <2> QED BY <2>1, <2>2 DEF FreshInv, MappedIsLive, TypeOK
<1>6. BatchInv' /\ MissInv' /\ NoSilentLoss'
  BY DEF BatchInv, MissInv, NoSilentLoss
<1> QED BY <1>3, <1>4, <1>5, <1>6

\* The entry removed is the one of the socket that ends.
LEMMA SbRemoveInv == ASSUME IInv, NEW s \in Socks, SbRemove(s) PROVE IInv'
<1> USE DEF IInv
<1>1. /\ UNCHANGED <<inq, batch, epc, cli, rsock, failed, owner, rq, held, out, total, fwd>>
      /\ Scheduled /\ sb[s] = "remove"
      /\ sockmap' = [sockmap EXCEPT ![owner[s]] = None] /\ sb' = [sb EXCEPT ![s] = "done"]
  BY DEF SbRemove, entryVars, cntVars
<1>2. /\ owner[s] \in Clients /\ sockmap'[owner[s]] = None
      /\ \A c \in Clients \ {owner[s]} : sockmap'[c] = sockmap[c]
      /\ sb'[s] = "done" /\ \A t \in Socks \ {s} : sb'[t] = sb[t]
  BY <1>1 DEF TypeOK
<1>3. TypeOK'
  <2>1. sockmap' \in [Clients -> Socks \union {None}]
        /\ sb' \in [Socks -> {"none", "recv", "send", "remove", "done"}]
    BY <1>1 DEF TypeOK
  <2> QED BY <1>1, <2>1 DEF TypeOK
<1>4. LiveIsMapped'
  <2> SUFFICES ASSUME NEW t \in Socks, Live(t)'
               PROVE  sockmap'[owner[t]] = t \/ (epc = "insert" /\ rsock = t /\ cli = owner[t])
    BY <1>1 DEF LiveIsMapped
  <2>1. t # s /\ Live(t) /\ Live(s) /\ owner[t] \in Clients
    BY <1>1, <1>2 DEF Live, TypeOK
  <2>2. CASE epc = "insert" /\ rsock = t /\ cli = owner[t]
    BY <2>2
  <2>3. CASE sockmap[owner[t]] = t
    <3>1. CASE owner[t] # owner[s]
      BY <1>2, <2>1, <2>3, <3>1
    <3>2. CASE owner[t] = owner[s]
      <4>1. epc = "insert" /\ rsock = s /\ cli = owner[s]
        BY <2>1, <2>3, <3>2 DEF LiveIsMapped
      <4>2. sockmap[owner[t]] = None
        BY <3>2, <4>1 DEF MissInv
      <4> QED BY <2>3, <4>2, SocksAssumption DEF Socks, None
    <3> QED BY <3>1, <3>2
  <2> QED BY <2>1, <2>2, <2>3 DEF LiveIsMapped
<1>5. BatchInv' /\ MissInv' /\ NoSilentLoss'
  BY <1>1, <1>2 DEF BatchInv, MissInv, NoSilentLoss, TypeOK
<1>6. FreshInv'
  <2> SUFFICES ASSUME ~MultiThread PROVE MappedIsLive' /\ epc # "insert"
    BY <1>1 DEF FreshInv
  <2>1. epc # "insert"
    BY <1>1 DEF Scheduled
  <2>2. ASSUME NEW c \in Clients, sockmap'[c] # None
        PROVE  sb'[sockmap'[c]] \in {"recv", "send", "remove"} /\ owner[sockmap'[c]] = c
    <3>1. c # owner[s] /\ sockmap'[c] = sockmap[c]
      BY <1>2, <2>2
    <3>2. sockmap[c] \in Socks /\ Live(sockmap[c]) /\ owner[sockmap[c]] = c
      BY <2>2, <3>1 DEF TypeOK, FreshInv, MappedIsLive
    <3>3. sockmap[c] # s
      BY <3>1, <3>2
    <3>4. sb'[sockmap'[c]] = sb[sockmap[c]]
      BY <1>2, <3>1, <3>2, <3>3
    <3> QED BY <3>1, <3>2, <3>4 DEF Live
  <2> QED BY <1>1, <2>1, <2>2 DEF MappedIsLive, Live
<1> QED BY <1>3, <1>4, <1>5, <1>6

\* Every step of a send_back preserves the invariant.
LEMMA SendBackInv ==
    ASSUME IInv, NEW s \in Socks, SendBack(s) \/ SendBackErr(s) PROVE IInv'
<1> USE DEF IInv
<1>1. CASE SbRecv(s)
  <2>1. PICK n \in 1..rq[s] : rq' = [rq EXCEPT ![s] = @ - n] /\ held' = [held EXCEPT ![s] = n]
    BY <1>1 DEF SbRecv
  <2>2. n \in Nat /\ rq[s] - n \in Nat
    BY DEF TypeOK
  <2>3. rq' \in [Socks -> Nat] /\ held' \in [Socks -> Nat]
    BY <2>1, <2>2 DEF TypeOK
  <2> QED BY <1>1, <2>3, RunningInv DEF SbRecv, Live, entryVars, cntVars
<1>2. CASE SbSend(s)
  <2>1. PICK n \in 1..held[s] :
          /\ held' = [held EXCEPT ![s] = @ - n]
          /\ sb' = [sb EXCEPT ![s] = IF n = held[s] THEN "recv" ELSE "send"]
    BY <1>2 DEF SbSend
  <2>2. n \in Nat /\ held[s] - n \in Nat
    BY DEF TypeOK
  <2>3. held' \in [Socks -> Nat] /\ rq' \in [Socks -> Nat]
    BY <1>2, <2>1, <2>2 DEF TypeOK, SbSend
  <2>4. \E l \in {"recv", "send", "remove"} : sb' = [sb EXCEPT ![s] = l]
    BY <2>1
  <2> QED BY <1>2, <2>3, <2>4, RunningInv DEF SbSend, Live, entryVars, cntVars
<1>3. CASE SbTimeout(s) \/ SbRecvErr(s)
  BY <1>3, RunningInv DEF SbTimeout, SbRecvErr, Live, entryVars, cntVars, TypeOK
<1>4. CASE SbSendErr(s)
  <2>1. held' \in [Socks -> Nat] /\ rq' \in [Socks -> Nat]
    BY <1>4 DEF SbSendErr, TypeOK
  <2> QED BY <1>4, <2>1, RunningInv DEF SbSendErr, Live, entryVars, cntVars
<1> QED BY <1>1, <1>2, <1>3, <1>4, SbRemoveInv DEF SendBack, SendBackErr

-----------------------------------------------------------------------------
(* The peers, and the theorems                                             *)

\* Datagrams from clients and remotes preserve the invariant.
LEMMA EnvInv == ASSUME IInv, Env PROVE IInv'
<1> USE DEF IInv
<1>1. ASSUME NEW c \in Clients, ClientSend(c) PROVE IInv'
  <2>1. /\ total' = [total EXCEPT ![c] = @ + 1] /\ inq' = [inq EXCEPT ![c] = @ + 1]
        /\ UNCHANGED <<batch, epc, cli, rsock, sockmap, owner, sb, rq, held, out, fwd, failed>>
    BY <1>1 DEF ClientSend, sbVars
  <2>2. TypeOK'
    <3>1. total' \in [Clients -> Nat] /\ inq' \in [Clients -> Nat]
      BY <2>1 DEF TypeOK
    <3> QED BY <2>1, <3>1 DEF TypeOK
  <2>3. BatchInv' /\ LiveIsMapped' /\ MissInv' /\ FreshInv'
    BY <2>1 DEF BatchInv, LiveIsMapped, MissInv, FreshInv, MappedIsLive, Live
  <2>4. NoSilentLoss'
    <3> SUFFICES ASSUME NEW e \in Clients
                 PROVE  /\ inq'[e] + batch[e] + fwd[e] <= total'[e]
                        /\ ~failed => inq'[e] + batch[e] + fwd[e] = total'[e]
      BY <2>1 DEF NoSilentLoss
    <3>1. inq[e] \in Nat /\ batch[e] \in Nat /\ fwd[e] \in Nat /\ total[e] \in Nat
      BY DEF TypeOK
    <3>2. \/ inq'[e] = inq[e] + 1 /\ total'[e] = total[e] + 1
          \/ inq'[e] = inq[e] /\ total'[e] = total[e]
      BY <2>1 DEF TypeOK
    <3>3. /\ inq[e] + batch[e] + fwd[e] <= total[e]
          /\ ~failed => inq[e] + batch[e] + fwd[e] = total[e]
      BY DEF NoSilentLoss
    <3> QED BY <3>1, <3>2, <3>3
  <2> QED BY <2>2, <2>3, <2>4
<1>2. ASSUME NEW s \in Socks, RemoteReply(s) PROVE IInv'
  <2>1. /\ out[s] > 0 /\ out' = [out EXCEPT ![s] = @ - 1] /\ rq' = [rq EXCEPT ![s] = @ + 1]
        /\ UNCHANGED <<inq, batch, epc, cli, rsock, failed, sockmap, owner, sb, held, total, fwd>>
    BY <1>2 DEF RemoteReply, entryVars
  <2>2. TypeOK'
    <3>1. rq' \in [Socks -> Nat]
      BY <2>1 DEF TypeOK
    <3>2. out[s] - 1 \in Nat
      BY <2>1 DEF TypeOK
    <3>3. out' \in [Socks -> Nat]
      BY <2>1, <3>2 DEF TypeOK
    <3> QED BY <2>1, <3>1, <3>3 DEF TypeOK
  <2>3. BatchInv' /\ LiveIsMapped' /\ MissInv' /\ FreshInv' /\ NoSilentLoss'
    BY <2>1 DEF BatchInv, LiveIsMapped, MissInv, FreshInv, MappedIsLive, Live, NoSilentLoss
  <2> QED BY <2>2, <2>3
<1> QED BY <1>1, <1>2 DEF Env

\* Every step, stuttering included, preserves the invariant.
LEMMA NextInv == IInv /\ [Next]_vars => IInv'
<1> SUFFICES ASSUME IInv, [Next]_vars PROVE IInv'
  OBVIOUS
<1>1. CASE Entry \/ EntryErr
  <2>1. CASE ResolveErr \/ AssociateErr \/ SendErr
    BY <2>1, ReturnInv DEF ResolveErr, AssociateErr, SendErr, sbVars, cntVars
  <2> QED BY <1>1, <2>1, RecvInv, ResolveInv, EndBatchInv, InsertInv, SendSomeInv, FindInv,
             AssociateInv DEF Entry, EntryErr
<1>2. CASE \E s \in Socks : SendBack(s) \/ SendBackErr(s)
  BY <1>2, SendBackInv
<1>3. CASE Env
  BY <1>3, EnvInv
<1>4. CASE UNCHANGED vars
  <2>1. UNCHANGED <<inq, batch, epc, cli, rsock, sockmap, owner, sb, rq, held, out, total, fwd,
                    failed>>
    BY <1>4 DEF vars
  <2>2. TypeOK'
    BY <2>1 DEF IInv, TypeOK
  <2>3. BatchInv' /\ LiveIsMapped' /\ MissInv' /\ FreshInv' /\ NoSilentLoss'
    BY <2>1 DEF IInv, BatchInv, LiveIsMapped, MissInv, FreshInv, MappedIsLive, Live, NoSilentLoss
  <2> QED BY <2>2, <2>3 DEF IInv
<1> QED BY <1>1, <1>2, <1>3, <1>4 DEF Next

\* Every variable keeps its type, for any clients and either runtime.
THEOREM TypeCorrect == Spec => []TypeOK
<1>1. IInv => TypeOK
  BY DEF IInv
<1> QED BY <1>1, InitInv, NextInv, PTL DEF Spec

\* send_back's remove never takes the entry of another association, and no
\* client has two of them, on one thread or several.
THEOREM OneAssociation == Spec => []LiveIsMapped
<1>1. IInv => LiveIsMapped
  BY DEF IInv
<1> QED BY <1>1, InitInv, NextInv, PTL DEF Spec

\* A datagram is forwarded at most once, and lost only with an error.
THEOREM DatagramsCounted == Spec => []NoSilentLoss
<1>1. IInv => NoSilentLoss
  BY DEF IInv
<1> QED BY <1>1, InitInv, NextInv, PTL DEF Spec

\* On a single-threaded runtime every socket in the map is being read.
THEOREM RepliesRead ==
    ASSUME ~MultiThread
    PROVE  Spec => []MappedIsLive
<1>1. IInv => MappedIsLive
  BY DEF IInv, FreshInv
<1> QED BY <1>1, InitInv, NextInv, PTL DEF Spec

=============================================================================
