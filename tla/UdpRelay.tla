------------------------------ MODULE UdpRelay ------------------------------
(***************************************************************************)
(* The udp relay of hoorayhug_core: run_udp's single entry task receives   *)
(* batches of datagrams and forwards them over one socket per client; a    *)
(* send_back task per socket returns the replies until it times out or     *)
(* fails, and then removes the association from the shared SockMap.        *)
(*                                                                         *)
(* Datagrams are counted, not distinguished: which packets make up a       *)
(* group is the subject of module GroupBy.  A batch of several clients is  *)
(* handled client by client in any order.                                  *)
(***************************************************************************)
EXTENDS Integers

CONSTANTS
    Clients,        \* client addresses
    MaxSocks,       \* bound: association sockets ever made
    MaxPkts,        \* bound: datagrams a client sends
    HasTimeout,     \* associate_timeout # 0
    MultiThread     \* tokio's multi-thread runtime (feature "multi-thread")

ASSUME SocksAssumption == MaxSocks \in Nat
ASSUME PktsAssumption == MaxPkts \in Nat
ASSUME RuntimeAssumption == HasTimeout \in BOOLEAN /\ MultiThread \in BOOLEAN

Socks == 1..MaxSocks
None == 0       \* no socket

VARIABLES
    inq,        \* datagrams waiting in the listening socket, by client
    batch,      \* datagrams of the registry not yet sent, by client
    epc,        \* what the entry task does next
    cli,        \* the client whose group it handles
    rsock,      \* the socket it holds for that group
    sockmap,    \* SockMap: the socket of each client
    owner,      \* the laddr each socket's send_back was given
    sb,         \* what each send_back does next
    rq,         \* replies waiting in each socket
    held,       \* replies in the registry of each send_back
    out,        \* history: datagrams forwarded on each socket
    total,      \* history: datagrams each client sent
    fwd,        \* history: datagrams forwarded for each client
    failed      \* history: associate_and_relay has returned an error

vars == <<inq, batch, epc, cli, rsock, sockmap, owner, sb, rq, held, out, total, fwd, failed>>
sbVars == <<owner, sb, rq, held>>
cntVars == <<out, total, fwd>>

Empty == [c \in Clients |-> 0]
Live(s) == sb[s] \in {"recv", "send", "remove"}

Init ==
    /\ inq = Empty /\ batch = Empty
    /\ epc = "recv" /\ cli \in Clients /\ rsock = None
    /\ sockmap = [c \in Clients |-> None]
    /\ owner = [s \in Socks |-> cli]
    /\ sb = [s \in Socks |-> "none"]
    /\ rq = [s \in Socks |-> 0] /\ held = [s \in Socks |-> 0]
    /\ out = [s \in Socks |-> 0]
    /\ total = Empty /\ fwd = Empty
    /\ failed = FALSE

-----------------------------------------------------------------------------
(* associate_and_relay, started over and over by run_udp                   *)

\* What one recvmmsg may take: at least one datagram, not necessarily all.
RecvMulPkts ==
    {n \in [Clients -> 0..MaxPkts] :
        (\A c \in Clients : n[c] <= inq[c]) /\ \E c \in Clients : n[c] > 0}

\* batched_recv_on.  An error of it drops nothing and returns here: a
\* stuttering step.
Recv ==
    /\ epc = "recv"
    /\ \E n \in RecvMulPkts :
           /\ batch' = n
           /\ inq' = [c \in Clients |-> inq[c] - n[c]]
    /\ epc' = "resolve"
    /\ UNCHANGED <<cli, rsock, sockmap, sbVars, cntVars, failed>>

\* An error returns to run_udp, which calls associate_and_relay again: the
\* registry, and with it every datagram not yet sent, is dropped.
Return ==
    /\ batch' = Empty /\ epc' = "recv" /\ rsock' = None
    /\ failed' = TRUE

Resolve ==
    /\ epc = "resolve" /\ epc' = "group"
    /\ UNCHANGED <<inq, batch, cli, rsock, sockmap, sbVars, cntVars, failed>>

ResolveErr ==
    /\ epc = "resolve"
    /\ Return
    /\ UNCHANGED <<inq, cli, sockmap, sbVars, cntVars>>

\* Mutant: a miss is not noticed.
AfterFind_NoMiss(s) == "send"

AfterFind(s) == IF s = None THEN "associate" ELSE "send"

\* The clients whose groups group_iter has still to give.
Groups == {c \in Clients : batch[c] > 0}

\* The next group: SockMap::find.
Find(c) ==
    /\ epc = "group" /\ c \in Groups
    /\ cli' = c
    /\ rsock' = sockmap[c]
    /\ epc' = AfterFind(sockmap[c])
    /\ UNCHANGED <<inq, batch, sockmap, sbVars, cntVars, failed>>

EndBatch ==
    /\ epc = "group" /\ batch = Empty
    /\ epc' = "recv" /\ rsock' = None
    /\ UNCHANGED <<inq, batch, cli, sockmap, sbVars, cntVars, failed>>

\* The closure of find_or_insert: a new socket, whose send_back is spawned
\* before the socket is in the map.
Associate(s) ==
    /\ epc = "associate" /\ sb[s] = "none"
    /\ owner' = [owner EXCEPT ![s] = cli]
    /\ sb' = [sb EXCEPT ![s] = "recv"]
    /\ rsock' = s
    /\ epc' = "insert"
    /\ UNCHANGED <<inq, batch, cli, sockmap, rq, held, cntVars, failed>>

AssociateErr ==
    /\ epc = "associate"
    /\ Return
    /\ UNCHANGED <<inq, cli, sockmap, sbVars, cntVars>>

\* Mutant: the new socket is used but not inserted.
Insert_Forgets ==
    /\ epc = "insert"
    /\ epc' = "send"
    /\ UNCHANGED <<inq, batch, cli, rsock, sockmap, sbVars, cntVars, failed>>

Insert ==
    /\ epc = "insert"
    /\ sockmap' = [sockmap EXCEPT ![cli] = rsock]
    /\ epc' = "send"
    /\ UNCHANGED <<inq, batch, cli, rsock, sbVars, cntVars, failed>>

\* Mutant: a short sendmmsg is repeated from the first datagram.
Unsent_Restart(n) == IF n = batch[cli] THEN 0 ELSE batch[cli]

\* What send_all has left after n datagrams.
Unsent(n) == batch[cli] - n

\* Mutant: the loop of send_all does not end.
AfterSend_Loops(n) == "send"

AfterSend(n) == IF Unsent(n) = 0 THEN "group" ELSE "send"

\* How many of the remaining datagrams one sendmmsg may take.
SendMulPkts == 1..batch[cli]

\* One sendmmsg of send_all takes the first n datagrams of the group.
SendSome ==
    /\ epc = "send"
    /\ \E n \in SendMulPkts :
           /\ batch' = [batch EXCEPT ![cli] = Unsent(n)]
           /\ fwd' = [fwd EXCEPT ![cli] = @ + n]
           /\ out' = [out EXCEPT ![rsock] = @ + n]
           /\ epc' = AfterSend(n)
    /\ UNCHANGED <<inq, cli, rsock, sockmap, sbVars, total, failed>>

SendErr ==
    /\ epc = "send"
    /\ Return
    /\ UNCHANGED <<inq, cli, sockmap, sbVars, cntVars>>

Entry ==
    \/ Recv \/ Resolve \/ EndBatch \/ AssociateErr \/ Insert \/ SendSome
    \/ \E c \in Clients : Find(c)
    \/ \E s \in Socks : Associate(s)

EntryErr == ResolveErr \/ SendErr

-----------------------------------------------------------------------------
(* send_back.  find_or_insert does not await, so that on a single thread   *)
(* no send_back runs between its find and its insert.                      *)

Scheduled == MultiThread \/ epc \notin {"associate", "insert"}

entryVars == <<inq, batch, epc, cli, rsock, failed>>

SbRecv(s) ==
    /\ Scheduled /\ sb[s] = "recv"
    /\ \E n \in 1..rq[s] :
           /\ rq' = [rq EXCEPT ![s] = @ - n]
           /\ held' = [held EXCEPT ![s] = n]
    /\ sb' = [sb EXCEPT ![s] = "send"]
    /\ UNCHANGED <<entryVars, sockmap, owner, cntVars>>

\* Mutant: the timer is never armed.
Expired_Never(s) == FALSE

\* timeoutfut polls the receive first: it expires on an empty queue only.
Expired(s) == HasTimeout /\ rq[s] = 0

SbTimeout(s) ==
    /\ Scheduled /\ sb[s] = "recv"
    /\ Expired(s)
    /\ sb' = [sb EXCEPT ![s] = "remove"]
    /\ UNCHANGED <<entryVars, sockmap, owner, rq, held, cntVars>>

SbRecvErr(s) ==
    /\ Scheduled /\ sb[s] = "recv"
    /\ sb' = [sb EXCEPT ![s] = "remove"]
    /\ UNCHANGED <<entryVars, sockmap, owner, rq, held, cntVars>>

SbSend(s) ==
    /\ Scheduled /\ sb[s] = "send"
    /\ \E n \in 1..held[s] :
           /\ held' = [held EXCEPT ![s] = @ - n]
           /\ sb' = [sb EXCEPT ![s] = IF n = held[s] THEN "recv" ELSE "send"]
    /\ UNCHANGED <<entryVars, sockmap, owner, rq, cntVars>>

SbSendErr(s) ==
    /\ Scheduled /\ sb[s] = "send"
    /\ held' = [held EXCEPT ![s] = 0]
    /\ sb' = [sb EXCEPT ![s] = "remove"]
    /\ UNCHANGED <<entryVars, sockmap, owner, rq, cntVars>>

\* Mutant: send_back leaves its entry in the map.
SbRemove_KeepsEntry(s) ==
    /\ Scheduled /\ sb[s] = "remove"
    /\ sb' = [sb EXCEPT ![s] = "done"]
    /\ UNCHANGED <<entryVars, sockmap, owner, rq, held, cntVars>>

\* sockmap.remove, whatever socket the entry names.
SbRemove(s) ==
    /\ Scheduled /\ sb[s] = "remove"
    /\ sockmap' = [sockmap EXCEPT ![owner[s]] = None]
    /\ sb' = [sb EXCEPT ![s] = "done"]
    /\ UNCHANGED <<entryVars, owner, rq, held, cntVars>>

SendBack(s) == SbRecv(s) \/ SbTimeout(s) \/ SbSend(s) \/ SbRemove(s)

SendBackErr(s) == SbRecvErr(s) \/ SbSendErr(s)

-----------------------------------------------------------------------------
(* The peers.                                                              *)

ClientSend(c) ==
    /\ total[c] < MaxPkts
    /\ total' = [total EXCEPT ![c] = @ + 1]
    /\ inq' = [inq EXCEPT ![c] = @ + 1]
    /\ UNCHANGED <<batch, epc, cli, rsock, sockmap, sbVars, out, fwd, failed>>

\* One reply for one forwarded datagram: the socket has no port before.
RemoteReply(s) ==
    /\ out[s] > 0
    /\ out' = [out EXCEPT ![s] = @ - 1]
    /\ rq' = [rq EXCEPT ![s] = @ + 1]
    /\ UNCHANGED <<entryVars, sockmap, owner, sb, held, total, fwd>>

Env == (\E c \in Clients : ClientSend(c)) \/ (\E s \in Socks : RemoteReply(s))

Next ==
    \/ Entry \/ EntryErr
    \/ \E s \in Socks : SendBack(s) \/ SendBackErr(s)
    \/ Env

Spec == Init /\ [][Next]_vars

\* The runtime runs both kinds of task, and its timer expires; no error is
\* ever due, except that no socket is left to associate.
Fairness == WF_vars(Entry) /\ \A s \in Socks : WF_vars(SendBack(s))

FairSpec == Spec /\ Fairness

-----------------------------------------------------------------------------
(* Properties                                                              *)

\* Every variable has its type; a send_back that sends has replies to send,
\* and the entry task sends only on a socket it has made.
TypeOK ==
    /\ inq \in [Clients -> Nat] /\ batch \in [Clients -> Nat]
    /\ epc \in {"recv", "resolve", "group", "associate", "insert", "send"}
    /\ cli \in Clients /\ rsock \in Socks \union {None}
    /\ sockmap \in [Clients -> Socks \union {None}]
    /\ owner \in [Socks -> Clients]
    /\ sb \in [Socks -> {"none", "recv", "send", "remove", "done"}]
    /\ rq \in [Socks -> Nat] /\ held \in [Socks -> Nat]
    /\ out \in [Socks -> Nat]
    /\ total \in [Clients -> Nat] /\ fwd \in [Clients -> Nat]
    /\ failed \in BOOLEAN
    /\ epc \in {"insert", "send"} => rsock # None

\* A running send_back is the one its client's entry names, or its entry is
\* about to be inserted; so a client never has two running associations, and
\* the remove at the end of send_back never evicts the entry of another.
LiveIsMapped ==
    \A s \in Socks : Live(s) =>
        \/ sockmap[owner[s]] = s
        \/ epc = "insert" /\ rsock = s /\ cli = owner[s]

\* Replies can come back: a socket in the map has a running send_back, so
\* that no client is stuck on an association nobody reads.  It needs a single
\* thread.
MappedIsLive ==
    \A c \in Clients : sockmap[c] # None => Live(sockmap[c]) /\ owner[sockmap[c]] = c

\* A datagram is forwarded at most once, and lost only when some call of
\* associate_and_relay has returned an error.
NoSilentLoss ==
    \A c \in Clients :
        /\ inq[c] + batch[c] + fwd[c] <= total[c]
        /\ ~failed => inq[c] + batch[c] + fwd[c] = total[c]

\* When send_back has ended ("remove association for ..."), its socket is no
\* longer in the map.
RemovedStaysRemoved ==
    \A s \in Socks : sb[s] = "done" => sockmap[owner[s]] # s

\* A batch is dealt with, whatever fails on the way.
BatchEnds == (epc # "recv") ~> (epc = "recv")

\* With a timeout, every association goes once the remote is silent.
AssociationExpires ==
    \A c \in Clients : (sockmap[c] # None) ~> (sockmap[c] = None)

=============================================================================
