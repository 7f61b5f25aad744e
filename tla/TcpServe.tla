------------------------------ MODULE TcpServe ------------------------------
(***************************************************************************)
(* The tcp side of the program: run (bin.rs) spawns one run_tcp for each   *)
(* endpoint, its accept loop spawns a task for every connection, and the   *)
(* task (connect_and_relay) resolves the remote, dials its addresses one   *)
(* after the other, exchanges the PROXY header, shakes hands and relays.   *)
(* The tasks reach their endpoint through a Ref, a raw pointer into the    *)
(* future of run_tcp.  All endpoints share one process and its limit on    *)
(* descriptors: what fails for want of one fails here.  Which remote a     *)
(* connection gets is the subject of module Balancer.                      *)
(***************************************************************************)
EXTENDS Integers, Sequences, FiniteSets

CONSTANTS
    Endpoints,          \* the endpoints with tcp
    Conns,              \* connections clients make
    FdLimit,            \* descriptors of listeners and tasks (RLIMIT_NOFILE)
    MaxAddrs,           \* bound: addresses a name resolves to
    HasTimeout,         \* connect_timeout # 0
    ProxyOn,            \* the endpoints with proxy_opts.enabled()
    TransportOn,        \* the endpoints with a transport
    PipeFds,            \* descriptors of the two pipes: 4 for zero-copy, else 0
    KeepaliveRefused,   \* the kernel may refuse the keepalive parameters
    UseUdp              \* some endpoint has a udp worker, which never returns

ASSUME FiniteAssumption == IsFiniteSet(Endpoints) /\ IsFiniteSet(Conns)
ASSUME FdAssumption == FdLimit \in Nat /\ PipeFds \in Nat
ASSUME AddrAssumption == MaxAddrs \in Nat \ {0}
ASSUME EndpointAssumption == ProxyOn \subseteq Endpoints /\ TransportOn \subseteq Endpoints
ASSUME OptAssumption == {HasTimeout, KeepaliveRefused, UseUdp} \subseteq BOOLEAN

VARIABLES
    proc,       \* the process: "up", "exited" from main, or "aborted"
    srv,        \* each run_tcp: "bind", "accept", or "ended" when it is gone
    pc,         \* where each connection is
    at,         \* the endpoint it was made to
    addrs       \* connect: the addresses left, the first the one at hand, as
                \* what becomes of dialling them

connVars == <<pc, at, addrs>>
vars == <<proc, srv, connVars>>

\* What becomes of an address: it answers in time, it refuses or stays silent,
\* or its socket cannot be set up (a family the kernel or bind_address lacks, a
\* device that is gone, keepalive refused).
Fates == {"answers", "silent", "unusable"}

Addresses == UNION {[1..n -> Fates] : n \in 1..MaxAddrs}

\* Descriptors a connection holds.
Held(c) ==
    CASE pc[c] \in {"resolve", "open"}                    -> 1
      [] pc[c] \in {"dial", "proxy", "start", "handshake"} -> 2
      [] pc[c] = "relay" -> IF at[c] \in TransportOn THEN 2 ELSE 2 + PipeFds
      [] OTHER           -> 0

Listening == {e \in Endpoints : srv[e] = "accept"}

\* The descriptors of the tasks, numbered for each connection.
TaskFds == {f \in Conns \X (1..2 + PipeFds) : f[2] <= Held(f[1])}

Free == FdLimit - Cardinality(Listening) - Cardinality(TaskFds)

\* The task of c runs and goes through its Refs.
Running(c) == pc[c] \notin {"idle", "backlog", "closed", "starved", "unreachable"}

Init ==
    /\ proc = "up"
    /\ srv = [e \in Endpoints |-> "bind"]
    /\ pc = [c \in Conns |-> "idle"]
    /\ at \in [Conns -> Endpoints]
    /\ addrs = [c \in Conns |-> <<>>]

Goto(c, l) == pc' = [pc EXCEPT ![c] = l]

-----------------------------------------------------------------------------
(* run and run_tcp                                                         *)

Bind(e) ==
    /\ srv[e] = "bind" /\ Free > 0
    /\ srv' = [srv EXCEPT ![e] = "accept"]
    /\ UNCHANGED <<proc, connVars>>

\* An address that cannot be bound panics, which aborts the whole process.
BindErr(e) ==
    /\ srv[e] = "bind"
    /\ proc' = "aborted"
    /\ UNCHANGED <<srv, connVars>>

ClientConnect(c) ==
    /\ pc[c] = "idle" /\ srv[at[c]] = "accept"
    /\ Goto(c, "backlog")
    /\ UNCHANGED <<proc, srv, at, addrs>>

\* Mutant: the loop awaits the connection instead of spawning its task.
Accepting_Awaits(e) == srv[e] = "accept" /\ \A c \in Conns : at[c] = e => ~Running(c)

\* The loop is at accept: a connection is handled by a task of its own.
Accepting(e) == srv[e] = "accept"

\* Accepted, keepalive set, task spawned.
Accept(c) ==
    /\ Accepting(at[c]) /\ pc[c] = "backlog" /\ Free > 0
    /\ Goto(c, "resolve")
    /\ UNCHANGED <<proc, srv, at, addrs>>

\* ConnectionAborted: the loop continues.
AcceptAborted(c) ==
    /\ Accepting(at[c]) /\ pc[c] = "backlog"
    /\ Goto(c, "closed")
    /\ UNCHANGED <<proc, srv, at, addrs>>

\* run_tcp returns: its future is dropped, with the endpoint in it and the
\* listener, whose waiting connections the kernel resets.
Return(e) ==
    /\ srv' = [srv EXCEPT ![e] = "ended"]
    /\ pc' = [c \in Conns |-> IF at[c] = e /\ pc[c] = "backlog" THEN "closed" ELSE pc[c]]
    /\ UNCHANGED <<proc, at, addrs>>

\* Any other accept error, such as EMFILE, breaks the loop.
AcceptErr(e) ==
    /\ Accepting(e) /\ Free <= 0
    /\ \E c \in Conns : at[c] = e /\ pc[c] = "backlog"
    /\ Return(e)

\* A failing set_tcp_keepalive on an accepted connection leaves run_tcp too.
KeepaliveErr(e) ==
    /\ Accepting(e) /\ Free > 0 /\ KeepaliveRefused
    /\ \E c \in Conns : at[c] = e /\ pc[c] = "backlog"
    /\ Return(e)

\* join_all: when no worker is left, main returns and the runtime drops the
\* tasks that still run.
Exit ==
    /\ ~UseUdp /\ \A e \in Endpoints : srv[e] = "ended"
    /\ proc' = "exited"
    /\ pc' = [c \in Conns |-> IF Running(c) THEN "closed" ELSE pc[c]]
    /\ UNCHANGED <<srv, at, addrs>>

-----------------------------------------------------------------------------
(* connect_and_relay                                                       *)

\* The balancer selects a remote (module Balancer), resolve_addr looks it up.
Resolve(c) ==
    /\ pc[c] = "resolve"
    /\ \E a \in Addresses : addrs' = [addrs EXCEPT ![c] = a]
    /\ Goto(c, "open")
    /\ UNCHANGED <<proc, srv, at>>

\* connect returns, or is dropped with its task: its addresses are gone.
Leave(c, l) ==
    /\ Goto(c, l)
    /\ addrs' = [addrs EXCEPT ![c] = <<>>]
    /\ UNCHANGED <<proc, srv, at>>

\* peer_addr, the lookup, the PROXY exchange, a handshake or the pipes fail.
TaskErr(c) ==
    /\ pc[c] \in {"resolve", "proxy", "start", "handshake"}
    /\ Leave(c, "closed")

\* There is no descriptor for the socket of an address, or for the pipes.
Starve(c) ==
    /\ \/ pc[c] = "open" /\ Free <= 0
       \/ pc[c] = "start" /\ at[c] \notin TransportOn /\ Free < PipeFds
    /\ Leave(c, "starved")

\* new_socket and its options, for the address at hand.
OpenSocket(c) ==
    /\ pc[c] = "open" /\ Free > 0 /\ Head(addrs[c]) # "unusable"
    /\ Goto(c, "dial")
    /\ UNCHANGED <<proc, srv, at, addrs>>

\* new_socket, bind, bind_to_device or set_tcp_keepalive fails: connect returns
\* with the addresses behind this one untried.
SocketErr(c) ==
    /\ pc[c] = "open" /\ Head(addrs[c]) = "unusable"
    /\ Leave(c, "closed")

ConnectOk(c) ==
    /\ pc[c] = "dial" /\ Head(addrs[c]) = "answers"
    /\ Leave(c, IF at[c] \in ProxyOn THEN "proxy" ELSE "start")

\* Mutant: the loop leaves out the last address.
MoreAddrs_OffByOne(c) == Len(addrs[c]) > 2

\* Mutant: the loop goes one past the last address.
MoreAddrs_OnePast(c) == Len(addrs[c]) > 0

MoreAddrs(c) == Len(addrs[c]) > 1

\* Refused or timed out: try the next address; after the last, give up.
NextAddr(c) ==
    /\ pc[c] = "dial" /\ Head(addrs[c]) = "silent"
    /\ addrs' = [addrs EXCEPT ![c] = Tail(@)]
    /\ Goto(c, IF MoreAddrs(c) THEN "open" ELSE "unreachable")
    /\ UNCHANGED <<proc, srv, at>>

ConnectErr(c) == NextAddr(c)

\* Mutant: connect is awaited without its timeout.
Expires_Never == FALSE

Expires == HasTimeout

ConnectTimeout(c) == Expires /\ NextAddr(c)

\* handle_proxy (module ProxyProtocol)
Proxy(c) ==
    /\ pc[c] = "proxy"
    /\ Goto(c, "start")
    /\ UNCHANGED <<proc, srv, at, addrs>>

\* A plain relay makes its pipes; with a transport both handshakes come first.
StartRelay(c) ==
    /\ pc[c] = "start"
    /\ IF at[c] \in TransportOn THEN Goto(c, "handshake")
       ELSE Free >= PipeFds /\ Goto(c, "relay")
    /\ UNCHANGED <<proc, srv, at, addrs>>

\* try_join of accept and connect, which no timeout limits.
Handshake(c) ==
    /\ pc[c] = "handshake"
    /\ Goto(c, "relay")
    /\ UNCHANGED <<proc, srv, at, addrs>>

\* The relay (module BidiCopy) ends, and its result is ignored.
EndRelay(c) ==
    /\ pc[c] = "relay"
    /\ Goto(c, "closed")
    /\ UNCHANGED <<proc, srv, at, addrs>>

\* What a task does in time: the lookup, the PROXY exchange and connect have
\* timeouts, and a call that finds no descriptor fails.
Task(c) ==
    \/ Resolve(c) \/ OpenSocket(c) \/ SocketErr(c) \/ Starve(c)
    \/ ConnectOk(c) \/ ConnectTimeout(c) \/ Proxy(c) \/ StartRelay(c)

\* What the peers of a connection decide.
Answer(c) == ConnectErr(c) \/ Handshake(c) \/ EndRelay(c)

AcceptLoop(e) ==
    \/ AcceptErr(e) \/ KeepaliveErr(e)
    \/ \E c \in Conns : at[c] = e /\ (Accept(c) \/ AcceptAborted(c))

Next ==
    /\ proc = "up"
    /\ \/ Exit
       \/ \E e \in Endpoints : Bind(e) \/ BindErr(e) \/ AcceptLoop(e)
       \/ \E c \in Conns : ClientConnect(c) \/ Task(c) \/ TaskErr(c) \/ Answer(c)

Spec == Init /\ [][Next]_vars

\* Tasks and accept loops are scheduled, timers expire, and an address that
\* answers does so in time.  Nothing says that any other address refuses, that a
\* handshake gets on or that a relay ends.
Fairness ==
    /\ \A c \in Conns : WF_vars(proc = "up" /\ Task(c))
    /\ \A e \in Endpoints : WF_vars(proc = "up" /\ AcceptLoop(e))

FairSpec == Spec /\ Fairness

-----------------------------------------------------------------------------
(* Properties                                                              *)

\* Every variable has its type, connect has an address at hand whenever it
\* opens or dials one, and listeners and tasks never hold more descriptors than
\* the limit.
TypeOK ==
    /\ proc \in {"up", "exited", "aborted"}
    /\ srv \in [Endpoints -> {"bind", "accept", "ended"}]
    /\ pc \in [Conns -> {"idle", "backlog", "resolve", "open", "dial", "proxy", "start",
                         "handshake", "relay", "closed", "starved", "unreachable"}]
    /\ at \in [Conns -> Endpoints] /\ addrs \in [Conns -> Seq(Fates)]
    /\ \A c \in Conns : pc[c] \in {"open", "dial"} => Len(addrs[c]) \in 1..MaxAddrs
    /\ Free >= 0

\* connect can get to an address that answers: the ones before it refuse or are
\* silent, and none is one it cannot make a socket for.
Reachable(c) ==
    \E i \in DOMAIN addrs[c] :
        addrs[c][i] = "answers" /\ \A j \in 1..i - 1 : addrs[c][j] # "unusable"

\* With a connect timeout, a name with an address that answers is connected to,
\* however many of its addresses refuse or never answer before that one, unless
\* descriptors run out or the process ends.
ReachesRemote ==
    \A c \in Conns :
        pc[c] = "open" /\ Reachable(c) ~> pc[c] \in {"proxy", "start", "starved"} \/ proc # "up"

\* With a connect timeout, an accepted connection reaches its relay (or the
\* handshake that has no timeout) or is over some day, also when the dialled
\* peers never answer and when descriptors run out.
AcceptedSettles ==
    \A c \in Conns :
        pc[c] = "resolve" ~>
            pc[c] \in {"handshake", "relay"} \/ ~Running(c) \/ proc # "up"

\* No relay holds up the accept loop: a client that waits at a listener is
\* taken, or refused because the listener or the process ends, though no relay
\* and no handshake before it need ever end.
BacklogServed ==
    \A c \in Conns : pc[c] = "backlog" ~> pc[c] # "backlog" \/ proc # "up"

\* "Pointee memory must remain valid during the eventloop": no task runs
\* after the future that owns what its Refs point to.
RefsValid ==
    proc = "up" => \A c \in Conns : Running(c) => srv[at[c]] = "accept"

=============================================================================
