--------------------------- MODULE TcpServeProofs ---------------------------
(***************************************************************************)
(* For any number of endpoints, connections and addresses and any limit on *)
(* descriptors: connect never runs past the addresses it was given, and    *)
(* listeners and tasks never hold more descriptors than there are.         *)
(***************************************************************************)
EXTENDS TcpServe, FiniteSetTheorems, TLAPS

Places ==
    {"idle", "backlog", "resolve", "open", "dial", "proxy", "start", "handshake", "relay",
     "closed", "starved", "unreachable"}

\* A connection that opens or dials has the address for it at hand.
HasAddr(c) == pc[c] \in {"open", "dial"} => Len(addrs[c]) \in 1..MaxAddrs

ConnInv ==
    /\ pc \in [Conns -> Places] /\ addrs \in [Conns -> Seq(Fates)]
    /\ \A c \in Conns : HasAddr(c)

\* No connection has been made at first.
LEMMA InitInv == Init => ConnInv
<1> SUFFICES ASSUME Init PROVE ConnInv
  OBVIOUS
<1>1. <<>> \in Seq(Fates)
  OBVIOUS
<1> QED BY <1>1 DEF Init, ConnInv, Places, HasAddr

\* A step of one connection.
LEMMA GotoInv ==
    ASSUME ConnInv, NEW c \in Conns, NEW l \in Places, Goto(c, l), NEW a \in Seq(Fates),
           addrs' = [addrs EXCEPT ![c] = a],
           l \in {"open", "dial"} => Len(a) \in 1..MaxAddrs
    PROVE  ConnInv'
<1>1. pc' \in [Conns -> Places] /\ addrs' \in [Conns -> Seq(Fates)]
  BY DEF Goto, ConnInv
<1>2. ASSUME NEW d \in Conns PROVE HasAddr(d)'
  <2>1. CASE d = c
    <3>1. pc'[d] = l /\ addrs'[d] = a
      BY <2>1 DEF Goto, ConnInv
    <3> QED BY <3>1 DEF HasAddr
  <2>2. CASE d # c
    <3>1. pc'[d] = pc[d] /\ addrs'[d] = addrs[d]
      BY <2>2 DEF Goto, ConnInv
    <3> QED BY <3>1 DEF HasAddr, ConnInv
  <2> QED BY <2>1, <2>2
<1> QED BY <1>1, <1>2 DEF ConnInv

\* A step of one connection that leaves its addresses alone.
LEMMA MoveInv ==
    ASSUME ConnInv, NEW c \in Conns, NEW l \in Places, Goto(c, l), UNCHANGED addrs,
           l \in {"open", "dial"} => pc[c] = "open"
    PROVE  ConnInv'
<1>1. addrs[c] \in Seq(Fates) /\ addrs' = [addrs EXCEPT ![c] = addrs[c]]
  BY DEF ConnInv
<1>2. l \in {"open", "dial"} => Len(addrs[c]) \in 1..MaxAddrs
  BY DEF ConnInv, HasAddr
<1> QED BY <1>1, <1>2, GotoInv

\* A connection that has left connect has no addresses left.
LEMMA LeaveInv ==
    ASSUME ConnInv, NEW c \in Conns, NEW l \in {"closed", "starved", "proxy", "start"}, Leave(c, l)
    PROVE  ConnInv'
<1>1. <<>> \in Seq(Fates)
  OBVIOUS
<1> QED BY <1>1, GotoInv DEF Leave, Places

\* An address that does not answer is followed by the next, or by none.
LEMMA NextAddrInv ==
    ASSUME ConnInv, NEW c \in Conns, NextAddr(c)
    PROVE  ConnInv'
<1>1. addrs[c] \in Seq(Fates) /\ Len(addrs[c]) \in 1..MaxAddrs
  BY DEF ConnInv, HasAddr, NextAddr
<1>2. Tail(addrs[c]) \in Seq(Fates) /\ Len(Tail(addrs[c])) = Len(addrs[c]) - 1
  BY <1>1, AddrAssumption
<1>3. CASE MoreAddrs(c)
  <2>1. Len(Tail(addrs[c])) \in 1..MaxAddrs
    BY <1>1, <1>2, <1>3, AddrAssumption DEF MoreAddrs
  <2> QED BY <1>2, <1>3, <2>1, GotoInv DEF NextAddr, Places
<1>4. CASE ~MoreAddrs(c)
  BY <1>2, <1>4, GotoInv DEF NextAddr, Places
<1> QED BY <1>3, <1>4

\* The lookup gives at least one address.
LEMMA ResolveInv == ASSUME ConnInv, NEW c \in Conns, Resolve(c) PROVE ConnInv'
<1>1. PICK n \in 1..MaxAddrs : \E a \in [1..n -> Fates] : addrs' = [addrs EXCEPT ![c] = a]
  BY DEF Resolve, Addresses
<1>2. PICK a \in [1..n -> Fates] : addrs' = [addrs EXCEPT ![c] = a]
  BY <1>1
<1>3. n \in Nat
  BY AddrAssumption
<1>4. a \in Seq(Fates) /\ Len(a) = n
  BY <1>3
<1> QED BY <1>2, <1>4, GotoInv DEF Resolve, Places

\* The end of a listener or of the process only closes connections.
LEMMA CloseInv ==
    ASSUME ConnInv, UNCHANGED addrs, pc' \in [Conns -> Places],
           \A c \in Conns : pc'[c] \in {pc[c], "closed"}
    PROVE  ConnInv'
BY DEF ConnInv, HasAddr

\* Every step, stuttering included, preserves it.
LEMMA NextInv == ConnInv /\ [Next]_vars => ConnInv'
<1> SUFFICES ASSUME ConnInv, [Next]_vars PROVE ConnInv'
  OBVIOUS
<1>1. CASE Exit \/ \E e \in Endpoints : Return(e)
  <2>1. UNCHANGED addrs /\ pc' \in [Conns -> Places]
    BY <1>1 DEF Exit, Return, ConnInv, Places
  <2>2. \A c \in Conns : pc'[c] \in {pc[c], "closed"}
    BY <1>1 DEF Exit, Return
  <2> QED BY <2>1, <2>2, CloseInv
<1>2. CASE UNCHANGED connVars
  BY <1>2 DEF ConnInv, HasAddr, connVars
<1>3. ASSUME NEW c \in Conns, ClientConnect(c) \/ Accept(c) \/ AcceptAborted(c) PROVE ConnInv'
  BY <1>3, MoveInv DEF ClientConnect, Accept, AcceptAborted, Places
<1>4. ASSUME NEW c \in Conns, Task(c) \/ TaskErr(c) \/ Answer(c) PROVE ConnInv'
  <2>1. CASE Resolve(c)
    BY <2>1, ResolveInv
  <2>2. CASE OpenSocket(c)
    BY <2>2, MoveInv DEF OpenSocket, Places
  <2>3. CASE ConnectTimeout(c) \/ ConnectErr(c)
    BY <2>3, NextAddrInv DEF ConnectTimeout, ConnectErr
  <2>4. CASE TaskErr(c) \/ SocketErr(c) \/ Starve(c) \/ ConnectOk(c)
    BY <2>4, LeaveInv DEF TaskErr, SocketErr, Starve, ConnectOk
  <2>5. CASE Proxy(c) \/ StartRelay(c) \/ Handshake(c) \/ EndRelay(c)
    BY <2>5, MoveInv DEF Proxy, StartRelay, Handshake, EndRelay, Places
  <2> QED BY <1>4, <2>1, <2>2, <2>3, <2>4, <2>5 DEF Task, Answer
<1>5. ASSUME NEW e \in Endpoints, Bind(e) \/ BindErr(e) \/ AcceptLoop(e) PROVE ConnInv'
  <2>1. CASE Bind(e) \/ BindErr(e)
    BY <1>2, <2>1 DEF Bind, BindErr
  <2>2. CASE AcceptErr(e) \/ KeepaliveErr(e)
    BY <1>1, <2>2 DEF AcceptErr, KeepaliveErr
  <2>3. CASE \E c \in Conns : Accept(c) \/ AcceptAborted(c)
    BY <1>3, <2>3
  <2> QED BY <1>5, <2>1, <2>2, <2>3 DEF AcceptLoop
<1>6. CASE UNCHANGED vars
  BY <1>2, <1>6 DEF vars
<1> QED BY <1>1, <1>3, <1>4, <1>5, <1>6 DEF Next

-----------------------------------------------------------------------------
(* Descriptors                                                             *)

\* What a connection to e holds at place p.
HeldAt(p, e) ==
    CASE p \in {"resolve", "open"}                    -> 1
      [] p \in {"dial", "proxy", "start", "handshake"} -> 2
      [] p = "relay" -> IF e \in TransportOn THEN 2 ELSE 2 + PipeFds
      [] OTHER       -> 0

HeldBy == [c \in Conns |-> HeldAt(pc[c], at[c])]

\* TaskFds when connection c holds h[c].
Using(h) == {f \in Conns \X (1..2 + PipeFds) : f[2] <= h[f[1]]}

\* The descriptors are never overdrawn; only an endpoint with a transport
\* shakes hands, so the relay behind a handshake needs no pipes.
FdInv ==
    /\ proc \in {"up", "exited", "aborted"}
    /\ srv \in [Endpoints -> {"bind", "accept", "ended"}]
    /\ at \in [Conns -> Endpoints]
    /\ \A c \in Conns : pc[c] = "handshake" => at[c] \in TransportOn
    /\ Free >= 0

\* What is used is finite.
LEMMA UsingFinite == ASSUME NEW h PROVE IsFiniteSet(Using(h)) /\ Cardinality(Using(h)) \in Nat
<1>1. IsFiniteSet(1..2 + PipeFds)
  BY FdAssumption, FS_Interval
<1>2. IsFiniteSet(Conns \X (1..2 + PipeFds))
  BY <1>1, FiniteAssumption, FS_Product
<1>3. Using(h) \in SUBSET (Conns \X (1..2 + PipeFds))
  BY DEF Using
<1>4. IsFiniteSet(Using(h))
  BY <1>2, <1>3, FS_Subset
<1> QED BY <1>4, FS_CardinalityType

\* Holding less uses no more.
LEMMA UsingLess ==
    ASSUME NEW h \in [Conns -> Nat], NEW g \in [Conns -> Nat], \A c \in Conns : g[c] <= h[c]
    PROVE  Cardinality(Using(g)) <= Cardinality(Using(h))
<1>1. ASSUME NEW f \in Using(g) PROVE f \in Using(h)
  <2>1. f \in Conns \X (1..2 + PipeFds) /\ f[2] <= g[f[1]]
    BY DEF Using
  <2>2. f[1] \in Conns /\ f[2] \in Int
    BY <2>1, FdAssumption
  <2>3. g[f[1]] \in Nat /\ h[f[1]] \in Nat /\ g[f[1]] <= h[f[1]]
    BY <2>2
  <2>4. f[2] <= h[f[1]]
    BY <2>1, <2>2, <2>3
  <2> QED BY <2>1, <2>4 DEF Using
<1>2. Using(g) \in SUBSET Using(h)
  BY <1>1
<1> QED BY <1>2, UsingFinite, FS_Subset

\* A connection that takes k more adds k, at most.
LEMMA UsingMore ==
    ASSUME NEW h \in [Conns -> Nat], NEW c \in Conns, NEW k \in Nat
    PROVE  Cardinality(Using([h EXCEPT ![c] = h[c] + k])) <= Cardinality(Using(h)) + k
<1> DEFINE g == [h EXCEPT ![c] = h[c] + k]
           new == {c} \X (h[c] + 1..h[c] + k)
<1>1. h[c] \in Nat
  OBVIOUS
<1>2. IsFiniteSet(h[c] + 1..h[c] + k) /\ Cardinality(h[c] + 1..h[c] + k) = k
  <2>1. ASSUME NEW a \in Int, NEW b \in Int, b = a + k - 1
        PROVE  IsFiniteSet(a..b) /\ Cardinality(a..b) = k
    <3>1. IsFiniteSet(a..b) /\ Cardinality(a..b) = IF a > b THEN 0 ELSE b - a + 1
      BY FS_Interval
    <3> QED BY <2>1, <3>1
  <2>2. h[c] + 1 \in Int /\ h[c] + k \in Int /\ h[c] + k = h[c] + 1 + k - 1
    BY <1>1
  <2> QED BY <2>1, <2>2
<1>3. IsFiniteSet(new) /\ Cardinality(new) = k
  <2>1. IsFiniteSet({c}) /\ Cardinality({c}) = 1
    BY FS_Singleton
  <2>2. IsFiniteSet(new) /\ Cardinality(new) = 1 * k
    BY <1>2, <2>1, FS_Product
  <2> QED BY <2>2
<1>4. ASSUME NEW f \in Using(g) PROVE f \in Using(h) \union new
  <2>1. f \in Conns \X (1..2 + PipeFds) /\ f[2] <= g[f[1]]
    BY DEF Using
  <2>2. f[1] \in Conns /\ f[2] \in Int /\ f = <<f[1], f[2]>>
    BY <2>1, FdAssumption
  <2>3. CASE f[1] # c
    BY <2>1, <2>2, <2>3 DEF Using
  <2>4. CASE f[1] = c /\ f[2] <= h[c]
    BY <2>1, <2>4 DEF Using
  <2>5. CASE f[1] = c /\ ~(f[2] <= h[c])
    <3>1. f[2] \in h[c] + 1..h[c] + k
      BY <1>1, <2>1, <2>2, <2>5
    <3> QED BY <2>2, <2>5, <3>1
  <2> QED BY <2>3, <2>4, <2>5
<1>5. Using(g) \in SUBSET (Using(h) \union new)
  BY <1>4
<1> HIDE DEF new
<1>6. /\ IsFiniteSet(Using(h) \union new)
      /\ Cardinality(Using(h) \union new)
             = Cardinality(Using(h)) + Cardinality(new) - Cardinality(Using(h) \cap new)
  BY <1>3, UsingFinite, FS_Union
<1>7. Cardinality(Using(h) \cap new) \in Nat
  <2>1. Using(h) \cap new \in SUBSET new
    OBVIOUS
  <2>2. IsFiniteSet(Using(h) \cap new)
    BY <1>3, <2>1, FS_Subset
  <2> QED BY <2>2, FS_CardinalityType
<1>8. Cardinality(Using(g)) <= Cardinality(Using(h) \union new)
  BY <1>5, <1>6, FS_Subset
<1> HIDE DEF g
<1>9. Cardinality(Using(g)) \in Nat /\ Cardinality(Using(h)) \in Nat
  BY UsingFinite
<1>10. Cardinality(Using(g)) <= Cardinality(Using(h)) + k
  BY <1>3, <1>6, <1>7, <1>8, <1>9
<1> QED BY <1>10 DEF g

\* Fewer listeners hold no more; one more holds one more.
LEMMA ListenersCount ==
    ASSUME NEW S \in SUBSET Endpoints, NEW R \in SUBSET Endpoints, NEW e \in Endpoints
    PROVE  /\ Cardinality(S) \in Nat /\ Cardinality(R) \in Nat
           /\ R \subseteq S => Cardinality(R) <= Cardinality(S)
           /\ R \subseteq S \union {e} => Cardinality(R) <= Cardinality(S) + 1
<1>1. IsFiniteSet(S) /\ IsFiniteSet(R)
  BY FiniteAssumption, FS_Subset
<1>2. Cardinality(S) \in Nat /\ Cardinality(R) \in Nat
  BY <1>1, FS_CardinalityType
<1>3. R \subseteq S => Cardinality(R) <= Cardinality(S)
  BY <1>1, FS_Subset
<1>4. /\ IsFiniteSet(S \union {e})
      /\ Cardinality(S \union {e}) = IF e \in S THEN Cardinality(S) ELSE Cardinality(S) + 1
  BY <1>1, FS_AddElement
<1>5. ASSUME R \subseteq S \union {e} PROVE Cardinality(R) <= Cardinality(S) + 1
  <2>1. Cardinality(R) <= Cardinality(S \union {e})
    BY <1>4, <1>5, FS_Subset
  <2> QED BY <1>2, <1>4, <2>1
<1> QED BY <1>2, <1>3, <1>5

\* The limit less what is held.
LEMMA FreeIs ==
    /\ Free = FdLimit - Cardinality(Listening) - Cardinality(Using(HeldBy))
    /\ Free' = FdLimit - Cardinality(Listening') - Cardinality(Using(HeldBy'))
<1>1. TaskFds = Using(HeldBy)
  BY DEF TaskFds, Using, HeldBy, Held, HeldAt
<1>2. TaskFds' = Using(HeldBy')
  BY DEF TaskFds, Using, HeldBy, Held, HeldAt
<1> QED BY <1>1, <1>2 DEF Free

\* What a task holds is a number of descriptors.
LEMMA HeldType == ASSUME NEW p, NEW e PROVE HeldAt(p, e) \in Nat
BY FdAssumption DEF HeldAt

\* So it is for all of them, before and after a step.
LEMMA HeldByType == HeldBy \in [Conns -> Nat] /\ HeldBy' \in [Conns -> Nat]
<1>1. HeldBy \in [Conns -> Nat]
  BY HeldType DEF HeldBy
<1>2. HeldBy' = [c \in Conns |-> HeldAt(pc'[c], at'[c])]
  BY DEF HeldBy, HeldAt
<1>3. HeldBy' \in [Conns -> Nat]
  BY <1>2, HeldType
<1> QED BY <1>1, <1>3

\* The difference is a number.
LEMMA FreeInt == Free \in Int
<1>1. Listening \in SUBSET Endpoints
  BY DEF Listening
<1>2. IsFiniteSet(Listening)
  BY <1>1, FiniteAssumption, FS_Subset
<1>3. Cardinality(Listening) \in Nat
  BY <1>2, FS_CardinalityType
<1>4. Cardinality(Using(HeldBy)) \in Nat
  BY UsingFinite
<1> QED BY <1>3, <1>4, FreeIs, FdAssumption

\* A step after which every connection holds the same or less, and no endpoint
\* listens that did not, leaves no fewer descriptors.
LEMMA LessHeld ==
    ASSUME Free >= 0, at' = at, Listening' \subseteq Listening, NEW e \in Endpoints,
           \A c \in Conns : HeldAt(pc'[c], at[c]) <= HeldAt(pc[c], at[c])
    PROVE  Free' >= 0
<1>1. \A c \in Conns : HeldBy'[c] <= HeldBy[c]
  <2>1. HeldBy' = [c \in Conns |-> HeldAt(pc'[c], at[c])]
    BY DEF HeldBy, HeldAt
  <2> QED BY <2>1 DEF HeldBy
<1>2. Cardinality(Using(HeldBy')) <= Cardinality(Using(HeldBy))
  BY <1>1, HeldByType, UsingLess
<1>3. Listening \in SUBSET Endpoints /\ Listening' \in SUBSET Endpoints
  BY DEF Listening
<1>4. /\ Cardinality(Listening) \in Nat /\ Cardinality(Listening') \in Nat
      /\ Cardinality(Listening') <= Cardinality(Listening)
  BY <1>3, ListenersCount
<1>5. Cardinality(Using(HeldBy')) \in Nat /\ Cardinality(Using(HeldBy)) \in Nat
  BY UsingFinite
<1> QED BY <1>2, <1>4, <1>5, FreeIs, FdAssumption

\* A connection takes k descriptors more when k are free.
LEMMA MoreHeld ==
    ASSUME ConnInv, UNCHANGED <<srv, at>>, NEW c \in Conns, NEW l \in Places, Goto(c, l),
           NEW k \in Nat, Free >= k, HeldAt(l, at[c]) = HeldAt(pc[c], at[c]) + k
    PROVE  Free' >= 0
<1>1. HeldBy' = [HeldBy EXCEPT ![c] = HeldBy[c] + k]
  <2>1. HeldBy' = [d \in Conns |-> HeldAt(pc'[d], at[d])]
    BY DEF HeldBy, HeldAt
  <2>2. ASSUME NEW d \in Conns PROVE pc'[d] = IF d = c THEN l ELSE pc[d]
    BY DEF Goto, ConnInv
  <2>3. ASSUME NEW d \in Conns
        PROVE  HeldAt(pc'[d], at[d]) = IF d = c THEN HeldBy[c] + k ELSE HeldBy[d]
    BY <2>2 DEF HeldBy
  <2>4. HeldBy' = [d \in Conns |-> IF d = c THEN HeldBy[c] + k ELSE HeldBy[d]]
    BY <2>1, <2>3
  <2> QED BY <2>4, HeldByType
<1>2. Cardinality(Using(HeldBy')) <= Cardinality(Using(HeldBy)) + k
  BY <1>1, HeldByType, UsingMore
<1>3. Listening' = Listening
  BY DEF Listening
<1>4. Listening \in SUBSET Endpoints
  BY DEF Listening
<1>5. Cardinality(Listening) \in Nat
  <2>1. IsFiniteSet(Listening)
    BY <1>4, FiniteAssumption, FS_Subset
  <2> QED BY <2>1, FS_CardinalityType
<1>6. Cardinality(Using(HeldBy')) \in Nat /\ Cardinality(Using(HeldBy)) \in Nat
  BY UsingFinite
<1> QED BY <1>2, <1>3, <1>5, <1>6, FreeIs, FdAssumption

\* A listener takes one.
LEMMA BindHeld ==
    ASSUME UNCHANGED <<pc, at>>, NEW e \in Endpoints, Free > 0,
           Listening' \subseteq Listening \union {e}
    PROVE  Free' >= 0
<1>1. HeldBy' = HeldBy
  BY DEF HeldBy, HeldAt
<1>2. Listening \in SUBSET Endpoints /\ Listening' \in SUBSET Endpoints
  BY DEF Listening
<1>3. /\ Cardinality(Listening) \in Nat /\ Cardinality(Listening') \in Nat
      /\ Cardinality(Listening') <= Cardinality(Listening) + 1
  BY <1>2, ListenersCount
<1>4. Cardinality(Using(HeldBy)) \in Nat
  BY UsingFinite
<1> QED BY <1>1, <1>3, <1>4, FreeIs, FdAssumption

\* A step of one connection to a place where it holds as much or less.
LEMMA GotoHeld ==
    ASSUME ConnInv, FdInv, UNCHANGED <<proc, srv, at>>, NEW c \in Conns, NEW l \in Places,
           Goto(c, l), l = "handshake" => at[c] \in TransportOn,
           HeldAt(l, at[c]) <= HeldAt(pc[c], at[c])
    PROVE  FdInv'
<1>1. ASSUME NEW d \in Conns PROVE pc'[d] = IF d = c THEN l ELSE pc[d]
  BY DEF Goto, ConnInv
<1>2. ASSUME NEW d \in Conns PROVE HeldAt(pc'[d], at[d]) <= HeldAt(pc[d], at[d])
  <2>1. HeldAt(pc[d], at[d]) \in Nat
    BY HeldType
  <2> QED BY <1>1, <2>1
<1>3. at[c] \in Endpoints /\ Listening' = Listening
  BY DEF FdInv, Listening
<1>4. Free' >= 0
  BY <1>2, <1>3, LessHeld DEF FdInv
<1> QED BY <1>1, <1>4 DEF FdInv

\* A step of one connection that takes k descriptors.
LEMMA GotoTakes ==
    ASSUME ConnInv, FdInv, UNCHANGED <<proc, srv, at>>, NEW c \in Conns,
           NEW l \in Places \ {"handshake"}, Goto(c, l),
           NEW k \in Nat, Free >= k, HeldAt(l, at[c]) = HeldAt(pc[c], at[c]) + k
    PROVE  FdInv'
<1>1. ASSUME NEW d \in Conns PROVE pc'[d] = IF d = c THEN l ELSE pc[d]
  BY DEF Goto, ConnInv
<1>2. Free' >= 0
  BY MoreHeld
<1> QED BY <1>1, <1>2 DEF FdInv

\* The end of a listener or of the process gives descriptors back.
LEMMA CloseHeld ==
    ASSUME FdInv, at' = at, proc' \in {"up", "exited", "aborted"}, NEW e \in Endpoints,
           srv' \in [Endpoints -> {"bind", "accept", "ended"}], Listening' \subseteq Listening,
           \A c \in Conns : pc'[c] \in {pc[c], "closed"}
    PROVE  FdInv'
<1>1. ASSUME NEW c \in Conns PROVE HeldAt(pc'[c], at[c]) <= HeldAt(pc[c], at[c])
  <2>1. HeldAt("closed", at[c]) = 0
    BY DEF HeldAt
  <2>2. HeldAt(pc[c], at[c]) \in Nat
    BY HeldType
  <2> QED BY <2>1, <2>2
<1>2. Free' >= 0
  BY <1>1, LessHeld DEF FdInv
<1> QED BY <1>2 DEF FdInv

\* At the start nothing is held.
LEMMA InitFd == Init => FdInv
<1> SUFFICES ASSUME Init PROVE FdInv
  OBVIOUS
<1>1. Listening = {}
  BY DEF Init, Listening
<1>2. Using(HeldBy) = {}
  <2>1. \A c \in Conns : HeldBy[c] = 0
    BY DEF Init, HeldBy, HeldAt
  <2> QED BY <2>1, FdAssumption DEF Using
<1>3. Free = FdLimit
  BY <1>1, <1>2, FreeIs, FS_EmptySet, FdAssumption
<1> QED BY <1>3, FdAssumption DEF Init, FdInv

\* Whatever takes descriptors has found them free.
LEMMA NextFd == ConnInv /\ FdInv /\ [Next]_vars => FdInv'
<1> SUFFICES ASSUME ConnInv, FdInv, [Next]_vars PROVE FdInv'
  OBVIOUS
<1>1. ASSUME NEW c \in Conns, Task(c) \/ TaskErr(c) \/ Answer(c) \/ Accept(c)
                                \/ AcceptAborted(c) \/ ClientConnect(c)
      PROVE  FdInv'
  <2>1. UNCHANGED <<proc, srv, at>>
    BY <1>1 DEF Task, Answer, Resolve, OpenSocket, SocketErr, Starve, ConnectTimeout, Proxy,
                StartRelay, TaskErr, ConnectOk, ConnectErr, Handshake, EndRelay, NextAddr,
                Leave, Accept, AcceptAborted, ClientConnect
  <2>2. CASE Accept(c)
    <3>1. pc[c] = "backlog" /\ Goto(c, "resolve") /\ Free > 0
      BY <2>2 DEF Accept
    <3>2. HeldAt("resolve", at[c]) = HeldAt(pc[c], at[c]) + 1
      BY <3>1 DEF HeldAt
    <3>3. Free >= 1
      <4>1. Free \in Int
        BY FreeInt
      <4> QED BY <3>1, <4>1
    <3> QED BY <2>1, <3>1, <3>2, <3>3, GotoTakes DEF Places
  <2>3. CASE OpenSocket(c)
    <3>1. pc[c] = "open" /\ Goto(c, "dial") /\ Free > 0
      BY <2>3 DEF OpenSocket
    <3>2. HeldAt("dial", at[c]) = HeldAt(pc[c], at[c]) + 1
      BY <3>1 DEF HeldAt
    <3>3. Free >= 1
      <4>1. Free \in Int
        BY FreeInt
      <4> QED BY <3>1, <4>1
    <3> QED BY <2>1, <3>1, <3>2, <3>3, GotoTakes DEF Places
  <2>4. CASE StartRelay(c) /\ at[c] \notin TransportOn
    <3>1. pc[c] = "start" /\ Goto(c, "relay") /\ Free >= PipeFds
      BY <2>4 DEF StartRelay
    <3>2. HeldAt("relay", at[c]) = HeldAt(pc[c], at[c]) + PipeFds
      BY <2>4, <3>1, FdAssumption DEF HeldAt
    <3> QED BY <2>1, <3>1, <3>2, FdAssumption, GotoTakes DEF Places
  <2>5. CASE StartRelay(c) /\ at[c] \in TransportOn
    <3>1. pc[c] = "start" /\ Goto(c, "handshake")
      BY <2>5 DEF StartRelay
    <3>2. HeldAt("handshake", at[c]) <= HeldAt(pc[c], at[c])
      BY <3>1 DEF HeldAt
    <3> QED BY <2>1, <2>5, <3>1, <3>2, GotoHeld DEF Places
  <2>6. CASE Handshake(c)
    <3>1. pc[c] = "handshake" /\ Goto(c, "relay") /\ at[c] \in TransportOn
      BY <2>6 DEF Handshake, FdInv
    <3>2. HeldAt("relay", at[c]) <= HeldAt(pc[c], at[c])
      BY <3>1 DEF HeldAt
    <3> QED BY <2>1, <3>1, <3>2, GotoHeld DEF Places
  <2>7. CASE Resolve(c)
    <3>1. pc[c] = "resolve" /\ Goto(c, "open")
      BY <2>7 DEF Resolve
    <3>2. HeldAt("open", at[c]) <= HeldAt(pc[c], at[c])
      BY <3>1 DEF HeldAt
    <3> QED BY <2>1, <3>1, <3>2, GotoHeld DEF Places
  <2>8. CASE ConnectOk(c) \/ Proxy(c)
    <3>1. PICK l \in {"proxy", "start"} : pc[c] \in {"dial", "proxy"} /\ Goto(c, l)
      BY <2>8 DEF ConnectOk, Leave, Proxy
    <3>2. HeldAt(l, at[c]) <= HeldAt(pc[c], at[c])
      BY <3>1 DEF HeldAt
    <3> QED BY <2>1, <3>1, <3>2, GotoHeld DEF Places
  <2>9. CASE ConnectErr(c) \/ ConnectTimeout(c)
    <3>1. PICK l \in {"open", "unreachable"} : pc[c] = "dial" /\ Goto(c, l)
      BY <2>9 DEF ConnectErr, ConnectTimeout, NextAddr
    <3>2. HeldAt(l, at[c]) <= HeldAt(pc[c], at[c])
      BY <3>1 DEF HeldAt
    <3> QED BY <2>1, <3>1, <3>2, GotoHeld DEF Places
  <2>10. CASE TaskErr(c) \/ SocketErr(c) \/ Starve(c) \/ EndRelay(c) \/ AcceptAborted(c)
             \/ ClientConnect(c)
    <3>1. PICK l \in {"closed", "starved", "backlog"} : Goto(c, l)
      BY <2>10 DEF TaskErr, SocketErr, Starve, Leave, EndRelay, AcceptAborted, ClientConnect
    <3>2. HeldAt(l, at[c]) = 0 /\ HeldAt(pc[c], at[c]) \in Nat
      BY HeldType DEF HeldAt
    <3>3. HeldAt(l, at[c]) <= HeldAt(pc[c], at[c])
      BY <3>2
    <3> QED BY <2>1, <3>1, <3>3, GotoHeld DEF Places
  <2> QED BY <1>1, <2>2, <2>3, <2>4, <2>5, <2>6, <2>7, <2>8, <2>9, <2>10 DEF Task, Answer
<1>2. ASSUME NEW e \in Endpoints, Bind(e) PROVE FdInv'
  <2>1. srv' = [srv EXCEPT ![e] = "accept"] /\ UNCHANGED <<proc, pc, at>> /\ Free > 0
    BY <1>2 DEF Bind, connVars
  <2>2. Listening' \subseteq Listening \union {e}
    BY <2>1 DEF Listening, FdInv
  <2>3. Free' >= 0
    BY <2>1, <2>2, BindHeld
  <2> QED BY <2>1, <2>3 DEF FdInv
<1>3. ASSUME NEW e \in Endpoints, BindErr(e) PROVE FdInv'
  <2>1. proc' = "aborted" /\ UNCHANGED <<srv, pc, at>>
    BY <1>3 DEF BindErr, connVars
  <2>2. Listening' = Listening
    BY <2>1 DEF Listening
  <2> QED BY <2>1, <2>2, CloseHeld DEF FdInv
<1>4. ASSUME NEW e \in Endpoints, Return(e) PROVE FdInv'
  <2>1. srv' = [srv EXCEPT ![e] = "ended"] /\ UNCHANGED <<proc, at>>
    BY <1>4 DEF Return
  <2>2. Listening' \subseteq Listening /\ srv' \in [Endpoints -> {"bind", "accept", "ended"}]
    BY <2>1 DEF Listening, FdInv
  <2>3. \A c \in Conns : pc'[c] \in {pc[c], "closed"}
    BY <1>4 DEF Return
  <2> QED BY <2>1, <2>2, <2>3, CloseHeld DEF FdInv
<1>5. CASE Exit
  <2>1. proc' = "exited" /\ UNCHANGED <<srv, at>>
    BY <1>5 DEF Exit
  <2>2. Listening' = Listening
    BY <2>1 DEF Listening
  <2>3. \A c \in Conns : pc'[c] \in {pc[c], "closed"}
    BY <1>5 DEF Exit
  <2>4. CASE Endpoints # {}
    BY <2>1, <2>2, <2>3, <2>4, CloseHeld DEF FdInv
  <2>5. CASE Endpoints = {}
    <3>1. Conns = {}
      BY <2>5 DEF FdInv
    <3>2. HeldBy' = HeldBy
      BY <3>1 DEF HeldBy
    <3>3. Free' = Free
      BY <2>2, <3>2, FreeIs
    <3> QED BY <2>1, <3>1, <3>3 DEF FdInv
  <2> QED BY <2>4, <2>5
<1>6. CASE UNCHANGED vars
  <2>1. HeldBy' = HeldBy /\ Listening' = Listening
    BY <1>6 DEF vars, connVars, HeldBy, HeldAt, Listening
  <2>2. Free' = Free
    BY <2>1, FreeIs
  <2> QED BY <1>6, <2>2 DEF vars, connVars, FdInv
<1>7. ASSUME NEW e \in Endpoints, AcceptLoop(e) PROVE FdInv'
  <2>1. CASE AcceptErr(e) \/ KeepaliveErr(e)
    BY <1>4, <2>1 DEF AcceptErr, KeepaliveErr
  <2>2. CASE \E c \in Conns : Accept(c) \/ AcceptAborted(c)
    BY <1>1, <2>2
  <2> QED BY <1>7, <2>1, <2>2 DEF AcceptLoop
<1> QED BY <1>1, <1>2, <1>3, <1>5, <1>6, <1>7 DEF Next

\* For any number of endpoints, connections and addresses and any limit, every
\* variable keeps its type, connect dials no address past the last, and
\* listeners and tasks never hold more descriptors than the limit: every accept,
\* socket and pair of pipes is made while as many are free (run_tcp, connect,
\* run_relay).
THEOREM DescriptorsBounded == Spec => []TypeOK
<1>1. ConnInv /\ FdInv => TypeOK
  BY DEF ConnInv, HasAddr, Places, FdInv, TypeOK
<1> QED BY <1>1, InitInv, NextInv, InitFd, NextFd, PTL DEF Spec

=============================================================================
