------------------------------- MODULE Balancer -------------------------------
(***************************************************************************)
(* Which remote a new tcp connection is relayed to: the balance string of  *)
(* an endpoint is parsed (balancer.rs), the strategy it names is set up    *)
(* (RoundRobin, IpHash), and each connection asks it for a token and takes *)
(* the remote of that number (connect_and_relay).  A client is what its    *)
(* address hashes to: addresses of one hash are treated alike.             *)
(***************************************************************************)
EXTENDS RoundRobin, IpHash

CONSTANTS
    MaxEntries,   \* bound: weights in the balance string
    MaxRemotes,   \* bound: remote and extra_remotes
    RingEntries,  \* bound: weights in the string when the strategy is iphash
    RingWeight    \* bound: largest weight when the strategy is iphash

ASSUME EntriesAssumption ==
    /\ MaxEntries \in Nat \ {0} /\ RingEntries \in 1..MaxEntries
    /\ MaxRemotes \in Nat \ {0} /\ RingWeight \in 0..MaxWeight

Junk == -1  \* an entry that is no u8: empty, a word, 256 ...

VARIABLES
    entries,      \* the weights as written
    strategy,     \* "off", "iphash" or "roundrobin"
    remotes,      \* number of remotes of the endpoint
    pointHash,    \* the hash of the points of a ring
    hit, first,   \* the ring
    panicked      \* a connection has aborted the process

ringVars == <<pointHash, hit, first>>
vars == <<entries, strategy, remotes, panicked, ringVars, rrVars>>

\* parse_from_str keeps what parses as a u8 and drops the rest.
Parsed ==
    LET kept[i \in 0..Len(entries)] ==
            IF i = 0 THEN <<>>
            ELSE IF entries[i] = Junk THEN kept[i - 1]
            ELSE Append(kept[i - 1], entries[i])
    IN  kept[Len(entries)]

Strings(max, top) == UNION {[1..n -> {Junk} \cup 0..top] : n \in 1..max}

\* No ring is made for another strategy, nor for less than two weights.
NoRing ==
    /\ pointHash = <<>>
    /\ hit = [h \in Hashes |-> Nobody] /\ first = hit

MakeRing ==
    /\ pointHash \in [UNION {Points(Parsed, n) : n \in Tokens(Parsed)} -> Hashes]
    /\ hit \in Answers(Parsed, pointHash)
    /\ first \in Answers(Parsed, pointHash)

\* Balancer::new for the strategy of the string; without a string it is off.
Init ==
    /\ strategy \in {"off", "iphash", "roundrobin"}
    /\ entries \in IF strategy = "iphash" THEN Strings(RingEntries, RingWeight)
                                          ELSE Strings(MaxEntries, MaxWeight)
    /\ strategy = "off" => Len(entries) = 1
    /\ remotes \in 1..MaxRemotes
    /\ IF strategy = "iphash" /\ Len(Parsed) > 1 THEN MakeRing ELSE NoRing
    /\ New(IF strategy = "roundrobin" THEN Parsed ELSE <<>>)
    /\ panicked = FALSE

\* The index into extra_raddrs.
Extra(token) == token - 1

\* What connect_and_relay does with the token: token 0 is the remote, any other
\* an index into extra_raddrs, which is checked.
Use(token) ==
    panicked' = \/ token = Nobody
                \/ token # 0 /\ Extra(token) >= remotes - 1

\* Off, or at most one weight: token 0.
NextOnly ==
    /\ strategy = "off" \/ Len(Parsed) <= 1
    /\ Use(0)
    /\ UNCHANGED <<rrVars, ringVars>>

NextRoundRobin ==
    /\ strategy = "roundrobin" /\ Len(Parsed) > 1
    /\ \E p \in Nodes : NextNode(p) /\ Use(p)
    /\ UNCHANGED ringVars

NextIpHash ==
    /\ strategy = "iphash" /\ Len(Parsed) > 1
    /\ \E h \in Hashes : Use(Lookup(hit, first, h))
    /\ UNCHANGED <<rrVars, ringVars>>

\* A connection is accepted and asks for its remote; the release profile aborts
\* on a panic.
Next ==
    /\ ~panicked
    /\ NextOnly \/ NextRoundRobin \/ NextIpHash
    /\ UNCHANGED <<entries, strategy, remotes>>

Spec == Init /\ [][Next]_vars

-----------------------------------------------------------------------------
(* Properties                                                              *)

\* Every variable has its type: current weights are i16, a ring answers with
\* tokens of peers.
TypeOK ==
    /\ entries \in Strings(MaxEntries, MaxWeight)
    /\ remotes \in 1..MaxRemotes /\ panicked \in BOOLEAN
    /\ Nodes \subseteq Tokens(Parsed)
    /\ weight \in [Nodes -> 0..MaxWeight] /\ ew \in [Nodes -> 0..MaxWeight]
    /\ cw \in [Nodes -> -Half..Half - 1]
    /\ calls \in 0..MaxCalls /\ count \in [Nodes -> 0..MaxCalls]
    /\ \A f \in {hit, first} : f \in [Hashes -> Tokens(Parsed) \cup {Nobody}]

\* The weights as they are written, when what does not parse comes last: an
\* unparsable entry moves the weights behind it to other remotes.
Written == {p \in 0..Len(entries) - 1 : entries[p + 1] # Junk}
JunkIsLast == \A p \in Written : \A q \in 0..p : q \in Written
Owed(p) == entries[p + 1]
Total ==
    Sum([p \in 0..Len(entries) - 1 |-> IF p \in Written THEN Owed(p) ELSE 0], Len(entries))

\* How far ahead a peer can get.  The credit of n peers is 0 in all, and k of
\* them together gain only while a peer outside, which is not below them, is
\* chosen: the most that k = n - j peers can have is most[j].
Lead ==
    LET n == Cardinality(Written)
        most[j \in 0..n - 1] ==
            IF j = 0 THEN 0 ELSE ((n - j) * (most[j - 1] + Total)) \div (n - j + 1)
    IN  most[n - 1]

\* An i16 holds the total, and a weight more than a peer can be ahead.  A total
\* that fits is not enough: 128 peers of weight 255 and one of weight 1 bring a
\* current weight to 32893.
Fits == Total < Half /\ Lead + MaxWeight < Half

\* Where the weights fit, no addition of next wraps and each remote is credited
\* with the weight written for it: a current weight is what the peer is owed by
\* the exact sum, so a peer is never a whole turn behind its share, and each
\* round of as many calls as the total serves every peer exactly.
ExactCredit ==
    strategy = "roundrobin" /\ JunkIsLast /\ Cardinality(Written) > 1 /\ Fits =>
        /\ Nodes = Written
        /\ \A p \in Written :
            /\ cw[p] = calls * Owed(p) - Total * count[p]
            /\ Total > 0 => -Total < cw[p] /\ cw[p] <= Lead
            /\ Total > 0 /\ calls % Total = 0 => count[p] * Total = calls * Owed(p)

\* An endpoint with no more weights than remotes never panics when it picks a
\* remote: a token is in range, and a ring is never empty, whatever its weights.
TokensNameRemotes == Cardinality(Written) <= remotes => ~panicked

=============================================================================
