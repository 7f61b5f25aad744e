-------------------------------- MODULE IpHash --------------------------------
(***************************************************************************)
(* The hash ring of hoorayhug_lb (ip_hash.rs).  The hash of a point is any *)
(* function of its index: the text that is hashed names the index only, so *)
(* the peers share their points.  Nodes of equal hash come in any order    *)
(* from sort_unstable, and a binary search that hits several of them may   *)
(* return any; what the sorted list answers is therefore kept as two       *)
(* functions of the hash, which the construction fixes once and for all.   *)
(***************************************************************************)
EXTENDS Integers, Sequences, FiniteSetsExt

CONSTANTS
    MaxHash,     \* bound: hashes are 0..MaxHash (u32 in the code)
    MinReplica,  \* MIN_REPLICA: 128 in the code
    RatioCap     \* largest ratio: 255 in the code, what inf as u8 saturates to

ASSUME HashAssumption == MaxHash \in Nat
ASSUME ReplicaAssumption == MinReplica \in Nat \ {0} /\ RatioCap \in Nat \ {0}

Hashes == 0..MaxHash
Nobody == -1

Largest(weights) == Max({weights[i] : i \in DOMAIN weights})

\* replica_ratio: at least MinReplica points for the heaviest peer.
ReplicaRatio(weights) ==
    LET max == Largest(weights) IN
    IF max >= MinReplica THEN 1
    ELSE IF max = 0 THEN RatioCap
    ELSE (MinReplica + max - 1) \div max

\* Mutant: an exclusive range leaves a peer of weight 0 without a point.
Points_Exclusive(weights, n) == 0..weights[n + 1] * ReplicaRatio(weights) - 1

\* The points of peer n in IpHash::new: the range includes its end, so that a
\* peer of weight 0 has a point too.
Points(weights, n) == 0..weights[n + 1] * ReplicaRatio(weights)

Tokens(weights) == 0..Len(weights) - 1

\* The peers with a point of hash h.
Owners(weights, pointHash, h) ==
    {n \in Tokens(weights) : \E v \in Points(weights, n) : pointHash[v] = h}

Occupied(weights, pointHash) ==
    {h \in Hashes : Owners(weights, pointHash, h) # {}}

\* What the sorted list may hold, hash by hash: the token of one of its nodes.
Answers(weights, pointHash) ==
    {f \in [Hashes -> Tokens(weights) \cup {Nobody}] :
        \A h \in Hashes :
            LET o == Owners(weights, pointHash, h) IN
            IF o = {} THEN f[h] = Nobody ELSE f[h] \in o}

\* IpHash::next: binary_search finds a node of this hash, or else the first
\* node of the next larger one, and starts over behind the largest.  Nobody
\* stands for the index out of bounds on an empty list.
Lookup(hit, first, h) ==
    LET occupied == {k \in Hashes : first[k] # Nobody}
        larger == {k \in occupied : k > h}
    IN  IF h \in occupied THEN hit[h]
        ELSE IF larger # {} THEN first[Min(larger)]
        ELSE IF occupied # {} THEN first[Min(occupied)]
        ELSE Nobody

=============================================================================
