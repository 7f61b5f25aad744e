------------------------------ MODULE GroupBy ------------------------------
(***************************************************************************)
(* group_by_inner of the udp Registry (udp/middle.rs): the packets of a    *)
(* received batch are brought together by client address, in place, and    *)
(* the ranges of the groups are pushed on a vector.  A packet is a pair of *)
(* its address and its place of arrival; indices start at 0 as in the      *)
(* code.  One action is one round of a loop.                               *)
(***************************************************************************)
EXTENDS Integers, Sequences

CONSTANTS
    Addrs,  \* client addresses
    MaxN    \* packets of a batch: MAX_PACKETS

ASSUME MaxNAssumption == MaxN \in Nat \ {0}

VARIABLES
    maxn,           \* data.len(), the registry's cursor: at least 1
    orig,           \* history: the batch as it was received
    data,           \* the packets
    beg, end,       \* the group being built is data[beg..end]
    probe,          \* index of the inner loop
    groups,         \* the ranges pushed so far
    pc              \* "scan", "probe" or "done"

vars == <<maxn, orig, data, beg, end, probe, groups, pc>>

Batch(n) == [0..n - 1 -> Addrs]
Addr(p) == p[1]
Arrival(p) == p[2]

Init ==
    /\ maxn \in 1..MaxN
    /\ \E f \in Batch(maxn) : orig = [i \in 0..maxn - 1 |-> <<f[i], i>>]
    /\ data = orig
    /\ beg = 0 /\ end = 1 /\ probe = 0
    /\ groups = <<>>
    /\ pc = "scan"

SameAddr(i, j) == Addr(data[i]) = Addr(data[j])

\* The next packet is of the same client.
GoAhead ==
    /\ pc = "scan" /\ end < maxn /\ SameAddr(end, beg)
    /\ end' = end + 1
    /\ UNCHANGED <<maxn, orig, data, beg, probe, groups, pc>>

\* Mutant: the inner loop starts one packet late.
FirstProbe_Late == end + 2

FirstProbe == end + 1

StartProbe ==
    /\ pc = "scan" /\ end < maxn /\ ~SameAddr(end, beg)
    /\ probe' = FirstProbe
    /\ pc' = "probe"
    /\ UNCHANGED <<maxn, orig, data, beg, end, groups>>

\* Mutant: the packet is copied forward instead of swapped.
Pick_Copies(d, i, j) == [d EXCEPT ![j] = d[i]]

\* Mutant: the swap hits the last packet of the group itself.
Pick_OffByOne(d, i, j) == [d EXCEPT ![i] = d[j - 1], ![j - 1] = d[i]]

\* data.swap(i, j)
Pick(d, i, j) == [d EXCEPT ![i] = d[j], ![j] = d[i]]

NextProbe == probe + 1

\* Pick packets of the same client from further back.
Probe ==
    /\ pc = "probe" /\ probe < maxn
    /\ IF SameAddr(probe, beg)
       THEN data' = Pick(data, probe, end) /\ end' = end + 1
       ELSE UNCHANGED <<data, end>>
    /\ probe' = NextProbe
    /\ UNCHANGED <<maxn, orig, beg, groups, pc>>

\* Mutant: the next group skips its first packet.
NextBeg_Skips == end + 1

NextBeg == end

CloseGroup ==
    /\ pc = "probe" /\ probe >= maxn
    /\ groups' = Append(groups, <<beg, end>>)
    /\ beg' = NextBeg /\ end' = NextBeg + 1
    /\ pc' = "scan"
    /\ UNCHANGED <<maxn, orig, data, probe>>

\* Mutant: the last group is pushed only when it is not empty so far.
LastGroup_Lost == IF end > beg + 1 THEN Append(groups, <<beg, end>>) ELSE groups

LastGroup == Append(groups, <<beg, end>>)

Finish ==
    /\ pc = "scan" /\ end >= maxn
    /\ groups' = LastGroup
    /\ pc' = "done"
    /\ UNCHANGED <<maxn, orig, data, beg, end, probe>>

Next == GoAhead \/ StartProbe \/ Probe \/ CloseGroup \/ Finish

Spec == Init /\ [][Next]_vars

-----------------------------------------------------------------------------
(* Properties                                                              *)

Index == 0..maxn - 1

\* Every variable has its type, and every index the loops use is in bounds.
TypeOK ==
    /\ maxn \in 1..MaxN
    /\ orig \in [Index -> Addrs \X Index] /\ data \in [Index -> Addrs \X Index]
    /\ beg \in Index /\ end \in beg + 1..maxn /\ probe \in Nat
    /\ groups \in Seq(Nat \X Nat)
    /\ pc \in {"scan", "probe", "done"}

\* The groups pushed are non-empty ranges that follow each other from 0 on;
\* at the end they cover the batch and nothing beyond it, where the registry
\* still has packets of an earlier batch.
GroupsTile ==
    /\ \A k \in 1..Len(groups) :
           /\ groups[k][1] < groups[k][2]
           /\ groups[k][1] = IF k = 1 THEN 0 ELSE groups[k - 1][2]
    /\ pc = "done" => groups # <<>> /\ groups[Len(groups)][2] = maxn
    /\ pc # "done" => beg = IF groups = <<>> THEN 0 ELSE groups[Len(groups)][2]

InGroup(i, k) == groups[k][1] <= i /\ i < groups[k][2]

\* All packets of a group come from one client, and no other group, nor what
\* is not yet grouped, has a packet of that client: one lookup in the SockMap
\* and one send_all serve each client of a batch.
OneGroupPerClient ==
    \A k \in 1..Len(groups) : \A i \in Index : \A j \in Index :
        InGroup(i, k) => (SameAddr(i, j) <=> InGroup(j, k))

\* No packet is lost, doubled or changed by the swaps.
Permutes ==
    /\ \A i \in Index : data[i] = orig[Arrival(data[i])]
    /\ \A i, j \in Index : Arrival(data[i]) = Arrival(data[j]) => i = j

\* The packets of the first client of a batch keep their order of arrival.
\* The swaps may reorder the packets of the others.
LeadGroupInOrder ==
    groups # <<>> =>
        \A i, j \in Index :
            i < j /\ InGroup(j, 1) => Arrival(data[i]) < Arrival(data[j])

=============================================================================
