---------------------------- MODULE GroupByProofs ----------------------------
(***************************************************************************)
(* group_by_inner for batches of any size from any clients.                *)
(***************************************************************************)
EXTENDS GroupBy, TLAPS

\* Groups that are closed lie below the group being built.
GroupsBelow ==
    \A k \in 1..Len(groups) : groups[k][2] <= IF pc = "done" THEN maxn ELSE beg

\* The group being built is of one client; the inner loop has left behind only
\* packets of others, and nothing below the group is of a client that is still
\* to come.
BuildInv ==
    pc # "done" =>
        /\ \A i \in beg..end - 1 : SameAddr(i, beg)
        /\ pc = "probe" =>
               /\ end < probe /\ probe <= maxn
               /\ \A i \in end..probe - 1 : ~SameAddr(i, beg)
        /\ \A i \in Index : \A j \in Index : i < beg /\ beg <= j => ~SameAddr(i, j)

\* The first packet that no loop has looked at yet.
Unseen == IF pc = "probe" THEN probe ELSE end

\* While the first group is built, it is in order of arrival, and what was not
\* looked at yet is in its place.
LeadInv ==
    groups = <<>> =>
        /\ \A i \in Index : \A j \in Index :
               i < j /\ j < end => Arrival(data[i]) < Arrival(data[j])
        /\ \A i \in Index : i < end => Arrival(data[i]) < Unseen
        /\ \A i \in Index : Unseen <= i => Arrival(data[i]) = i

IInv ==
    /\ TypeOK /\ Permutes /\ GroupsTile /\ GroupsBelow /\ BuildInv
    /\ OneGroupPerClient /\ LeadInv /\ LeadGroupInOrder

\* The bounds of the indices, as the provers need them.
LEMMA Bounds ==
    ASSUME TypeOK
    PROVE  /\ maxn \in Nat /\ beg \in Nat /\ end \in Nat /\ probe \in Nat
           /\ 0 <= beg /\ beg < end /\ end <= maxn
           /\ \A i : i \in Index <=> i \in Int /\ 0 <= i /\ i < maxn
<1>1. maxn \in Nat
  BY MaxNAssumption DEF TypeOK
<1>2. beg \in Nat /\ beg < maxn
  BY <1>1 DEF TypeOK, Index
<1>3. end \in Nat /\ beg < end /\ end <= maxn
  BY <1>1, <1>2 DEF TypeOK
<1>4. probe \in Nat
  BY DEF TypeOK
<1> QED BY <1>1, <1>2, <1>3, <1>4 DEF Index

\* Pushing a range leaves the earlier ones as they are.
LEMMA Pushed ==
    ASSUME TypeOK, groups' = Append(groups, <<beg, end>>)
    PROVE  /\ groups' \in Seq(Nat \X Nat) /\ groups' # <<>>
           /\ Len(groups) \in Nat /\ Len(groups') = Len(groups) + 1
           /\ \A k \in 1..Len(groups) : groups'[k] = groups[k]
           /\ groups'[Len(groups) + 1] = <<beg, end>>
<1>1. <<beg, end>> \in Nat \X Nat
  BY Bounds
<1>2. groups \in Seq(Nat \X Nat)
  BY DEF TypeOK
<1> QED BY <1>1, <1>2

\* A batch has no groups at first.
LEMMA InitInv == Init => IInv
<1> SUFFICES ASSUME Init PROVE IInv
  OBVIOUS
<1>1. maxn \in Nat /\ 1 <= maxn /\ maxn <= MaxN
  BY MaxNAssumption DEF Init
<1>2. PICK f \in Batch(maxn) : orig = [i \in 0..maxn - 1 |-> <<f[i], i>>]
  BY DEF Init
<1>3. TypeOK
  <2>1. orig \in [Index -> Addrs \X Index]
    BY <1>2 DEF Batch, Index
  <2>2. 0 \in Index /\ 1 \in 0 + 1..maxn /\ <<>> \in Seq(Nat \X Nat)
    BY <1>1 DEF Index
  <2> QED BY <2>1, <2>2 DEF Init, TypeOK
<1>4. \A i \in Index : data[i] = orig[i] /\ Arrival(data[i]) = i
  BY <1>2 DEF Init, Index, Arrival
<1>5. Permutes
  BY <1>4 DEF Permutes
<1>6. GroupsTile /\ GroupsBelow /\ OneGroupPerClient /\ LeadGroupInOrder
  BY DEF Init, GroupsTile, GroupsBelow, OneGroupPerClient, LeadGroupInOrder
<1>7. BuildInv
  BY <1>1 DEF Init, BuildInv, SameAddr, Index
<1>8. LeadInv
  BY <1>1, <1>4 DEF Init, LeadInv, Unseen, Index
<1> QED BY <1>3, <1>5, <1>6, <1>7, <1>8 DEF IInv

-----------------------------------------------------------------------------
(* The loops                                                               *)

\* The next packet joins the group.
LEMMA GoAheadInv == ASSUME IInv, GoAhead PROVE IInv'
<1> USE DEF IInv
<1>1. /\ end' = end + 1 /\ end < maxn /\ pc = "scan" /\ SameAddr(end, beg)
      /\ UNCHANGED <<maxn, orig, data, beg, probe, groups, pc>>
  BY DEF GoAhead
<1>2. TypeOK'
  <2>1. end' \in beg + 1..maxn
    BY <1>1, Bounds
  <2> QED BY <1>1, <2>1 DEF TypeOK, Index
<1>3. Permutes' /\ GroupsTile' /\ GroupsBelow' /\ OneGroupPerClient' /\ LeadGroupInOrder'
  BY <1>1 DEF Permutes, GroupsTile, GroupsBelow, OneGroupPerClient, LeadGroupInOrder, InGroup,
     SameAddr, Index
<1>4. BuildInv'
  <2>1. \A i \in beg..end'-1 : i \in beg..end - 1 \/ i = end
    BY <1>1, Bounds
  <2> QED BY <1>1, <2>1 DEF BuildInv, SameAddr, Index
<1>5. LeadInv'
  <2> SUFFICES ASSUME groups = <<>> PROVE LeadInv'
    BY <1>1 DEF LeadInv
  <2>1. Unseen = end /\ Unseen' = end + 1
    BY <1>1 DEF Unseen
  <2>2. end \in Index /\ Arrival(data[end]) = end
    BY <1>1, <2>1, Bounds DEF LeadInv
  <2>3. \A i \in Index : i < end => Arrival(data[i]) < end /\ Arrival(data[i]) \in Int
    BY <2>1, Bounds DEF LeadInv, TypeOK, Arrival, Index
  <2>4. \A i \in Index : \A j \in Index :
            i < j /\ j < end + 1 => Arrival(data[i]) < Arrival(data[j])
    <3> SUFFICES ASSUME NEW i \in Index, NEW j \in Index, i < j, j < end + 1
                 PROVE  Arrival(data[i]) < Arrival(data[j])
      OBVIOUS
    <3>1. j < end \/ j = end
      BY Bounds
    <3>2. CASE j < end
      BY <3>2 DEF LeadInv
    <3>3. CASE j = end
      BY <2>2, <2>3, <3>3
    <3> QED BY <3>1, <3>2, <3>3
  <2>5. \A i \in Index : i < end + 1 => Arrival(data[i]) < end + 1
    <3> SUFFICES ASSUME NEW i \in Index, i < end + 1 PROVE Arrival(data[i]) < end + 1
      OBVIOUS
    <3>1. CASE i < end
      BY <2>3, <3>1, Bounds
    <3>2. CASE i = end
      BY <2>2, <3>2, Bounds
    <3> QED BY <3>1, <3>2, Bounds
  <2>6. \A i \in Index : end + 1 <= i => Arrival(data[i]) = i
    BY <2>1, Bounds DEF LeadInv
  <2> QED BY <1>1, <2>1, <2>4, <2>5, <2>6 DEF LeadInv, Index
<1> QED BY <1>2, <1>3, <1>4, <1>5

\* The inner loop starts behind a packet of another client.
LEMMA StartProbeInv == ASSUME IInv, StartProbe PROVE IInv'
<1> USE DEF IInv
<1>1. /\ probe' = end + 1 /\ end < maxn /\ pc = "scan" /\ pc' = "probe" /\ ~SameAddr(end, beg)
      /\ UNCHANGED <<maxn, orig, data, beg, end, groups>>
  BY DEF StartProbe, FirstProbe
<1>2. TypeOK'
  <2>1. probe' \in Nat
    BY <1>1, Bounds
  <2> QED BY <1>1, <2>1 DEF TypeOK, Index
<1>3. Permutes' /\ GroupsTile' /\ GroupsBelow' /\ OneGroupPerClient' /\ LeadGroupInOrder'
  BY <1>1 DEF Permutes, GroupsTile, GroupsBelow, OneGroupPerClient, LeadGroupInOrder, InGroup,
     SameAddr, Index
<1>4. BuildInv'
  <2>1. end < probe' /\ probe' <= maxn /\ \A i \in end..probe' - 1 : i = end
    BY <1>1, Bounds
  <2> QED BY <1>1, <2>1 DEF BuildInv, SameAddr, Index
<1>5. LeadInv'
  <2> SUFFICES ASSUME groups = <<>> PROVE LeadInv'
    BY <1>1 DEF LeadInv
  <2>1. Unseen = end /\ Unseen' = end + 1
    BY <1>1 DEF Unseen
  <2>2. \A i \in Index : i < end => Arrival(data[i]) < end + 1
    BY <2>1, Bounds DEF LeadInv, TypeOK, Arrival, Index
  <2>3. \A i \in Index : end + 1 <= i => Arrival(data[i]) = i
    BY <2>1, Bounds DEF LeadInv
  <2> QED BY <1>1, <2>1, <2>2, <2>3 DEF LeadInv, Index
<1> QED BY <1>2, <1>3, <1>4, <1>5

\* A packet of another client is left where it is.
LEMMA PassOverInv ==
    ASSUME IInv, Probe, ~SameAddr(probe, beg)
    PROVE  IInv'
<1> USE DEF IInv
<1>1. /\ probe' = probe + 1 /\ probe < maxn /\ pc = "probe"
      /\ UNCHANGED <<maxn, orig, data, beg, end, groups, pc>>
  BY DEF Probe, NextProbe
<1>2. TypeOK'
  <2>1. probe' \in Nat
    BY <1>1, Bounds
  <2> QED BY <1>1, <2>1 DEF TypeOK, Index
<1>3. Permutes' /\ GroupsTile' /\ GroupsBelow' /\ OneGroupPerClient' /\ LeadGroupInOrder'
  BY <1>1 DEF Permutes, GroupsTile, GroupsBelow, OneGroupPerClient, LeadGroupInOrder, InGroup,
     SameAddr, Index
<1>4. BuildInv'
  <2>1. end < probe' /\ probe' <= maxn /\ \A i \in end..probe' - 1 : i \in end..probe - 1 \/ i = probe
    BY <1>1, Bounds DEF BuildInv
  <2> QED BY <1>1, <2>1 DEF BuildInv, SameAddr, Index
<1>5. LeadInv'
  <2> SUFFICES ASSUME groups = <<>> PROVE LeadInv'
    BY <1>1 DEF LeadInv
  <2>1. Unseen = probe /\ Unseen' = probe + 1
    BY <1>1 DEF Unseen
  <2>2. \A i \in Index : i < end => Arrival(data[i]) < probe + 1
    BY <2>1, Bounds DEF LeadInv, TypeOK, Arrival, Index
  <2>3. \A i \in Index : probe + 1 <= i => Arrival(data[i]) = i
    BY <2>1, Bounds DEF LeadInv
  <2> QED BY <1>1, <2>1, <2>2, <2>3 DEF LeadInv, Index
<1> QED BY <1>2, <1>3, <1>4, <1>5

\* The swap exchanges two packets of what is not grouped yet.
LEMMA Swapped ==
    ASSUME IInv, Probe, SameAddr(probe, beg)
    PROVE  /\ end \in Index /\ probe \in Index /\ end < probe /\ beg < end
           /\ data' \in [Index -> Addrs \X Index]
           /\ data'[end] = data[probe] /\ data'[probe] = data[end]
           /\ \A i \in Index : i # end /\ i # probe => data'[i] = data[i]
           /\ end' = end + 1 /\ probe' = probe + 1 /\ pc = "probe"
           /\ UNCHANGED <<maxn, orig, beg, groups, pc>>
<1> USE DEF IInv
<1>1. end < probe /\ probe < maxn /\ end \in Index /\ probe \in Index
  BY Bounds DEF Probe, BuildInv
<1>2. data \in [Index -> Addrs \X Index]
  BY DEF TypeOK
<1>3. data' = [data EXCEPT ![probe] = data[end], ![end] = data[probe]]
  BY DEF Probe, Pick
<1> QED BY <1>1, <1>2, <1>3, Bounds DEF Probe, NextProbe

\* A packet of the group's client is brought forward.
LEMMA BringForwardInv ==
    ASSUME IInv, Probe, SameAddr(probe, beg)
    PROVE  IInv'
<1> USE DEF IInv
<1> Index' = Index
  BY Swapped DEF Index
<1>1. TypeOK'
  <2>1. end' \in beg + 1..maxn /\ probe' \in Nat
    BY Swapped, Bounds
  <2> QED BY Swapped, <2>1 DEF TypeOK
<1>2. Permutes'
  <2>1. \A i \in Index : \E j \in Index : data'[i] = data[j]
    BY Swapped
  <2>2. \A i \in Index : data'[i] = orig[Arrival(data'[i])]
    BY <2>1 DEF Permutes
  <2>3. ASSUME NEW i \in Index, NEW j \in Index, Arrival(data'[i]) = Arrival(data'[j])
        PROVE  i = j
    BY Swapped, <2>3 DEF Permutes
  <2> QED BY Swapped, <2>2, <2>3 DEF Permutes
<1>3. GroupsTile' /\ GroupsBelow'
  BY Swapped DEF GroupsTile, GroupsBelow
<1>4. \A i \in Index : i < end => data'[i] = data[i]
  BY Swapped, Bounds
<1>5. BuildInv'
  <2>1. ASSUME NEW i \in beg..end' - 1 PROVE Addr(data'[i]) = Addr(data'[beg])
    <3>1. beg \in Index /\ data'[beg] = data[beg] /\ Addr(data'[end]) = Addr(data[beg])
      BY Swapped, <1>4, Bounds DEF SameAddr
    <3>2. CASE i = end
      BY <3>1, <3>2
    <3>3. CASE i \in beg..end - 1
      <4>1. i \in Index /\ i < end
        BY <3>3, Bounds
      <4> QED BY <1>4, <3>1, <3>3, <4>1, Swapped DEF BuildInv, SameAddr
    <3> QED BY <3>2, <3>3, Swapped, Bounds
  <2>2. end' < probe' /\ probe' <= maxn
    BY Swapped, Bounds
  <2>3. ASSUME NEW i \in end'..probe' - 1 PROVE Addr(data'[i]) # Addr(data'[beg])
    <3>1. beg \in Index /\ data'[beg] = data[beg] /\ i \in Index /\ end \in end..probe - 1
      BY Swapped, <1>4, Bounds
    <3>2. CASE i = probe
      BY <3>1, <3>2, Swapped DEF BuildInv, SameAddr
    <3>3. CASE i # probe
      <4>1. i \in end..probe - 1 /\ data'[i] = data[i]
        BY <3>1, <3>3, Swapped, Bounds
      <4> QED BY <3>1, <4>1, Swapped DEF BuildInv, SameAddr
    <3> QED BY <3>2, <3>3
  <2>4. ASSUME NEW i \in Index, NEW j \in Index, i < beg, beg <= j
        PROVE  Addr(data'[i]) # Addr(data'[j])
    <3>1. i < end
      BY <2>4, Bounds
    <3>2. PICK k \in Index : beg <= k /\ data'[j] = data[k]
      <4>1. beg <= probe /\ beg <= end
        BY Swapped, Bounds
      <4> QED BY <2>4, <4>1, Swapped
    <3> QED BY <1>4, <2>4, <3>1, <3>2, Swapped DEF BuildInv, SameAddr
  <2> QED BY <2>1, <2>2, <2>3, <2>4, Swapped DEF BuildInv, SameAddr
<1>6. OneGroupPerClient'
  <2> SUFFICES ASSUME NEW k \in 1..Len(groups), NEW i \in Index, NEW j \in Index, InGroup(i, k)
               PROVE  Addr(data'[i]) = Addr(data'[j]) <=> InGroup(j, k)
    BY Swapped DEF OneGroupPerClient, InGroup, SameAddr
  <2>1. groups[k][2] \in Nat /\ groups[k][2] <= beg
    BY Swapped DEF GroupsBelow, TypeOK
  <2>2. i < beg /\ data'[i] = data[i]
    BY <1>4, <2>1, Bounds DEF InGroup
  <2>3. CASE j < beg
    <3>1. data'[j] = data[j]
      BY <1>4, <2>3, Bounds
    <3> QED BY <2>2, <3>1 DEF OneGroupPerClient, SameAddr
  <2>4. CASE beg <= j
    <3>1. ~InGroup(j, k)
      BY <2>1, <2>4, Bounds DEF InGroup
    <3>2. Addr(data'[i]) # Addr(data'[j])
      BY <1>5, <2>2, <2>4, Swapped DEF BuildInv, SameAddr
    <3> QED BY <3>1, <3>2
  <2> QED BY <2>3, <2>4, Bounds
<1>7. LeadInv'
  <2> SUFFICES ASSUME groups = <<>> PROVE LeadInv'
    BY Swapped DEF LeadInv
  <2>1. Unseen = probe /\ Unseen' = probe + 1
    BY Swapped DEF Unseen
  <2>2. Arrival(data'[end]) = probe
    BY <2>1, Swapped, Bounds DEF LeadInv
  <2>3. \A i \in Index : i < end => Arrival(data'[i]) \in Int /\ Arrival(data'[i]) < probe
    BY <1>4, <2>1, Bounds DEF LeadInv, TypeOK, Arrival, Index
  <2>4. ASSUME NEW i \in Index, NEW j \in Index, i < j, j < end + 1
        PROVE  Arrival(data'[i]) < Arrival(data'[j])
    <3>1. CASE j = end
      BY <2>2, <2>3, <2>4, <3>1
    <3>2. CASE j < end
      <4>1. data'[i] = data[i] /\ data'[j] = data[j]
        BY <1>4, <2>4, <3>2, Bounds
      <4> QED BY <2>4, <3>2, <4>1 DEF LeadInv
    <3> QED BY <2>4, <3>1, <3>2, Bounds
  <2>5. ASSUME NEW i \in Index, i < end + 1 PROVE Arrival(data'[i]) < probe + 1
    <3>1. CASE i = end
      BY <2>2, <3>1, Bounds
    <3>2. CASE i < end
      BY <2>3, <3>2, Bounds
    <3> QED BY <2>5, <3>1, <3>2, Bounds
  <2>6. ASSUME NEW i \in Index, probe + 1 <= i PROVE Arrival(data'[i]) = i
    <3>1. data'[i] = data[i] /\ probe <= i
      BY <2>6, Swapped, Bounds
    <3> QED BY <2>1, <3>1 DEF LeadInv
  <2> QED BY <2>1, <2>4, <2>5, <2>6, Swapped DEF LeadInv
<1>8. LeadGroupInOrder'
  <2> SUFFICES ASSUME groups # <<>>, NEW i \in Index, NEW j \in Index, i < j, InGroup(j, 1)
               PROVE  Arrival(data'[i]) < Arrival(data'[j])
    BY Swapped DEF LeadGroupInOrder, InGroup
  <2>1. 1 \in 1..Len(groups)
    BY DEF TypeOK
  <2>2. groups[1][2] \in Nat /\ groups[1][2] <= beg
    BY <2>1, Swapped DEF GroupsBelow, TypeOK
  <2>3. data'[i] = data[i] /\ data'[j] = data[j]
    BY <1>4, <2>2, Bounds DEF InGroup
  <2> QED BY <2>3 DEF LeadGroupInOrder
<1> QED BY <1>1, <1>2, <1>3, <1>5, <1>6, <1>7, <1>8

-----------------------------------------------------------------------------
(* Pushing a group                                                         *)

\* A group that is pushed follows the last one, and holds all packets of its
\* client when none is left behind it.
LEMMA PushInv ==
    ASSUME IInv, pc # "done", UNCHANGED <<maxn, orig, data>>,
           groups' = Append(groups, <<beg, end>>),
           \A i \in Index : end <= i => ~SameAddr(i, beg)
    PROVE  /\ Permutes' /\ OneGroupPerClient' /\ LeadInv' /\ LeadGroupInOrder'
           /\ \A k \in 1..Len(groups') :
                  /\ groups'[k][1] < groups'[k][2]
                  /\ groups'[k][1] = IF k = 1 THEN 0 ELSE groups'[k - 1][2]
                  /\ groups'[k][2] <= end
           /\ groups'[Len(groups')][2] = end
<1> USE DEF IInv
<1> Index' = Index
  BY DEF Index
<1>1. Permutes' /\ LeadInv'
  BY Pushed DEF Permutes, LeadInv
<1>2. ASSUME NEW k \in 1..Len(groups)
      PROVE  /\ groups'[k] = groups[k] /\ groups[k][1] \in Nat /\ groups[k][2] \in Nat
             /\ groups[k][2] <= beg
  <2>1. groups \in Seq(Nat \X Nat) /\ groups[k] \in Nat \X Nat
    BY DEF TypeOK
  <2>2. groups'[k] = groups[k]
    BY Pushed
  <2>3. groups[k][2] <= beg
    BY DEF GroupsBelow
  <2> QED BY <2>1, <2>2, <2>3
<1>3. ASSUME NEW k \in 1..Len(groups')
      PROVE  k \in 1..Len(groups) \/ (k = Len(groups) + 1 /\ groups'[k] = <<beg, end>>)
  <2>1. Len(groups) \in Nat /\ Len(groups') = Len(groups) + 1
    BY Pushed
  <2>2. k \in 1..Len(groups) \/ k = Len(groups) + 1
    BY <2>1
  <2> QED BY <2>2, Pushed
<1>4. ASSUME NEW k \in 1..Len(groups')
      PROVE  /\ groups'[k][1] < groups'[k][2]
             /\ groups'[k][1] = IF k = 1 THEN 0 ELSE groups'[k - 1][2]
             /\ groups'[k][2] <= end
  <2>1. CASE k \in 1..Len(groups)
    <3>1. k # 1 => k - 1 \in 1..Len(groups) /\ groups'[k - 1] = groups[k - 1]
      BY <2>1, Pushed
    <3>2. /\ groups[k][1] < groups[k][2]
          /\ groups[k][1] = IF k = 1 THEN 0 ELSE groups[k - 1][2]
      BY <2>1 DEF GroupsTile
    <3>3. groups'[k] = groups[k] /\ groups[k][2] \in Nat /\ groups[k][2] <= beg
      BY <1>2, <2>1
    <3>4. groups'[k][2] <= end
      BY <3>3, Bounds
    <3> QED BY <3>1, <3>2, <3>3, <3>4
  <2>2. CASE k = Len(groups) + 1 /\ groups'[k] = <<beg, end>>
    <3>1. beg = IF groups = <<>> THEN 0 ELSE groups[Len(groups)][2]
      BY DEF GroupsTile
    <3>2. CASE groups = <<>>
      BY <2>2, <3>1, <3>2, Bounds
    <3>3. CASE groups # <<>>
      <4>1. Len(groups) \in 1..Len(groups) /\ k # 1 /\ k - 1 = Len(groups)
        BY <2>2, <3>3, Pushed DEF TypeOK
      <4> QED BY <1>2, <2>2, <3>1, <3>3, <4>1, Bounds
    <3> QED BY <3>2, <3>3
  <2> QED BY <1>3, <2>1, <2>2
<1>5. OneGroupPerClient'
  <2> SUFFICES ASSUME NEW k \in 1..Len(groups'), NEW i \in Index, NEW j \in Index, InGroup(i, k)'
               PROVE  SameAddr(i, j) <=> InGroup(j, k)'
    BY DEF OneGroupPerClient, SameAddr
  <2>1. CASE k \in 1..Len(groups)
    BY <1>2, <2>1 DEF OneGroupPerClient, InGroup
  <2>2. CASE groups'[k] = <<beg, end>>
    <3>1. beg <= i /\ i < end /\ (InGroup(j, k)' <=> beg <= j /\ j < end)
      BY <2>2 DEF InGroup
    <3>2. i \in beg..end - 1 /\ SameAddr(i, beg)
      BY <3>1, Bounds DEF BuildInv
    <3>3. CASE j < beg
      <4>1. ~SameAddr(j, i)
        BY <3>1, <3>3 DEF BuildInv
      <4> QED BY <3>1, <3>3, <4>1, Bounds DEF SameAddr
    <3>4. CASE beg <= j /\ j < end
      <4>1. j \in beg..end - 1
        BY <3>4, Bounds
      <4> QED BY <3>1, <3>2, <3>4, <4>1 DEF BuildInv, SameAddr
    <3>5. CASE end <= j
      BY <3>1, <3>2, <3>5, Bounds DEF SameAddr
    <3> QED BY <3>3, <3>4, <3>5, Bounds
  <2> QED BY <1>3, <2>1, <2>2
<1>6. LeadGroupInOrder'
  <2> SUFFICES ASSUME NEW i \in Index, NEW j \in Index, i < j, InGroup(j, 1)'
               PROVE  Arrival(data[i]) < Arrival(data[j])
    BY DEF LeadGroupInOrder
  <2>1. CASE groups = <<>>
    <3>1. groups'[1] = <<beg, end>>
      BY <2>1, Pushed
    <3> QED BY <2>1, <3>1 DEF LeadInv, InGroup
  <2>2. CASE groups # <<>>
    <3>1. 1 \in 1..Len(groups)
      BY <2>2 DEF TypeOK
    <3> QED BY <1>2, <2>2, <3>1 DEF LeadGroupInOrder, InGroup
  <2> QED BY <2>1, <2>2
<1>7. groups'[Len(groups')][2] = end
  BY Pushed
<1> QED BY <1>1, <1>4, <1>5, <1>6, <1>7

\* The inner loop is through: the next group begins where this one ends.
LEMMA CloseGroupInv == ASSUME IInv, CloseGroup PROVE IInv'
<1> USE DEF IInv
<1>1. /\ pc = "probe" /\ pc' = "scan" /\ probe >= maxn
      /\ groups' = Append(groups, <<beg, end>>) /\ beg' = end /\ end' = end + 1
      /\ UNCHANGED <<maxn, orig, data, probe>>
  BY DEF CloseGroup, NextBeg
<1> Index' = Index
  BY <1>1 DEF Index
<1>2. end < maxn /\ \A i \in Index : end <= i => i \in end..probe - 1 /\ ~SameAddr(i, beg)
  BY <1>1, Bounds DEF BuildInv
<1>3. TypeOK'
  <2>1. beg' \in Index /\ end' \in beg' + 1..maxn
    BY <1>1, <1>2, Bounds
  <2> QED BY <1>1, <2>1, Pushed DEF TypeOK
<1>4. /\ Permutes' /\ OneGroupPerClient' /\ LeadInv' /\ LeadGroupInOrder'
      /\ \A k \in 1..Len(groups') :
             /\ groups'[k][1] < groups'[k][2]
             /\ groups'[k][1] = IF k = 1 THEN 0 ELSE groups'[k - 1][2]
             /\ groups'[k][2] <= end
      /\ groups'[Len(groups')][2] = end
  <2> HIDE DEF IInv
  <2> QED BY <1>1, <1>2, PushInv
<1>5. GroupsTile' /\ GroupsBelow'
  BY <1>1, <1>4, Pushed DEF GroupsTile, GroupsBelow
<1>6. BuildInv'
  <2>1. \A i \in beg'..end' - 1 : i = beg'
    BY <1>1, Bounds
  <2>2. ASSUME NEW i \in Index, NEW j \in Index, i < end, end <= j
        PROVE  ~SameAddr(i, j)
    <3>1. ~SameAddr(j, beg)
      BY <1>2, <2>2
    <3>2. CASE i < beg
      <4>1. beg <= j
        BY <2>2, Bounds
      <4> QED BY <1>1, <3>2, <4>1 DEF BuildInv
    <3>3. CASE beg <= i
      <4>1. i \in beg..end - 1
        BY <2>2, <3>3, Bounds
      <4> QED BY <1>1, <3>1, <4>1 DEF BuildInv, SameAddr
    <3> QED BY <3>2, <3>3, Bounds
  <2> QED BY <1>1, <2>1, <2>2 DEF BuildInv, SameAddr
<1> QED BY <1>3, <1>4, <1>5, <1>6

\* The last group is pushed behind the outer loop.
LEMMA FinishInv == ASSUME IInv, Finish PROVE IInv'
<1> USE DEF IInv
<1>1. /\ pc = "scan" /\ pc' = "done" /\ end >= maxn
      /\ groups' = Append(groups, <<beg, end>>)
      /\ UNCHANGED <<maxn, orig, data, beg, end, probe>>
  BY DEF Finish, LastGroup
<1> Index' = Index
  BY <1>1 DEF Index
<1>2. end = maxn /\ \A i \in Index : end <= i => ~SameAddr(i, beg)
  BY <1>1, Bounds
<1>3. TypeOK'
  BY <1>1, Pushed DEF TypeOK
<1>4. /\ Permutes' /\ OneGroupPerClient' /\ LeadInv' /\ LeadGroupInOrder'
      /\ \A k \in 1..Len(groups') :
             /\ groups'[k][1] < groups'[k][2]
             /\ groups'[k][1] = IF k = 1 THEN 0 ELSE groups'[k - 1][2]
             /\ groups'[k][2] <= end
      /\ groups'[Len(groups')][2] = end
  <2> HIDE DEF IInv
  <2> QED BY <1>1, <1>2, PushInv
<1>5. GroupsTile' /\ GroupsBelow'
  BY <1>1, <1>2, <1>4, Pushed DEF GroupsTile, GroupsBelow
<1>6. BuildInv'
  BY <1>1 DEF BuildInv
<1> QED BY <1>3, <1>4, <1>5, <1>6

-----------------------------------------------------------------------------
(* Theorems                                                                *)

\* Every step, stuttering included, preserves the invariant.
LEMMA NextInv == IInv /\ [Next]_vars => IInv'
<1> SUFFICES ASSUME IInv, [Next]_vars PROVE IInv'
  OBVIOUS
<1>1. CASE Next
  BY <1>1, GoAheadInv, StartProbeInv, PassOverInv, BringForwardInv, CloseGroupInv, FinishInv
     DEF Next
<1>2. CASE UNCHANGED vars
  <2>1. UNCHANGED <<maxn, orig, data, beg, end, probe, groups, pc>>
    BY <1>2 DEF vars
  <2>2. TypeOK' /\ Permutes' /\ GroupsTile' /\ GroupsBelow'
    BY <2>1 DEF IInv, TypeOK, Permutes, GroupsTile, GroupsBelow, Index
  <2>3. BuildInv' /\ OneGroupPerClient'
    BY <2>1 DEF IInv, BuildInv, OneGroupPerClient, InGroup, SameAddr, Index
  <2>4. LeadInv' /\ LeadGroupInOrder'
    BY <2>1 DEF IInv, LeadInv, LeadGroupInOrder, Unseen, InGroup, Index
  <2> QED BY <2>2, <2>3, <2>4 DEF IInv
<1> QED BY <1>1, <1>2

\* IInv is an invariant of group_by_inner.
LEMMA Invariance == Spec => []IInv
<1> QED BY InitInv, NextInv, PTL DEF Spec

\* Every index of the two loops is in bounds, for a batch of any size.
THEOREM IndicesInBounds == Spec => []TypeOK
<1>1. IInv => TypeOK
  BY DEF IInv
<1> QED BY <1>1, Invariance, PTL

\* The groups cover the batch, and only it.
THEOREM GroupsCover == Spec => []GroupsTile
<1>1. IInv => GroupsTile
  BY DEF IInv
<1> QED BY <1>1, Invariance, PTL

\* A client has one group.
THEOREM ClientsGrouped == Spec => []OneGroupPerClient
<1>1. IInv => OneGroupPerClient
  BY DEF IInv
<1> QED BY <1>1, Invariance, PTL

\* The swaps permute the batch.
THEOREM PacketsKept == Spec => []Permutes
<1>1. IInv => Permutes
  BY DEF IInv
<1> QED BY <1>1, Invariance, PTL

\* The first client's packets stay in order.
THEOREM LeadInOrder == Spec => []LeadGroupInOrder
<1>1. IInv => LeadGroupInOrder
  BY DEF IInv
<1> QED BY <1>1, Invariance, PTL

=============================================================================
