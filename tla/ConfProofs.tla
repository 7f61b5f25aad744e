----------------------------- MODULE ConfProofs -----------------------------
(***************************************************************************)
(* The precedence of options for any number of files in any order and any  *)
(* flags, and the endpoints of a legacy file with any ranges and addresses.*)
(***************************************************************************)
EXTENDS Conf, SequenceTheorems, WellFoundedInduction, TLAPS

-----------------------------------------------------------------------------
(* Induction                                                               *)

\* A set of naturals has a least element.
LEMMA LeastNat ==
    ASSUME NEW T \in SUBSET Nat, T # {}
    PROVE  \E n \in T : \A m \in T : n <= m
<1> DEFINE R == OpToRel(<, Nat)
<1>1. IsWellFoundedOn(R, Nat)
  BY NatLessThanWellFounded
<1>2. \A x, y \in Nat : x < y => <<x, y>> \in R
  BY DEF OpToRel
<1> HIDE DEF R
<1>3. PICK n \in T : \A m \in T : ~(<<m, n>> \in R)
  BY <1>1, WFMin, Zenon
<1>4. \A m \in T : ~(m < n)
  BY <1>2, <1>3, Zenon
<1>5. \A m \in T : n <= m
  BY <1>4
<1> QED BY <1>5

\* A set that holds 0 and, with a number up to n, the next one, holds 0..n.
LEMMA UpTo ==
    ASSUME NEW n \in Nat, NEW S, 0 \in S, \A i \in 0..n - 1 : i \in S => i + 1 \in S
    PROVE  0..n \subseteq S
<1> SUFFICES ASSUME 0..n \ S # {} PROVE FALSE
  OBVIOUS
<1> DEFINE T == 0..n \ S
<1>1. T \in SUBSET Nat /\ T # {}
  OBVIOUS
<1>2. PICK i \in T : \A m \in T : i <= m
  <2> HIDE DEF T
  <2> QED BY <1>1, LeastNat
<1>3. i \in 0..n /\ i # 0 /\ i \notin S
  OBVIOUS
<1>4. i - 1 \in 0..n - 1 /\ i - 1 \notin T /\ (i - 1) + 1 = i
  BY <1>2, <1>3
<1> QED BY <1>3, <1>4

\* s is computed step by step from v: a step is a function of the index and of
\* the value so far.
Steps(s, v, n, step) == s[0] = v /\ \A i \in 0..n - 1 : s[i + 1] = step[i][s[i]]

\* What is computed step by step exists.
LEMMA RecExists ==
    ASSUME NEW V, NEW v \in V, NEW n \in Nat, NEW step \in [0..n - 1 -> [V -> V]]
    PROVE  \E s \in [0..n -> V] : Steps(s, v, n, step)
<1> DEFINE P(s, m) == Steps(s, v, m, step)
           S == {m \in 0..n : \E s \in [0..m -> V] : P(s, m)}
<1>1. 0 \in S
  <2>1. P([k \in 0..0 |-> v], 0)
    BY DEF Steps
  <2>2. [k \in 0..0 |-> v] \in [0..0 -> V] /\ 0 \in 0..n
    OBVIOUS
  <2> QED BY <2>1, <2>2
<1>2. ASSUME NEW m \in 0..n - 1, m \in S PROVE m + 1 \in S
  <2>1. PICK s \in [0..m -> V] : P(s, m)
    BY <1>2
  <2>2. s[m] \in V /\ step[m][s[m]] \in V
    OBVIOUS
  <2> DEFINE t == [k \in 0..m + 1 |-> IF k <= m THEN s[k] ELSE step[m][s[m]]]
  <2>3. t \in [0..m + 1 -> V] /\ t[0] = v
    BY <2>1, <2>2 DEF Steps
  <2>4. ASSUME NEW k \in 0..m PROVE t[k + 1] = step[k][t[k]]
    <3>1. CASE k < m
      <4>1. k \in 0..m - 1 /\ k + 1 <= m /\ k + 1 \in 0..m + 1 /\ k \in 0..m + 1
        BY <3>1
      <4>2. t[k + 1] = s[k + 1] /\ t[k] = s[k]
        BY <4>1
      <4> QED BY <2>1, <4>1, <4>2 DEF Steps
    <3>2. CASE k = m
      <4>1. t[m] = s[m] /\ t[m + 1] = step[m][s[m]]
        OBVIOUS
      <4> QED BY <3>2, <4>1
    <3> QED BY <3>1, <3>2
  <2> HIDE DEF t
  <2>5. P(t, m + 1) /\ m + 1 \in 0..n
    BY <2>3, <2>4 DEF Steps
  <2> HIDE DEF P
  <2> QED BY <2>3, <2>5
<1> HIDE DEF S
<1>3. 0..n \subseteq S
  BY <1>1, <1>2, UpTo
<1>4. n \in S
  BY <1>3
<1> QED BY <1>4 DEF S

-----------------------------------------------------------------------------
(* The first set option of a sequence                                      *)

\* The values of an option that files and flags give it.
Values == {Unset, Flag} \cup ({"global", "endpoint"} \X Nat)

\* A sequence with a set option has a first one.
LEMMA FirstExists ==
    ASSUME NEW s \in Seq(Values), NEW k \in 1..Len(s), s[k] # Unset
    PROVE  \E i \in 1..Len(s) : s[i] # Unset /\ \A j \in 1..i - 1 : s[j] = Unset
<1> DEFINE T == {i \in 1..Len(s) : s[i] # Unset}
<1>0. Len(s) \in Nat
  OBVIOUS
<1>1. T \in SUBSET Nat /\ T # {}
  BY <1>0
<1>2. PICK i \in T : \A m \in T : i <= m
  BY <1>1, LeastNat
<1>3. \A j \in 1..i - 1 : j \in 1..Len(s) /\ j \notin T
  BY <1>0, <1>2
<1> QED BY <1>2, <1>3

\* What FirstSet returns.
LEMMA FirstAt ==
    ASSUME NEW s \in Seq(Values), NEW k \in 1..Len(s), s[k] # Unset,
           \A j \in 1..k - 1 : s[j] = Unset
    PROVE  FirstSet(s) = s[k]
<1>0. Len(s) \in Nat /\ DOMAIN s = 1..Len(s)
  OBVIOUS
<1> DEFINE i == CHOOSE m \in DOMAIN s : s[m] # Unset /\ \A j \in 1..m - 1 : s[j] = Unset
<1>1. i \in 1..Len(s) /\ s[i] # Unset /\ \A j \in 1..i - 1 : s[j] = Unset
  BY <1>0
<1>2. ~(i < k) /\ ~(k < i)
  <2>1. i \in Int /\ k \in Int /\ 1 <= i /\ 1 <= k
    BY <1>0, <1>1
  <2>2. i < k => i \in 1..k - 1
    BY <2>1
  <2>3. k < i => k \in 1..i - 1
    BY <2>1
  <2> QED BY <1>1, <2>2, <2>3
<1>3. i = k
  BY <1>0, <1>1, <1>2
<1>4. FirstSet(s) = s[i]
  BY <1>0 DEF FirstSet
<1> QED BY <1>3, <1>4

\* It is the option itself or Unset.
LEMMA FirstType == ASSUME NEW s \in Seq(Values) PROVE FirstSet(s) \in Values
<1>1. CASE \A k \in 1..Len(s) : s[k] = Unset
  BY <1>1 DEF FirstSet, Values
<1>2. ASSUME NEW k \in 1..Len(s), s[k] # Unset PROVE FirstSet(s) \in Values
  BY <1>2, FirstExists, FirstAt
<1> QED BY <1>1, <1>2

\* A set option at the head hides the others.
LEMMA FirstCons ==
    ASSUME NEW x \in Values, NEW s \in Seq(Values)
    PROVE  FirstSet(<<x>> \o s) = IF x # Unset THEN x ELSE FirstSet(s)
<1> DEFINE t == <<x>> \o s
<1> SUFFICES FirstSet(t) = IF x # Unset THEN x ELSE FirstSet(s)
  OBVIOUS
<1>1. /\ t \in Seq(Values) /\ Len(t) = 1 + Len(s) /\ t[1] = x /\ Len(s) \in Nat
      /\ \A j \in 1..Len(s) : t[j + 1] = s[j]
      /\ \A j \in 2..Len(t) : t[j] = s[j - 1]
  OBVIOUS
<1>2. DOMAIN t = 1..Len(t) /\ DOMAIN s = 1..Len(s)
  BY <1>1
<1> HIDE DEF t
<1>3. CASE x # Unset
  BY <1>1, <1>3, FirstAt
<1>4. ASSUME x = Unset, NEW k \in 1..Len(s), s[k] # Unset PROVE FirstSet(t) = FirstSet(s)
  <2>1. PICK i \in 1..Len(s) : s[i] # Unset /\ \A j \in 1..i - 1 : s[j] = Unset
    BY <1>4, FirstExists
  <2>2. FirstSet(s) = s[i]
    BY <2>1, FirstAt
  <2>3. i + 1 \in 1..Len(t) /\ t[i + 1] = s[i]
    BY <1>1
  <2>4. \A j \in 1..(i + 1) - 1 : t[j] = Unset
    <3> TAKE j \in 1..(i + 1) - 1
    <3>1. CASE j = 1
      BY <1>1, <1>4, <3>1
    <3>2. CASE j # 1
      <4>1. j \in 2..Len(t) /\ j - 1 \in 1..i - 1
        BY <1>1, <3>2
      <4> QED BY <1>1, <2>1, <4>1
    <3> QED BY <3>1, <3>2
  <2>5. FirstSet(t) = t[i + 1]
    BY <1>1, <2>1, <2>3, <2>4, FirstAt
  <2> QED BY <2>2, <2>3, <2>5
<1>5. CASE x = Unset /\ \A k \in 1..Len(s) : s[k] = Unset
  <2>1. \A j \in 1..Len(t) : t[j] = Unset
    <3> TAKE j \in 1..Len(t)
    <3>1. j = 1 \/ (j \in 2..Len(t) /\ j - 1 \in 1..Len(s))
      BY <1>1
    <3> QED BY <1>1, <1>5, <3>1
  <2> QED BY <1>2, <1>5, <2>1 DEF FirstSet
<1> QED BY <1>3, <1>4, <1>5

\* One more option at the end counts only if none was set before.
LEMMA FirstSnoc ==
    ASSUME NEW x \in Values, NEW s \in Seq(Values)
    PROVE  FirstSet(Append(s, x)) = IF FirstSet(s) = Unset THEN x ELSE FirstSet(s)
<1> DEFINE t == Append(s, x)
<1> SUFFICES FirstSet(t) = IF FirstSet(s) = Unset THEN x ELSE FirstSet(s)
  OBVIOUS
<1>1. /\ t \in Seq(Values) /\ Len(t) = Len(s) + 1 /\ t[Len(s) + 1] = x /\ Len(s) \in Nat
      /\ \A j \in 1..Len(s) : t[j] = s[j]
  OBVIOUS
<1>2. DOMAIN t = 1..Len(t) /\ DOMAIN s = 1..Len(s)
  BY <1>1
<1> HIDE DEF t
<1>3. ASSUME NEW k \in 1..Len(s), s[k] # Unset
      PROVE  FirstSet(t) = FirstSet(s) /\ FirstSet(s) # Unset
  <2>1. PICK i \in 1..Len(s) : s[i] # Unset /\ \A j \in 1..i - 1 : s[j] = Unset
    BY <1>3, FirstExists
  <2>2. FirstSet(s) = s[i]
    BY <2>1, FirstAt
  <2>3. i \in 1..Len(t) /\ t[i] = s[i] /\ \A j \in 1..i - 1 : t[j] = s[j]
    BY <1>1
  <2>4. FirstSet(t) = t[i]
    BY <1>1, <2>1, <2>3, FirstAt
  <2> QED BY <2>1, <2>2, <2>3, <2>4
<1>4. CASE \A k \in 1..Len(s) : s[k] = Unset
  <2>1. FirstSet(s) = Unset
    BY <1>2, <1>4 DEF FirstSet
  <2>2. CASE x = Unset
    <3>1. \A j \in 1..Len(t) : t[j] = Unset
      <4> TAKE j \in 1..Len(t)
      <4>1. j = Len(s) + 1 \/ j \in 1..Len(s)
        BY <1>1
      <4> QED BY <1>1, <1>4, <2>2, <4>1
    <3> QED BY <1>2, <2>1, <2>2, <3>1 DEF FirstSet
  <2>3. CASE x # Unset
    <3>1. Len(s) + 1 \in 1..Len(t) /\ \A j \in 1..(Len(s) + 1) - 1 : t[j] = Unset
      BY <1>1, <1>4
    <3> QED BY <1>1, <2>1, <2>3, <3>1, FirstAt
  <2> QED BY <2>2, <2>3
<1> QED BY <1>3, <1>4

-----------------------------------------------------------------------------
(* The inductive invariant                                                 *)

\* What the program was started with: files of one kind, a single one unless
\* a directory is walked, and none for an endpoint of the command line.
InputInv ==
    /\ \E n \in Nat \ {0} : DOMAIN parts = 1..n
    /\ source # "config" => DOMAIN parts = {1}
    /\ source = "endpoint" => parts[1] = Part({}, {}, {})
    /\ \/ \A i \in DOMAIN parts : parts[i].kind = "toml"
       \/ \A i \in DOMAIN parts : parts[i].kind = "legacy"

\* Where main is, and what it has read.
StageInv ==
    /\ pc \in {"load", "global", "cmd", "log", "dns", "build", "run", "exit", "aborted"}
    /\ read \in Seq(DOMAIN parts)
    /\ source = "endpoint" => read = <<>>
    /\ pc = "load" /\ source # "config" => full = EmptyConf /\ read = <<>>
    /\ pc \in {"global", "cmd"} => source \in {"config", "endpoint"}
    /\ full = [shared |-> full.shared, network |-> full.network, endpoints |-> full.endpoints]

Ended == pc \in {"exit", "aborted"}

\* The shared options: merged from the files, then what was asked for.
SharedNow(f) ==
    IF pc \in {"load", "global", "cmd"} THEN FirstSet(Globals("shared", f)) ELSE Asked(f)

\* The options of an endpoint: its own, then with the global ones, then in all.
NetNow(k, f) ==
    IF pc \in {"load", "global"} THEN Own(k, f)
    ELSE IF pc = "cmd" THEN FirstSet(<<Own(k, f)>> \o Globals("network", f))
    ELSE AskedOf(k, f)

MergeInv ==
    ~Ended =>
        /\ full.shared = [f \in SharedFields |-> SharedNow(f)]
        /\ pc \in {"load", "global"} =>
               full.network = [f \in NetFields |-> FirstSet(Globals("network", f))]

EndpointInv ==
    ~Ended /\ parts[1].kind = "toml" /\ source # "env" =>
        /\ full.endpoints \in Seq([addrs : {<<>>}, network : [NetFields -> Values]])
        /\ DOMAIN full.endpoints = IF pc = "load" THEN DOMAIN read ELSE Slots
        /\ \A k \in DOMAIN full.endpoints : \A f \in Undisturbed :
               full.endpoints[k].network[f] = NetNow(k, f)
        /\ pc = "run" =>
               /\ DOMAIN built = Slots
               /\ \A k \in Slots : \A f \in Undisturbed :
                      built[k][f] = OrElse(AskedOf(k, f), Default)

\* The lazy resolver's configuration is in the cell, or in the resolver.
Lazy == <<[opts |-> BuildOpts(full.shared), conf |-> BuildServers(full.shared)]>>
DnsInv ==
    \/ pc \in {"build", "run"} /\ dns_conf = Lazy /\ resolver = <<>>
    \/ pc = "run" /\ dns_conf = <<>> /\ resolver = Lazy
    \/ pc \notin {"build", "run"} /\ resolver = <<>>

IInv == InputInv /\ StageInv /\ MergeInv /\ EndpointInv /\ DnsInv

-----------------------------------------------------------------------------
(* Facts about the operators                                               *)

\* What the files say is a sequence of options.
LEMMA GlobalsSeq ==
    ASSUME InputInv, read \in Seq(DOMAIN parts), NEW field, NEW f
    PROVE  Globals(field, f) \in Seq(Values) /\ DOMAIN Globals(field, f) = DOMAIN read
<1>1. PICK n \in Nat \ {0} : DOMAIN parts = 1..n
  BY DEF InputInv
<1>2. \A k \in 1..Len(read) : read[k] \in Nat
  BY <1>1
<1>3. \A k \in 1..Len(read) : <<"global", read[k]>> \in Values
  BY <1>2 DEF Values
<1>4. Unset \in Values
  BY DEF Values
<1>5. Len(read) \in Nat /\ DOMAIN read = 1..Len(read)
  OBVIOUS
<1> DEFINE g(k) == IF f \in parts[read[k]][field] THEN <<"global", read[k]>> ELSE Unset
<1>6. \A k \in 1..Len(read) : g(k) \in Values
  BY <1>3, <1>4
<1> HIDE DEF g
<1>7. [k \in 1..Len(read) |-> g(k)] \in Seq(Values)
  BY <1>5, <1>6, IsASeq
<1>8. Globals(field, f) = [k \in 1..Len(read) |-> g(k)]
  BY <1>5 DEF Globals, g
<1> QED BY <1>5, <1>7, <1>8

\* Flags and own options are options; what is set is not Unset.
LEMMA SourcesTyped ==
    ASSUME InputInv, read \in Seq(DOMAIN parts)
    PROVE  /\ \A f : Cmd(f) \in Values
           /\ source = "endpoint" => \A f : Own(1, f) = Unset
           /\ \A k \in Slots : \A f : Own(k, f) \in Values
           /\ Unset \in Values /\ Flag # Unset
<1>1. PICK n \in Nat \ {0} : DOMAIN parts = 1..n
  BY DEF InputInv
<1>2. \A f : Cmd(f) \in Values
  BY DEF Cmd, Values
<1>3. source = "endpoint" => \A f : Own(1, f) = Unset
  BY DEF InputInv, Own, File, Part
<1>4. \A k \in Slots : File(k) \in Nat
  BY <1>1 DEF Slots, File
<1>5. \A k \in Slots : \A f : Own(k, f) \in Values
  BY <1>4 DEF Own, Values
<1>6. Unset \in Values /\ Flag # Unset
  BY DEF Values, Unset, Flag
<1> QED BY <1>2, <1>3, <1>5, <1>6

\* What was asked for in all, one source after the other.
Unfolded ==
    /\ \A f : Asked(f) = IF Cmd(f) # Unset THEN Cmd(f) ELSE FirstSet(Globals("shared", f))
    /\ \A k \in Slots : \A f :
           AskedOf(k, f) =
               IF Cmd(FlagOf(f)) # Unset THEN Cmd(FlagOf(f))
               ELSE IF Own(k, f) # Unset THEN Own(k, f)
               ELSE FirstSet(Globals("network", f))

\* The first set option is found by going through the sources.
LEMMA AskedUnfolds == InputInv /\ StageInv => Unfolded
<1> SUFFICES ASSUME InputInv, StageInv PROVE Unfolded
  OBVIOUS
<1>0. read \in Seq(DOMAIN parts)
  BY DEF StageInv
<1>1. \A f : Asked(f) = IF Cmd(f) # Unset THEN Cmd(f) ELSE FirstSet(Globals("shared", f))
  BY <1>0, GlobalsSeq, SourcesTyped, FirstCons DEF Asked
<1>2. ASSUME NEW k \in Slots, NEW f
      PROVE  AskedOf(k, f) =
                 IF Cmd(FlagOf(f)) # Unset THEN Cmd(FlagOf(f))
                 ELSE IF Own(k, f) # Unset THEN Own(k, f)
                 ELSE FirstSet(Globals("network", f))
  <2> DEFINE c == Cmd(FlagOf(f))
             o == Own(k, f)
             g == Globals("network", f)
  <2>1. c \in Values /\ o \in Values /\ g \in Seq(Values)
    BY <1>0, GlobalsSeq, SourcesTyped
  <2>3. AskedOf(k, f) = FirstSet((<<c>> \o <<o>>) \o g)
    BY DEF AskedOf
  <2> HIDE DEF c, o, g
  <2>4. <<c>> \in Seq(Values) /\ <<o>> \in Seq(Values) /\ <<o>> \o g \in Seq(Values)
    BY <2>1
  <2>5. (<<c>> \o <<o>>) \o g = <<c>> \o (<<o>> \o g)
    BY <2>1, <2>4, ConcatAssociative
  <2>6. FirstSet((<<c>> \o <<o>>) \o g) =
            IF c # Unset THEN c ELSE IF o # Unset THEN o ELSE FirstSet(g)
    <3>1. FirstSet(<<o>> \o g) = IF o # Unset THEN o ELSE FirstSet(g)
      BY <2>1, FirstCons
    <3>2. FirstSet(<<c>> \o (<<o>> \o g)) = IF c # Unset THEN c ELSE FirstSet(<<o>> \o g)
      BY <2>1, <2>4, FirstCons
    <3> QED BY <2>5, <3>1, <3>2
  <2> QED BY <2>3, <2>6 DEF c, o, g
<1> QED BY <1>1, <1>2 DEF Unfolded

-----------------------------------------------------------------------------
(* The invariant holds initially and is kept by every action               *)

\* It holds when main starts.
LEMMA InitInv == Init => IInv
<1> SUFFICES ASSUME Init PROVE IInv
  OBVIOUS
<1>1. InputInv
  <2>1. ASSUME NEW S, parts \in Files(S) PROVE \E n \in Nat \ {0} : parts \in [1..n -> S]
    BY <2>1, PartsAssumption DEF Files
  <2>2. CASE parts \in Files({Part(n, e, {}) : n \in SUBSET NetFields, e \in SUBSET NetFields})
    <3>1. PICK n \in Nat \ {0} :
            parts \in [1..n -> {Part(m, e, {}) : m \in SUBSET NetFields, e \in SUBSET NetFields}]
      BY <2>1, <2>2
    <3>2. DOMAIN parts = 1..n /\ \A i \in DOMAIN parts : parts[i].kind = "toml"
      BY <3>1 DEF Part
    <3>3. source # "config" => DOMAIN parts = {1}
      BY <3>1 DEF Init
    <3> QED BY <3>2, <3>3 DEF Init, InputInv
  <2>3. CASE parts \in Files({Part({}, {}, s) : s \in SUBSET SharedFields})
    <3>1. PICK n \in Nat \ {0} : parts \in [1..n -> {Part({}, {}, s) : s \in SUBSET SharedFields}]
      BY <2>1, <2>3
    <3>2. DOMAIN parts = 1..n /\ \A i \in DOMAIN parts : parts[i].kind = "toml"
      BY <3>1 DEF Part
    <3>3. source # "config" => DOMAIN parts = {1}
      BY <3>1 DEF Init
    <3> QED BY <3>2, <3>3 DEF Init, InputInv
  <2>4. CASE /\ source \in {"env", "config", "convert"}
             /\ parts = <<[Part({}, {}, {}) EXCEPT !.kind = "legacy"]>>
    <3>1. DOMAIN parts = 1..1 /\ parts[1].kind = "legacy"
      BY <2>4 DEF Part
    <3> QED BY <2>4, <3>1 DEF InputInv
  <2> QED BY <2>2, <2>3, <2>4 DEF Init
<1>2. StageInv
  BY DEF Init, StageInv, EmptyConf
<1>3. \A field, f : Globals(field, f) = <<>> /\ FirstSet(<<>>) = Unset
  BY DEF Init, Globals, FirstSet
<1>4. MergeInv
  BY <1>3 DEF Init, MergeInv, SharedNow, EmptyConf, Given
<1>5. EndpointInv
  BY DEF Init, EndpointInv, EmptyConf
<1>6. DnsInv
  BY DEF Init, DnsInv
<1> QED BY <1>1, <1>2, <1>4, <1>5, <1>6 DEF IInv

\* Which options are undisturbed depends on the flags only.
LEMMA UndisturbedKept == ASSUME UNCHANGED flags PROVE Undisturbed' = Undisturbed
BY DEF Undisturbed

\* What was asked for depends on the input and on the files read only.
LEMMA AskedKept ==
    ASSUME UNCHANGED <<input, read>>
    PROVE  /\ \A field, f : Globals(field, f)' = Globals(field, f)
           /\ \A field, f : FirstSet(Globals(field, f))' = FirstSet(Globals(field, f))
           /\ \A f : Asked(f)' = Asked(f)
           /\ \A k, f : AskedOf(k, f)' = AskedOf(k, f) /\ Own(k, f)' = Own(k, f)
           /\ Slots' = Slots
<1> USE DEF input
<1>1. \A field, f : Globals(field, f)' = Globals(field, f)
  BY DEF Globals
<1>2. \A field, f : FirstSet(Globals(field, f))' = FirstSet(Globals(field, f))
  BY DEF Globals, FirstSet
<1>3. \A f : Cmd(f)' = Cmd(f)
  BY DEF Cmd
<1>4. \A f : Asked(f)' = Asked(f)
  BY DEF Asked, Globals, FirstSet, Cmd
<1>5. \A k, f : AskedOf(k, f)' = AskedOf(k, f)
  BY DEF AskedOf, Globals, FirstSet, Cmd, FlagOf, Own, File
<1> QED BY <1>1, <1>2, <1>4, <1>5 DEF Slots, Own, File

\* The input never changes.
LEMMA InputKept == ASSUME InputInv, UNCHANGED input PROVE InputInv'
BY DEF InputInv, input, Part

\* A step of main that only moves on.
LEMMA MoveOn ==
    ASSUME IInv, UNCHANGED <<input, full, read, built>>, DnsInv',
           \/ pc = "load" /\ pc' = "global" /\ source = "config"
           \/ pc = "log" /\ pc' = "dns"
           \/ pc = "dns" /\ pc' = "build"
           \/ pc' = pc
           \/ pc' \in {"exit", "aborted"}
    PROVE  IInv'
<1> USE DEF IInv
<1>1. InputInv'
  BY InputKept
<1>2. StageInv'
  BY DEF StageInv, input
<1>3. MergeInv'
  BY AskedKept DEF MergeInv, Ended, SharedNow
<1>4. EndpointInv'
  <2> SUFFICES ASSUME ~Ended', parts[1].kind = "toml", source # "env" PROVE EndpointInv'
    BY DEF EndpointInv, input
  <2>1. ~Ended /\ UNCHANGED <<full, built>> /\ Slots' = Slots /\ read' = read
    BY AskedKept DEF Ended, StageInv
  <2>2. DOMAIN full.endpoints = IF pc' = "load" THEN DOMAIN read ELSE Slots
    BY <2>1 DEF EndpointInv, Slots, Ended
  <2>3. \A k \in DOMAIN full.endpoints : \A f \in Undisturbed : NetNow(k, f)' = NetNow(k, f)
    BY <2>1, AskedKept DEF NetNow, Ended
  <2>4. pc' = "run" => pc = "run"
    BY <2>1 DEF Ended
  <2> QED BY <2>1, <2>2, <2>3, <2>4, AskedKept, UndisturbedKept DEF EndpointInv, input
<1> QED BY <1>1, <1>2, <1>3, <1>4

\* The environment's configuration is used as it is.
LEMMA LoadEnvInv == ASSUME IInv, LoadEnv PROVE IInv'
<1> USE DEF IInv
<1>1. /\ pc = "load" /\ source = "env" /\ pc' = "log" /\ read' = <<1>>
      /\ full' = FromConfStr(1) /\ UNCHANGED <<input, dns_conf, resolver>>
  BY DEF LoadEnv
<1>2. InputInv' /\ UNCHANGED <<source, parts, flags>>
  BY <1>1, InputKept DEF input
<1>3. read' \in Seq(DOMAIN parts) /\ read' \in Seq(DOMAIN parts)'
  BY <1>1, <1>2 DEF InputInv
<1>4. StageInv'
  BY <1>1, <1>2, <1>3 DEF StageInv, FromConfStr
<1>5. \A field, f : FirstSet(Globals(field, f))' = IF f \in parts[1][field]
                                                  THEN <<"global", 1>> ELSE Unset
  <2> TAKE field, f
  <2>1. Globals(field, f)' = <<IF f \in parts[1][field] THEN <<"global", 1>> ELSE Unset>>
    BY <1>1, <1>2 DEF Globals
  <2> QED BY <2>1 DEF FirstSet
<1>6. \A f : Cmd(f)' = Unset
  BY <1>1, <1>2 DEF Cmd
<1>7. Unfolded'
  BY <1>2, <1>4, AskedUnfolds, PTL
<1>8. \A f : Asked(f)' = IF f \in parts[1].shared THEN <<"global", 1>> ELSE Unset
  BY <1>1, <1>2, <1>5, <1>6, <1>7 DEF Unfolded
<1>9. MergeInv'
  BY <1>1, <1>8 DEF MergeInv, Ended, SharedNow, FromConfStr, Given
<1>10. EndpointInv'
  BY <1>1, <1>2 DEF EndpointInv
<1>11. DnsInv'
  BY <1>1 DEF DnsInv
<1> QED BY <1>2, <1>4, <1>9, <1>10, <1>11

\* An endpoint of the command line has no options of its own.
LEMMA LoadCmdEndpointInv == ASSUME IInv, LoadCmdEndpoint PROVE IInv'
<1> USE DEF IInv
<1>1. /\ pc = "load" /\ source = "endpoint" /\ pc' = "global"
      /\ full' = [EmptyConf EXCEPT !.endpoints = Append(@, CmdEndpoint)]
      /\ UNCHANGED <<input, read, dns_conf, resolver>>
  BY DEF LoadCmdEndpoint
<1>2. InputInv' /\ UNCHANGED <<source, parts, flags>>
  BY <1>1, InputKept DEF input
<1>3. full = EmptyConf /\ read = <<>>
  BY <1>1 DEF StageInv
<1>4. full' = [shared |-> EmptyConf.shared, network |-> EmptyConf.network,
               endpoints |-> <<CmdEndpoint>>]
  BY <1>1 DEF EmptyConf
<1>5. StageInv'
  BY <1>1, <1>2, <1>4 DEF StageInv
<1>6. MergeInv'
  BY <1>1, <1>3, <1>4, AskedKept DEF MergeInv, Ended, SharedNow
<1>7. EndpointInv'
  <2>1. /\ full'.endpoints = <<[addrs |-> <<>>, network |-> EmptyConf.network]>>
        /\ EmptyConf.network = [f \in NetFields |-> Unset]
    BY <1>4 DEF CmdEndpoint, EmptyConf, Given
  <2>2. /\ full'.endpoints \in Seq([addrs : {<<>>}, network : [NetFields -> Values]])
        /\ DOMAIN full'.endpoints = {1}
        /\ full'.endpoints[1].network = [f \in NetFields |-> Unset]
    BY <2>1 DEF Values
  <2>3. Slots' = {1} /\ \A f : Own(1, f)' = Unset
    BY <1>1, <1>2, AskedKept, SourcesTyped DEF Slots, StageInv
  <2> QED BY <1>1, <2>2, <2>3 DEF EndpointInv, NetNow, Undisturbed
<1>8. DnsInv'
  BY <1>1 DEF DnsInv
<1> QED BY <1>2, <1>5, <1>6, <1>7, <1>8

\* One more file fills in what no file before it has set, and its endpoints
\* come behind theirs.
LEMMA LoadFileInv == ASSUME IInv, LoadFile PROVE IInv'
<1> USE DEF IInv
<1>1. PICK i \in Unread : /\ full' = TakeFields(full, FromConfStr(i))
                          /\ read' = Append(read, i)
  BY DEF LoadFile
<1>2. /\ pc = "load" /\ source = "config" /\ pc' = "load"
      /\ UNCHANGED <<input, dns_conf, resolver>>
  BY DEF LoadFile
<1>3. InputInv' /\ UNCHANGED <<source, parts, flags>>
  BY <1>2, InputKept DEF input
<1>4. /\ i \in DOMAIN parts /\ i \in Nat /\ read \in Seq(DOMAIN parts)
      /\ read' \in Seq(DOMAIN parts) /\ Len(read') = Len(read) + 1 /\ Len(read) \in Nat
      /\ read'[Len(read) + 1] = i /\ \A k \in 1..Len(read) : read'[k] = read[k]
  <2>1. i \in DOMAIN parts /\ i \in Nat /\ read \in Seq(DOMAIN parts)
    BY DEF Unread, InputInv, StageInv
  <2> QED BY <1>1, <2>1, AppendProperties
<1>5. StageInv'
  BY <1>1, <1>2, <1>3, <1>4 DEF StageInv, TakeFields
<1> DEFINE new(field, f) == IF f \in parts[i][field] THEN <<"global", i>> ELSE Unset
<1>6. \A field, f : FirstSet(Globals(field, f))' =
          IF FirstSet(Globals(field, f)) = Unset THEN new(field, f)
          ELSE FirstSet(Globals(field, f))
  <2> TAKE field, f
  <2>1. new(field, f) \in Values
    BY <1>4 DEF Values
  <2>2. Globals(field, f) \in Seq(Values) /\ DOMAIN Globals(field, f) = DOMAIN read
    BY <1>4, GlobalsSeq
  <2>3. Globals(field, f)' = [k \in 1..Len(read) + 1 |->
            IF f \in parts[read'[k]][field] THEN <<"global", read'[k]>> ELSE Unset]
    BY <1>3, <1>4 DEF Globals
  <2>4. Globals(field, f)' = Append(Globals(field, f), new(field, f))
    <3> DEFINE g == Globals(field, f)
               h == [k \in 1..Len(read) + 1 |->
                        IF f \in parts[read'[k]][field] THEN <<"global", read'[k]>> ELSE Unset]
    <3>1. Len(g) = Len(read) /\ \A k \in 1..Len(read) :
            g[k] = IF f \in parts[read[k]][field] THEN <<"global", read[k]>> ELSE Unset
      <4>1. DOMAIN read = 1..Len(read) /\ Len(read) \in Nat
        BY <1>4
      <4>2. \A k \in 1..Len(read) :
              g[k] = IF f \in parts[read[k]][field] THEN <<"global", read[k]>> ELSE Unset
        BY <4>1 DEF Globals
      <4>3. g \in Seq(Values) /\ DOMAIN g = 1..Len(read)
        BY <2>2, <4>1
      <4> HIDE DEF g
      <4>4. Len(g) = Len(read)
        BY <4>1, <4>3
      <4> QED BY <4>2, <4>4
    <3>2. \A k \in 1..Len(read) : h[k] = g[k]
      BY <1>4, <3>1
    <3>3. h[Len(read) + 1] = new(field, f)
      BY <1>4
    <3>4. h = [k \in 1..Len(read) + 1 |-> h[k]]
      OBVIOUS
    <3> HIDE DEF g, h, new
    <3>5. h = Append(g, new(field, f))
      <4> DEFINE t == Append(g, new(field, f))
      <4>1. /\ t \in Seq(Values) /\ Len(t) = Len(read) + 1
            /\ t[Len(read) + 1] = new(field, f) /\ \A k \in 1..Len(read) : t[k] = g[k]
        BY <2>1, <2>2, <3>1, AppendProperties DEF g
      <4>2. \A k \in 1..Len(read) + 1 : k \in 1..Len(read) \/ k = Len(read) + 1
        BY <1>4
      <4> HIDE DEF t
      <4>3. \A k \in 1..Len(read) + 1 : h[k] = t[k]
        BY <3>2, <3>3, <4>1, <4>2
      <4>4. t = [k \in 1..Len(read) + 1 |-> t[k]]
        BY <4>1
      <4>5. h = t
        BY <3>4, <4>3, <4>4
      <4> QED BY <4>5 DEF t
    <3> QED BY <2>3, <3>5 DEF g, h
  <2>5. FirstSet(Globals(field, f))' = FirstSet(Globals(field, f)')
    BY DEF FirstSet
  <2> HIDE DEF new
  <2> QED BY <2>1, <2>2, <2>4, <2>5, FirstSnoc
<1>7. MergeInv'
  <2> HIDE DEF new
  <2>1. /\ full.shared = [f \in SharedFields |-> FirstSet(Globals("shared", f))]
        /\ full.network = [f \in NetFields |-> FirstSet(Globals("network", f))]
    BY <1>2 DEF MergeInv, Ended, SharedNow
  <2>2. /\ FromConfStr(i).shared = [f \in SharedFields |-> new("shared", f)]
        /\ FromConfStr(i).network = [f \in NetFields |-> new("network", f)]
    BY DEF FromConfStr, Given, new
  <2>3. /\ full'.shared = Take(full.shared, FromConfStr(i).shared)
        /\ full'.network = Take(full.network, FromConfStr(i).network)
    BY <1>1 DEF TakeFields
  <2>4. full'.shared = [f \in SharedFields |-> FirstSet(Globals("shared", f))']
    BY <1>6, <2>1, <2>2, <2>3 DEF Take
  <2>5. full'.network = [f \in NetFields |-> FirstSet(Globals("network", f))']
    BY <1>6, <2>1, <2>2, <2>3 DEF Take
  <2> QED BY <1>2, <2>4, <2>5 DEF MergeInv, Ended, SharedNow
<1>8. EndpointInv'
  <2> SUFFICES ASSUME parts[1].kind = "toml" PROVE EndpointInv'
    BY <1>3 DEF EndpointInv
  <2> DEFINE E == [addrs : {<<>>}, network : [NetFields -> Values]]
             net == Given(NetFields, parts[i].endpoint, <<"endpoint", i>>)
             e == [addrs |-> <<>>, network |-> net]
  <2>1. parts[i].kind = "toml"
    <3>1. 1 \in DOMAIN parts
      BY DEF InputInv
    <3> QED BY <1>4, <3>1 DEF InputInv
  <2>2. full'.endpoints = full.endpoints \o <<e>>
    BY <1>1, <2>1 DEF TakeFields, FromConfStr
  <2>3. net \in [NetFields -> Values]
    BY <1>4 DEF Given, Values
  <2>4. e \in E /\ e.network = net
    BY <2>3
  <2>5. full.endpoints \in Seq(E) /\ DOMAIN full.endpoints = DOMAIN read
    BY <1>2 DEF EndpointInv, Ended
  <2> HIDE DEF e, E
  <2>6. full'.endpoints = Append(full.endpoints, e)
    BY <2>2, <2>4, <2>5, AppendIsConcat
  <2>7. Len(full.endpoints) = Len(read)
    BY <1>4, <2>5
  <2>8. /\ full'.endpoints \in Seq(E) /\ Len(full'.endpoints) = Len(read) + 1
        /\ full'.endpoints[Len(read) + 1] = e
        /\ \A k \in 1..Len(read) : full'.endpoints[k] = full.endpoints[k]
    BY <2>4, <2>5, <2>6, <2>7, AppendProperties
  <2>9. PICK n \in Nat : n = Len(read)
    BY <1>4
  <2>a. /\ \A k \in 1..n : \A f : Own(k, f)' = Own(k, f)
        /\ \A f \in NetFields : Own(n + 1, f)' = net[f]
    <3>1. source' = "config" /\ source = "config"
      BY <1>2, <1>3
    <3>2. \A k \in 1..n : read'[k] = read[k]
      BY <1>4, <2>9
    <3>3. read'[n + 1] = i
      BY <1>4, <2>9
    <3>4. \A k \in 1..n : File(k)' = File(k)
      BY <3>1, <3>2 DEF File
    <3>5. File(n + 1)' = i
      BY <3>1, <3>3 DEF File
    <3> QED BY <1>3, <3>4, <3>5 DEF Own, Given
  <2>10. DOMAIN full'.endpoints = DOMAIN read' /\ DOMAIN full'.endpoints = 1..Len(read) + 1
    BY <1>4, <2>8
  <2>11. ASSUME NEW k \in 1..Len(read) + 1, NEW f \in Undisturbed
         PROVE  full'.endpoints[k].network[f] = Own(k, f)'
    <3>1. CASE k \in 1..n
      <4>1. k \in DOMAIN full.endpoints
        BY <1>4, <2>5, <2>9, <3>1
      <4>2. full.endpoints[k].network[f] = Own(k, f)
        BY <1>2, <4>1 DEF EndpointInv, Ended, NetNow
      <4>3. full'.endpoints[k] = full.endpoints[k]
        BY <2>8, <2>9, <3>1
      <4>4. Own(k, f)' = Own(k, f)
        BY <2>a, <3>1
      <4> QED BY <4>2, <4>3, <4>4
    <3>2. CASE k = n + 1
      <4>1. full'.endpoints[k].network = net
        BY <2>4, <2>8, <2>9, <3>2
      <4>2. f \in NetFields
        BY DEF Undisturbed
      <4>3. Own(k, f)' = net[f]
        BY <2>a, <3>2, <4>2
      <4> QED BY <4>1, <4>3
    <3> QED BY <1>4, <2>9, <3>1, <3>2
  <2> QED BY <1>2, <1>3, <2>8, <2>10, <2>11, UndisturbedKept DEF EndpointInv, NetNow, E
<1>9. DnsInv'
  BY <1>2 DEF DnsInv
<1> QED BY <1>3, <1>5, <1>7, <1>8, <1>9

\* The walk ends, or main sets up the log.
LEMMA FilesReadInv == ASSUME IInv, FilesRead \/ SetupLog PROVE IInv'
<1>1. DnsInv'
  BY DEF FilesRead, SetupLog, IInv, DnsInv
<1> QED BY <1>1, MoveOn DEF FilesRead, SetupLog

\* The program ends or panics.
LEMMA EndInv == ASSUME IInv, ExitNone \/ Panic PROVE IInv'
<1>1. DnsInv'
  BY DEF ExitNone, Panic, IInv, DnsInv
<1>2. pc' \in {"exit", "aborted"} /\ UNCHANGED <<input, full, read, built>>
  BY DEF ExitNone, Panic
<1> QED BY <1>1, <1>2, MoveOn

\* A conversion ends the program.
LEMMA ConvertInv == ASSUME IInv, Convert PROVE IInv'
<1> USE DEF IInv
<1>1. /\ pc' = "exit" /\ UNCHANGED <<input, read, resolver>> /\ full' = FromConfStr(1)
      /\ pc = "load" /\ source = "convert"
  BY DEF Convert
<1>2. InputInv' /\ UNCHANGED <<source, parts>>
  BY <1>1, InputKept DEF input
<1>3. StageInv'
  BY <1>1, <1>2 DEF StageInv, FromConfStr
<1>4. MergeInv' /\ EndpointInv'
  BY <1>1 DEF MergeInv, EndpointInv, Ended
<1>5. DnsInv'
  BY <1>1 DEF DnsInv
<1> QED BY <1>2, <1>3, <1>4, <1>5

\* The lazy resolver's configuration depends on the shared options only.
LEMMA LazyKept == ASSUME UNCHANGED <<input, full>> PROVE Lazy' = Lazy
BY DEF Lazy, BuildOpts, BuildServers, UsesSystem, OrElse, input

\* The resolver is set up, or the first lookup makes it.
LEMMA DnsStepInv == ASSUME IInv, SetupDns \/ FirstLookup PROVE IInv'
<1>1. UNCHANGED <<input, full, read, built>>
  BY DEF SetupDns, FirstLookup
<1>2. Lazy' = Lazy
  BY <1>1, LazyKept
<1>3. CASE SetupDns
  <2>1. /\ pc = "dns" /\ pc' = "build" /\ dns_conf' = Lazy /\ resolver' = resolver
    BY <1>3 DEF SetupDns, Lazy
  <2>2. DnsInv'
    BY <1>2, <2>1 DEF IInv, DnsInv
  <2> QED BY <1>1, <2>1, <2>2, MoveOn
<1>4. CASE FirstLookup
  <2>1. pc = "run" /\ pc' = pc /\ resolver' = dns_conf /\ dns_conf' = <<>> /\ dns_conf # <<>>
    BY <1>4 DEF FirstLookup
  <2>2. DnsInv'
    BY <1>2, <2>1 DEF IInv, DnsInv
  <2> QED BY <1>1, <2>1, <2>2, MoveOn
<1> QED BY <1>3, <1>4

\* Each endpoint takes the global options it has not set itself.
LEMMA ApplyGlobalOptsInv == ASSUME IInv, ApplyGlobalOpts PROVE IInv'
<1> USE DEF IInv
<1>1. /\ pc = "global" /\ pc' = "cmd" /\ UNCHANGED <<input, read, dns_conf, resolver>>
      /\ full' = [full EXCEPT !.endpoints = [i \in DOMAIN @ |-> TakeNet(@[i], full.network)]]
  BY DEF ApplyGlobalOpts
<1>2. InputInv' /\ UNCHANGED <<source, parts, flags>>
  BY <1>1, InputKept DEF input
<1>3. full = [shared |-> full.shared, network |-> full.network, endpoints |-> full.endpoints]
  BY DEF StageInv
<1>4. full' = [shared |-> full.shared, network |-> full.network,
              endpoints |-> [i \in DOMAIN full.endpoints |->
                                TakeNet(full.endpoints[i], full.network)]]
  BY <1>1, <1>3
<1>5. StageInv'
  BY <1>1, <1>2, <1>4 DEF StageInv
<1>6. MergeInv'
  BY <1>1, <1>4, AskedKept DEF MergeInv, Ended, SharedNow
<1>7. EndpointInv'
  <2> SUFFICES ASSUME parts[1].kind = "toml", source # "env" PROVE EndpointInv'
    BY <1>2 DEF EndpointInv
  <2>1. /\ full.endpoints \in Seq([addrs : {<<>>}, network : [NetFields -> Values]])
        /\ DOMAIN full.endpoints = Slots
        /\ \A k \in Slots : \A f \in Undisturbed : full.endpoints[k].network[f] = Own(k, f)
        /\ full.network = [f \in NetFields |-> FirstSet(Globals("network", f))]
    BY <1>1 DEF EndpointInv, MergeInv, Ended, NetNow
  <2>2. PICK n \in Nat : Slots = 1..n
    BY <2>1
  <2>3. \A f : Globals("network", f) \in Seq(Values)
    BY GlobalsSeq DEF StageInv
  <2>4. \A f \in NetFields : full.network[f] \in Values
    BY <2>1, <2>3, FirstType
  <2>5. \A k \in Slots : full.endpoints[k] \in [addrs : {<<>>}, network : [NetFields -> Values]]
    <3> DEFINE E == [addrs : {<<>>}, network : [NetFields -> Values]]
    <3> SUFFICES \A k \in Slots : full.endpoints[k] \in E
      OBVIOUS
    <3>1. full.endpoints \in Seq(E)
      BY <2>1
    <3> HIDE DEF E
    <3> QED BY <2>1, <3>1, ElementOfSeq
  <2> DEFINE m(k) == TakeNet(full.endpoints[k], full.network)
  <2>6. ASSUME NEW k \in Slots
        PROVE  /\ m(k) \in [addrs : {<<>>}, network : [NetFields -> Values]]
               /\ m(k).network = [f \in NetFields |->
                      IF full.endpoints[k].network[f] = Unset /\ full.network[f] # Unset
                      THEN full.network[f] ELSE full.endpoints[k].network[f]]
    <3>1. DOMAIN full.endpoints[k].network = NetFields
      BY <2>5
    <3>2. m(k).network = [f \in NetFields |->
                      IF full.endpoints[k].network[f] = Unset /\ full.network[f] # Unset
                      THEN full.network[f] ELSE full.endpoints[k].network[f]]
      BY <2>5, <3>1 DEF TakeNet, Take
    <3>3. m(k).network \in [NetFields -> Values]
      BY <2>4, <2>5, <3>2
    <3> QED BY <2>5, <3>2, <3>3 DEF TakeNet
  <2>7. full'.endpoints = [k \in 1..n |-> m(k)]
    BY <1>4, <2>1, <2>2
  <2> HIDE DEF m
  <2>8. full'.endpoints \in Seq([addrs : {<<>>}, network : [NetFields -> Values]])
    <3> DEFINE E == [addrs : {<<>>}, network : [NetFields -> Values]]
    <3> SUFFICES full'.endpoints \in Seq(E)
      OBVIOUS
    <3>1. \A k \in 1..n : m(k) \in E
      BY <2>2, <2>6
    <3> HIDE DEF E
    <3> QED BY <2>7, <3>1, IsASeq
  <2>9. DOMAIN full'.endpoints = Slots /\ Slots' = Slots
    BY <1>1, <2>2, <2>7, AskedKept
  <2>a. ASSUME NEW k \in Slots, NEW f \in Undisturbed
        PROVE  full'.endpoints[k].network[f] = NetNow(k, f)'
    <3>1. FirstSet(<<Own(k, f)>> \o Globals("network", f)) =
            IF Own(k, f) # Unset THEN Own(k, f) ELSE FirstSet(Globals("network", f))
      BY <2>3, FirstCons, SourcesTyped DEF StageInv
    <3>2. f \in NetFields
      BY DEF Undisturbed
    <3>3. full'.endpoints[k] = m(k)
      BY <2>2, <2>7
    <3>4. full'.endpoints[k].network[f] = FirstSet(<<Own(k, f)>> \o Globals("network", f))
      <4>1. full.endpoints[k].network[f] = Own(k, f)
        BY <2>1
      <4>2. full.network[f] = FirstSet(Globals("network", f))
        BY <2>1, <3>2
      <4>3. m(k).network[f] =
                IF full.endpoints[k].network[f] = Unset /\ full.network[f] # Unset
                THEN full.network[f] ELSE full.endpoints[k].network[f]
        BY <2>6, <3>2
      <4> QED BY <3>1, <3>3, <4>1, <4>2, <4>3
    <3>5. /\ Own(k, f)' = Own(k, f) /\ Globals("network", f)' = Globals("network", f)
      BY <1>1, AskedKept
    <3>6. NetNow(k, f)' = FirstSet(<<Own(k, f)>> \o Globals("network", f))'
      BY <1>1 DEF NetNow
    <3>7. FirstSet(<<Own(k, f)>> \o Globals("network", f))'
              = FirstSet(<<Own(k, f)'>> \o Globals("network", f)')
      BY DEF FirstSet
    <3> QED BY <3>4, <3>5, <3>6, <3>7
  <2> QED BY <1>1, <1>2, <2>8, <2>9, <2>a, UndisturbedKept DEF EndpointInv
<1>8. DnsInv'
  BY <1>1 DEF DnsInv
<1> QED BY <1>2, <1>5, <1>6, <1>7, <1>8

\* The command line overrides every option it sets.
LEMMA ApplyCmdOptsInv == ASSUME IInv, ApplyCmdOpts PROVE IInv'
<1> USE DEF IInv
<1>1. /\ pc = "cmd" /\ pc' = "log" /\ UNCHANGED <<input, read, dns_conf, resolver>>
      /\ full' = [full EXCEPT
             !.shared = Override(@, SharedFromCmdArgs),
             !.endpoints = [i \in DOMAIN @ |-> RstNet(@[i], NetFromCmdArgs)]]
  BY DEF ApplyCmdOpts
<1>2. InputInv' /\ UNCHANGED <<source, parts, flags>>
  BY <1>1, InputKept DEF input
<1>3. full = [shared |-> full.shared, network |-> full.network, endpoints |-> full.endpoints]
  BY DEF StageInv
<1>4. full' = [shared |-> Override(full.shared, SharedFromCmdArgs), network |-> full.network,
              endpoints |-> [i \in DOMAIN full.endpoints |->
                                RstNet(full.endpoints[i], NetFromCmdArgs)]]
  BY <1>1, <1>3
<1>5. StageInv'
  BY <1>1, <1>2, <1>4 DEF StageInv
<1>6. Unfolded
  BY AskedUnfolds
<1>7. \A f : Cmd(f) = IF f \in flags THEN Flag ELSE Unset
  BY <1>1 DEF Cmd, StageInv
<1>8. MergeInv'
  <2>1. full.shared = [f \in SharedFields |-> FirstSet(Globals("shared", f))]
    BY <1>1 DEF MergeInv, Ended, SharedNow
  <2>2. full'.shared = [f \in SharedFields |-> Asked(f)]
    BY <1>4, <1>6, <1>7, <2>1 DEF Override, Rst, SharedFromCmdArgs, Given, Unfolded
  <2>3. \A f : SharedNow(f)' = Asked(f)
    BY <1>1, AskedKept DEF SharedNow
  <2> QED BY <1>1, <2>2, <2>3 DEF MergeInv
<1>9. EndpointInv'
  <2> SUFFICES ASSUME parts[1].kind = "toml", source # "env" PROVE EndpointInv'
    BY <1>2 DEF EndpointInv
  <2> DEFINE E == [addrs : {<<>>}, network : [NetFields -> Values]]
             cmd == NetFromCmdArgs
             m(k) == RstNet(full.endpoints[k], cmd)
  <2>1. /\ full.endpoints \in Seq(E)
        /\ DOMAIN full.endpoints = Slots
        /\ \A k \in Slots : \A f \in Undisturbed :
               full.endpoints[k].network[f] = FirstSet(<<Own(k, f)>> \o Globals("network", f))
    BY <1>1 DEF EndpointInv, Ended, NetNow
  <2>2. PICK n \in Nat : Slots = 1..n
    BY <2>1
  <2>3. \A f : Globals("network", f) \in Seq(Values)
    BY GlobalsSeq DEF StageInv
  <2>4. cmd \in [NetFields -> Values]
    BY DEF NetFromCmdArgs, Values
  <2>5. \A f \in Undisturbed : f \in NetFields /\ cmd[f] = Cmd(FlagOf(f))
    <3> SUFFICES ASSUME NEW f \in Undisturbed PROVE f \in NetFields /\ cmd[f] = Cmd(FlagOf(f))
      OBVIOUS
    <3>1. f \in NetFields
      BY DEF Undisturbed
    <3>2. cmd[f] = Cmd(IF f = "send_mptcp" THEN "use_mptcp" ELSE "tcp_keepalive")
      BY <1>7, <3>1 DEF NetFromCmdArgs
    <3>3. CASE f = "tcp_keepalive_probe"
      <4>1. "tcp_keepalive" \notin flags /\ "tcp_keepalive_probe" \notin flags
        BY <3>3 DEF Undisturbed, KeepaliveFlags
      <4> QED BY <1>7, <3>1, <3>2, <3>3, <4>1 DEF FlagOf
    <3>4. CASE f # "tcp_keepalive_probe"
      BY <3>1, <3>2, <3>4 DEF FlagOf, NetFields
    <3> QED BY <3>1, <3>3, <3>4
  <2> HIDE DEF cmd
  <2>6. \A k \in Slots : full.endpoints[k] \in E
    <3> HIDE DEF E
    <3> QED BY <2>1, ElementOfSeq
  <2>7. ASSUME NEW k \in Slots
        PROVE  /\ m(k) \in E
               /\ m(k).network = [f \in NetFields |->
                      IF cmd[f] # Unset THEN cmd[f] ELSE full.endpoints[k].network[f]]
    <3>1. DOMAIN full.endpoints[k].network = NetFields
      BY <2>6
    <3>2. m(k).network = [f \in NetFields |->
                      IF cmd[f] # Unset THEN cmd[f] ELSE full.endpoints[k].network[f]]
      BY <2>6, <3>1 DEF RstNet, Override, Rst
    <3>3. m(k).network \in [NetFields -> Values]
      BY <2>4, <2>6, <3>2
    <3> QED BY <2>6, <3>2, <3>3 DEF RstNet
  <2>8. full'.endpoints = [k \in 1..n |-> m(k)]
    BY <1>4, <2>1, <2>2 DEF cmd
  <2> HIDE DEF m
  <2>9. full'.endpoints \in Seq(E)
    <3> HIDE DEF E
    <3>1. \A k \in 1..n : m(k) \in E
      BY <2>2, <2>7
    <3> QED BY <2>8, <3>1, IsASeq
  <2>a. DOMAIN full'.endpoints = Slots /\ Slots' = Slots
    BY <1>1, <2>2, <2>8, AskedKept
  <2>b. ASSUME NEW k \in Slots, NEW f \in Undisturbed
        PROVE  full'.endpoints[k].network[f] = NetNow(k, f)'
    <3>1. full'.endpoints[k] = m(k)
      BY <2>2, <2>8
    <3>2. m(k).network[f] = IF cmd[f] # Unset THEN cmd[f] ELSE full.endpoints[k].network[f]
      BY <2>5, <2>7
    <3>3. FirstSet(<<Own(k, f)>> \o Globals("network", f)) =
            IF Own(k, f) # Unset THEN Own(k, f) ELSE FirstSet(Globals("network", f))
      BY <2>3, FirstCons, SourcesTyped DEF StageInv
    <3>4. source # "env"
      BY <1>1 DEF StageInv
    <3>5. AskedOf(k, f) = IF Cmd(FlagOf(f)) # Unset THEN Cmd(FlagOf(f))
                          ELSE IF Own(k, f) # Unset THEN Own(k, f)
                          ELSE FirstSet(Globals("network", f))
      BY <1>6, <3>4 DEF Unfolded
    <3>6. NetNow(k, f)' = AskedOf(k, f)
      BY <1>1, AskedKept DEF NetNow
    <3>7. full.endpoints[k].network[f] = FirstSet(<<Own(k, f)>> \o Globals("network", f))
      BY <2>1
    <3>8. cmd[f] = Cmd(FlagOf(f))
      BY <2>5
    <3> QED BY <3>1, <3>2, <3>3, <3>5, <3>6, <3>7, <3>8
  <2> QED BY <1>1, <1>2, <2>9, <2>a, <2>b, UndisturbedKept DEF EndpointInv
<1>a. DnsInv'
  BY <1>1 DEF DnsInv
<1> QED BY <1>2, <1>5, <1>8, <1>9, <1>a

\* The endpoints are built with what they have, or a default.
LEMMA BuildInv == ASSUME IInv, Build PROVE IInv'
<1> USE DEF IInv
<1>1. /\ pc = "build" /\ pc' = "run" /\ UNCHANGED <<input, full, read, dns_conf, resolver>>
      /\ built' = [i \in DOMAIN full.endpoints |-> BuildNet(full.endpoints[i].network)]
  BY DEF Build
<1>2. InputInv' /\ UNCHANGED <<source, parts, flags>>
  BY <1>1, InputKept DEF input
<1>3. StageInv'
  BY <1>1, <1>2 DEF StageInv
<1>4. MergeInv'
  BY <1>1, AskedKept DEF MergeInv, Ended, SharedNow
<1>5. EndpointInv'
  <2> SUFFICES ASSUME parts[1].kind = "toml", source # "env" PROVE EndpointInv'
    BY <1>2 DEF EndpointInv
  <2>1. /\ full.endpoints \in Seq([addrs : {<<>>}, network : [NetFields -> Values]])
        /\ DOMAIN full.endpoints = Slots
        /\ \A k \in Slots : \A f \in Undisturbed : full.endpoints[k].network[f] = AskedOf(k, f)
    BY <1>1 DEF EndpointInv, Ended, NetNow
  <2>2. DOMAIN built' = Slots /\ Slots' = Slots
    BY <1>1, <2>1, AskedKept
  <2>3. ASSUME NEW k \in Slots, NEW f \in Undisturbed
        PROVE  /\ AskedOf(k, f)' = AskedOf(k, f)
               /\ built'[k][f] = OrElse(AskedOf(k, f), Default)
    <3>1. AskedOf(k, f)' = AskedOf(k, f)
      BY <1>1, AskedKept
    <3>2. built'[k] = BuildNet(full.endpoints[k].network)
      BY <1>1, <2>1
    <3>3. f \in NetFields
      BY DEF Undisturbed
    <3> QED BY <2>1, <3>1, <3>2, <3>3 DEF BuildNet
  <2>4. \A k \in Slots : \A f \in Undisturbed :
            built'[k][f] = OrElse(AskedOf(k, f), Default)'
    BY <2>3 DEF OrElse
  <2> QED BY <1>1, <1>2, <2>1, <2>2, <2>3, <2>4, UndisturbedKept DEF EndpointInv, NetNow
<1>6. DnsInv'
  BY <1>1, LazyKept DEF DnsInv
<1> QED BY <1>2, <1>3, <1>4, <1>5, <1>6

\* Nothing changes.
LEMMA StutterInv == ASSUME IInv, UNCHANGED vars PROVE IInv'
<1>1. UNCHANGED <<input, full, read, built, dns_conf, resolver, pc>>
  BY DEF vars
<1>2. DnsInv'
  BY <1>1, LazyKept DEF IInv, DnsInv
<1> QED BY <1>1, <1>2, MoveOn

\* The invariant holds in every state.
LEMMA Invariant == Spec => []IInv
<1>1. Init => IInv
  BY InitInv
<1>2. IInv /\ [Next]_vars => IInv'
  <2> SUFFICES ASSUME IInv, [Next]_vars PROVE IInv'
    OBVIOUS
  <2> QED BY LoadEnvInv, LoadCmdEndpointInv, LoadFileInv, FilesReadInv, EndInv, ConvertInv,
             DnsStepInv, ApplyGlobalOptsInv, ApplyCmdOptsInv, BuildInv, StutterInv DEF Next
<1> QED BY <1>1, <1>2, PTL DEF Spec

-----------------------------------------------------------------------------
(* The ports of a legacy file                                              *)

\* Ranges from first to last, below the largest port.
Good(rs) ==
    /\ rs \in Seq(Nat \X Nat)
    /\ \A i \in 1..Len(rs) : rs[i][1] <= rs[i][2] /\ rs[i][2] < PortMax

\* A range by itself.
LEMMA ExpandIs ==
    ASSUME NEW r \in Nat \X Nat, r[1] <= r[2], r[2] < PortMax
    PROVE  /\ Size(r) \in Nat /\ Size(r) > 0
           /\ Expand(r) \in Seq(Nat) /\ Len(Expand(r)) = Size(r)
           /\ \A m \in 1..Size(r) : Expand(r)[m] = r[1] + m - 1
<1>1. r[1] \in Nat /\ r[2] \in Nat /\ PortMax \in Nat
  BY PortAssumption
<1>2. \A a, b \in Nat : a < b => a % b = a
  OBVIOUS
<1>3. Past(r[2]) = r[2] + 1
  <2>1. r[2] + 1 \in Nat /\ PortMax + 1 \in Nat /\ r[2] + 1 < PortMax + 1
    BY <1>1
  <2> QED BY <1>2, <2>1 DEF Past
<1> DEFINE n == r[2] + 1 - r[1]
           s == [k \in 1..n |-> r[1] + k - 1]
<1>4. n \in Nat /\ n > 0 /\ Size(r) = n
  BY <1>1 DEF Size
<1>5. Expand(r) = s
  BY <1>3, <1>4 DEF Expand
<1>6. \A k \in 1..n : r[1] + k - 1 \in Nat
  BY <1>1, <1>4
<1>7. \A m \in 1..n : s[m] = r[1] + m - 1
  OBVIOUS
<1>8. s \in [1..n -> Nat]
  BY <1>6
<1> HIDE DEF n, s
<1>9. s \in Seq(Nat) /\ Len(s) = n
  BY <1>4, <1>8
<1> QED BY <1>4, <1>5, <1>7, <1>9

\* Before counts up range by range.
LEMMA BeforeIs ==
    ASSUME NEW rs, Good(rs)
    PROVE  /\ Before(rs, 1) = 0
           /\ \A i \in 1..Len(rs) + 1 : Before(rs, i) \in Nat
           /\ \A i \in 1..Len(rs) : Before(rs, i + 1) = Before(rs, i) + Size(rs[i])
<1> DEFINE n == Len(rs)
           z(j) == Size(rs[j])
           step == [i \in 0..n - 1 |-> [v \in Nat |-> v + z(i + 1)]]
           Q(k) == k = [j \in 0..n |-> IF j = 0 THEN 0 ELSE k[j - 1] + z(j)]
           c == CHOOSE k : Q(k)
<1>1. n \in Nat
  BY DEF Good
<1>2. ASSUME NEW i \in 1..n PROVE z(i) \in Nat
  <2> DEFINE N2 == Nat \X Nat
  <2>1. rs \in Seq(N2)
    BY DEF Good
  <2> HIDE DEF N2
  <2>2. rs[i] \in N2
    BY <2>1, ElementOfSeq
  <2> QED BY <2>2, ExpandIs DEF Good, N2
<1>0. \A i : Before(rs, i) = c[i - 1]
  BY DEF Before
<1> HIDE DEF n, z
<1>a. \A i \in 0..n - 1, v \in Nat : v + z(i + 1) \in Nat
  <2>1. \A i \in 0..n - 1 : z(i + 1) \in Nat
    BY <1>1, <1>2
  <2> QED BY <2>1
<1>3. step \in [0..n - 1 -> [Nat -> Nat]]
  BY <1>a
<1>4. \A i \in 0..n - 1, v \in Nat : step[i][v] = v + z(i + 1)
  OBVIOUS
<1> HIDE DEF step
<1>5. PICK s \in [0..n -> Nat] : Steps(s, 0, n, step)
  <2> DEFINE V == Nat
  <2>1. 0 \in V /\ step \in [0..n - 1 -> [V -> V]]
    BY <1>3
  <2> HIDE DEF V
  <2>2. \E s \in [0..n -> V] : Steps(s, 0, n, step)
    BY <1>1, <2>1, RecExists
  <2> QED BY <2>2 DEF V
<1>6. Q(s)
  <2>1. ASSUME NEW i \in 0..n PROVE s[i] = IF i = 0 THEN 0 ELSE s[i - 1] + z(i)
    <3>1. CASE i = 0
      BY <1>5, <3>1 DEF Steps
    <3>2. CASE i # 0
      <4>1. i - 1 \in 0..n - 1 /\ (i - 1) + 1 = i /\ s[i - 1] \in Nat
        BY <1>1, <3>2
      <4> QED BY <1>4, <1>5, <3>2, <4>1 DEF Steps
    <3> QED BY <3>1, <3>2
  <2> QED BY <2>1
<1>7. Q(c)
  BY <1>6
<1> HIDE DEF c
<1>8. ASSUME NEW i \in 0..n - 1 PROVE c[i + 1] = c[i] + z(i + 1)
  <2>1. i + 1 \in 0..n /\ i + 1 # 0 /\ (i + 1) - 1 = i
    BY <1>1
  <2> QED BY <1>7, <2>1
<1>9. c[0] = 0
  BY <1>1, <1>7
<1> DEFINE S == {i \in 0..n : c[i] \in Nat}
<1>10. 0 \in S
  BY <1>1, <1>9
<1>11. ASSUME NEW i \in 0..n - 1, i \in S PROVE i + 1 \in S
  <2>1. c[i] \in Nat /\ i + 1 \in 0..n
    BY <1>1, <1>11
  <2> QED BY <1>8, <1>a, <2>1
<1> HIDE DEF S
<1>12. 0..n \subseteq S
  BY <1>1, <1>10, <1>11, UpTo
<1>13. \A i \in 0..n : c[i] \in Nat
  BY <1>12 DEF S
<1>14. Before(rs, 1) = 0
  BY <1>0, <1>9
<1>15. ASSUME NEW i \in 1..n + 1 PROVE Before(rs, i) \in Nat
  <2>1. i - 1 \in 0..n
    BY <1>1
  <2> QED BY <1>0, <1>13, <2>1
<1>16. ASSUME NEW i \in 1..n PROVE Before(rs, i + 1) = Before(rs, i) + Size(rs[i])
  <2>1. i - 1 \in 0..n - 1 /\ (i - 1) + 1 = i /\ (i + 1) - 1 = i
    BY <1>1
  <2>2. Before(rs, i + 1) = c[i] /\ Before(rs, i) = c[i - 1]
    BY <1>0, <2>1
  <2>3. c[i] = c[i - 1] + z(i)
    BY <1>8, <2>1
  <2> QED BY <2>2, <2>3 DEF z
<1> QED BY <1>14, <1>15, <1>16 DEF n

\* Every range adds to the count, and at most what follows from it.
LEMMA BeforeGrows ==
    ASSUME NEW rs, Good(rs), NEW i \in 1..Len(rs) + 1, NEW j \in 1..Len(rs), j < i
    PROVE  Size(rs[j]) \in Nat /\ Size(rs[j]) > 0 /\ Before(rs, j + 1) <= Before(rs, i)
<1>1. Len(rs) \in Nat
  BY DEF Good
<1>2. ASSUME NEW k \in 1..Len(rs) PROVE Size(rs[k]) \in Nat /\ Size(rs[k]) > 0
  <2> DEFINE N2 == Nat \X Nat
  <2>1. rs \in Seq(N2)
    BY DEF Good
  <2> HIDE DEF N2
  <2>2. rs[k] \in N2
    BY <2>1, ElementOfSeq
  <2> QED BY <2>2, ExpandIs DEF Good, N2
<1> DEFINE n == i - (j + 1)
           S == {d \in 0..n : Before(rs, j + 1) <= Before(rs, j + 1 + d)}
<1>3. n \in Nat /\ j + 1 \in 1..Len(rs) + 1 /\ j + 1 + n = i /\ j + 1 + 0 = j + 1
  BY <1>1
<1>4. Before(rs, j + 1) \in Nat
  BY <1>3, BeforeIs
<1>5. 0 \in S
  <2>1. Before(rs, j + 1) <= Before(rs, j + 1)
    BY <1>4
  <2>2. Before(rs, j + 1) <= Before(rs, j + 1 + 0)
    BY <1>3, <2>1
  <2> QED BY <1>3, <2>2
<1>6. ASSUME NEW d \in 0..n - 1, d \in S PROVE d + 1 \in S
  <2> DEFINE k == j + 1 + d
  <2>1. k \in 1..Len(rs) /\ k \in 1..Len(rs) + 1 /\ d + 1 \in 0..n /\ j + 1 + (d + 1) = k + 1
    BY <1>1, <1>3
  <2>2. Before(rs, j + 1) <= Before(rs, k)
    BY <1>6
  <2> HIDE DEF k, n
  <2>3. Before(rs, k) \in Nat /\ Before(rs, k + 1) = Before(rs, k) + Size(rs[k]) /\ Size(rs[k]) \in Nat
    BY <1>2, <2>1, BeforeIs
  <2>4. Before(rs, j + 1) <= Before(rs, j + 1 + (d + 1))
    BY <1>4, <2>1, <2>2, <2>3
  <2> QED BY <2>1, <2>4
<1> HIDE DEF n, S
<1>7. 0..n \subseteq S
  BY <1>3, <1>5, <1>6, UpTo
<1>8. n \in S
  BY <1>3, <1>7
<1>9. Before(rs, j + 1) <= Before(rs, i)
  BY <1>3, <1>8 DEF S
<1> QED BY <1>2, <1>9

\* t is the ports of the first i ranges in a row.
Listed(t, rs, i) ==
    /\ t \in Seq(Nat) /\ Len(t) = Before(rs, i + 1)
    /\ \A j \in 1..i : \A m \in 1..Size(rs[j]) : t[Before(rs, j) + m] = rs[j][1] + m - 1

\* One more range in the row.
LEMMA ListedStep ==
    ASSUME NEW rs, Good(rs), NEW i \in 1..Len(rs), NEW t, Listed(t, rs, i - 1)
    PROVE  Listed(t \o Expand(rs[i]), rs, i)
<1> DEFINE e == Expand(rs[i])
           b == Before(rs, i)
           n == Size(rs[i])
           u == t \o e
<1>1. /\ n \in Nat /\ e \in Seq(Nat) /\ Len(e) = n /\ \A m \in 1..n : e[m] = rs[i][1] + m - 1
      /\ Len(rs) \in Nat
  <2> DEFINE N2 == Nat \X Nat
  <2>1. rs \in Seq(N2)
    BY DEF Good
  <2>2. rs[i][1] <= rs[i][2] /\ rs[i][2] < PortMax
    BY DEF Good
  <2> HIDE DEF N2
  <2>3. rs[i] \in N2 /\ Len(rs) \in Nat
    BY <2>1, ElementOfSeq
  <2> QED BY <2>2, <2>3, ExpandIs DEF N2
<1>2. b \in Nat /\ Before(rs, i + 1) = b + n
  BY <1>1, BeforeIs
<1>3. (i - 1) + 1 = i
  BY <1>1
<1>4. t \in Seq(Nat) /\ Len(t) = b
  BY <1>3 DEF Listed
<1>5. \A j \in 1..i - 1 : \A m \in 1..Size(rs[j]) : t[Before(rs, j) + m] = rs[j][1] + m - 1
  BY DEF Listed
<1> HIDE DEF e, n, b
<1>6. /\ u \in Seq(Nat) /\ Len(u) = b + n
      /\ \A k \in 1..b + n : u[k] = IF k <= b THEN t[k] ELSE e[k - b]
  <2> DEFINE B == Nat
  <2>1. t \in Seq(B) /\ e \in Seq(B)
    BY <1>1, <1>4
  <2> HIDE DEF B
  <2>2. /\ t \o e \in Seq(B) /\ Len(t \o e) = Len(t) + Len(e)
        /\ \A k \in 1..Len(t) + Len(e) : (t \o e)[k] = IF k <= Len(t) THEN t[k] ELSE e[k - Len(t)]
    BY <2>1, ConcatProperties
  <2> QED BY <1>1, <1>4, <2>2 DEF B
<1> HIDE DEF u
<1>7. ASSUME NEW j \in 1..i, NEW m \in 1..Size(rs[j])
      PROVE  u[Before(rs, j) + m] = rs[j][1] + m - 1
  <2>1. CASE j = i
    <3>1. m \in 1..n /\ b + m \in 1..b + n /\ ~(b + m <= b) /\ (b + m) - b = m
      BY <1>1, <1>2, <2>1 DEF n
    <3>2. u[b + m] = e[m]
      BY <1>6, <3>1
    <3>3. e[m] = rs[i][1] + m - 1
      BY <1>1, <3>1
    <3> QED BY <2>1, <3>2, <3>3 DEF b
  <2>2. CASE j # i
    <3>1. j \in 1..i - 1
      BY <1>1, <2>2
    <3>2. Before(rs, j) + m \in 1..b
      <4>1. b = Before(rs, i)
        BY DEF b
      <4>2. Before(rs, j) \in Nat /\ Before(rs, j + 1) = Before(rs, j) + Size(rs[j])
        BY <1>1, <3>1, BeforeIs
      <4>a. i \in 1..Len(rs) + 1 /\ j \in 1..Len(rs) /\ j < i
        BY <1>1, <3>1
      <4>3. Before(rs, j + 1) <= Before(rs, i)
        BY <4>a, BeforeGrows
      <4>4. Size(rs[j]) \in Nat
        BY <4>a, BeforeGrows
      <4> QED BY <1>2, <4>1, <4>2, <4>3, <4>4
    <3>3. Before(rs, j) + m \in 1..b + n /\ Before(rs, j) + m <= b
      BY <1>1, <1>2, <3>2
    <3>4. u[Before(rs, j) + m] = t[Before(rs, j) + m]
      BY <1>6, <3>3
    <3> QED BY <1>5, <3>1, <3>4
  <2> QED BY <2>1, <2>2
<1> QED BY <1>2, <1>6, <1>7 DEF Listed, u, e

\* FlattenPorts lists the ports of all ranges.
LEMMA FlattenIs ==
    ASSUME NEW rs, Good(rs), rs # <<>>
    PROVE  Listed(FlattenPorts(rs), rs, Len(rs))
<1> DEFINE n == Len(rs)
           f == [i \in DOMAIN rs |-> Expand(rs[i])]
           V == Seq(Nat)
           step == [i \in 0..n - 2 |-> [v \in V |-> v \o f[i + 2]]]
           Q(k) == k = [i \in 1..n |-> IF i = 1 THEN f[i] ELSE k[i - 1] \o f[i]]
           c == CHOOSE k : Q(k)
<1>1. n \in Nat /\ n > 0 /\ DOMAIN rs = 1..n
  <2> DEFINE N2 == Nat \X Nat
  <2>1. rs \in Seq(N2)
    BY DEF Good
  <2> HIDE DEF N2
  <2> QED BY <2>1
<1>2. ASSUME NEW i \in 1..n PROVE f[i] = Expand(rs[i]) /\ f[i] \in V
  <2> DEFINE N2 == Nat \X Nat
  <2>1. rs \in Seq(N2)
    BY DEF Good
  <2>2. rs[i][1] <= rs[i][2] /\ rs[i][2] < PortMax
    BY DEF Good
  <2> HIDE DEF N2
  <2>3. rs[i] \in N2
    BY <2>1, ElementOfSeq
  <2>4. Expand(rs[i]) \in Seq(Nat)
    BY <2>2, <2>3, ExpandIs DEF N2
  <2> QED BY <1>1, <2>4
<1>3. Len(f) = n
  BY <1>1
<1>4. FlattenPorts(rs) = c[n]
  BY <1>1, <1>3 DEF FlattenPorts, FlattenSeq
<1> HIDE DEF f, n
<1>5. n - 1 \in Nat /\ (n - 1) - 1 = n - 2 /\ 1 \in 1..n
  BY <1>1
<1>6. \A i \in 0..n - 2, v \in V : v \o f[i + 2] \in V
  <2>1. \A i \in 0..n - 2 : f[i + 2] \in V
    BY <1>1, <1>2
  <2> QED BY <2>1, ConcatProperties
<1>7. step \in [0..n - 2 -> [V -> V]]
  BY <1>6
<1>8. \A i \in 0..n - 2, v \in V : step[i][v] = v \o f[i + 2]
  OBVIOUS
<1>9. f[1] \in V
  BY <1>2, <1>5
<1> HIDE DEF step, V
<1>10. PICK s \in [0..n - 1 -> V] : Steps(s, f[1], n - 1, step)
  <2> DEFINE m == n - 1
  <2>1. m \in Nat /\ step \in [0..m - 1 -> [V -> V]]
    BY <1>5, <1>7
  <2> HIDE DEF m
  <2>2. \E s \in [0..m -> V] : Steps(s, f[1], m, step)
    BY <1>9, <2>1, RecExists
  <2> QED BY <2>2 DEF m
<1> DEFINE t == [i \in 1..n |-> s[i - 1]]
<1>11. Q(t)
  <2>1. ASSUME NEW i \in 1..n PROVE t[i] = IF i = 1 THEN f[i] ELSE t[i - 1] \o f[i]
    <3>1. CASE i = 1
      <4>1. t[1] = s[0]
        BY <1>5
      <4> QED BY <1>10, <3>1, <4>1 DEF Steps
    <3>2. CASE i # 1
      <4>1. i - 2 \in 0..n - 2 /\ (i - 2) + 1 = i - 1 /\ (i - 2) + 2 = i /\ i - 1 \in 1..n
            /\ (i - 1) - 1 = i - 2 /\ i - 2 \in 0..(n - 1) - 1 /\ i - 2 \in 0..n - 1
        BY <1>1, <3>2
      <4>2. s[(i - 2) + 1] = step[i - 2][s[i - 2]]
        BY <1>10, <4>1 DEF Steps
      <4>3. step[i - 2][s[i - 2]] = s[i - 2] \o f[(i - 2) + 2]
        BY <1>8, <4>1
      <4>4. t[i - 1] = s[i - 2] /\ t[i] = s[i - 1]
        BY <4>1
      <4> QED BY <3>2, <4>1, <4>2, <4>3, <4>4
    <3> QED BY <3>1, <3>2
  <2> HIDE DEF t
  <2>2. t = [i \in 1..n |-> t[i]]
    BY DEF t
  <2> QED BY <2>1, <2>2
<1>12. Q(c)
  BY <1>11
<1> HIDE DEF c
<1>13. c[1] = f[1]
  BY <1>5, <1>12
<1>14. ASSUME NEW i \in 2..n PROVE c[i] = c[i - 1] \o f[i]
  <2>1. i \in 1..n /\ i # 1
    BY <1>1
  <2> QED BY <1>12, <2>1
<1> DEFINE m == n - 1
           S == {d \in 0..m : Listed(c[d + 1], rs, d + 1)}
<1>15. 0 \in S
  <2> DEFINE e == <<>>
  <2>1. e \in Seq(Nat) /\ Len(e) = 0 /\ e \o f[1] = f[1]
    BY <1>9, ConcatEmptySeq DEF V
  <2>2. Before(rs, 1) = 0 /\ (1 - 1) + 1 = 1
    BY BeforeIs
  <2> HIDE DEF e
  <2>3. Listed(e, rs, 1 - 1)
    BY <2>1, <2>2 DEF Listed
  <2>4. Listed(e \o Expand(rs[1]), rs, 1)
    BY <1>5, <2>3, ListedStep DEF n
  <2>5. c[1] = e \o Expand(rs[1])
    BY <1>2, <1>5, <1>13, <2>1
  <2>6. Listed(c[1], rs, 1)
    BY <2>4, <2>5
  <2> QED BY <1>5, <2>6
<1>16. ASSUME NEW d \in 0..m - 1, d \in S PROVE d + 1 \in S
  <2> DEFINE i == d + 2
  <2>1. i \in 2..n /\ i \in 1..n /\ i - 1 = d + 1 /\ (d + 1) + 1 = i /\ d + 1 \in 0..m
    BY <1>1
  <2>2. Listed(c[i - 1], rs, i - 1)
    BY <1>16, <2>1
  <2> HIDE DEF i
  <2>3. Listed(c[i - 1] \o Expand(rs[i]), rs, i)
    BY <2>1, <2>2, ListedStep DEF n
  <2>4. c[i] = c[i - 1] \o Expand(rs[i])
    BY <1>2, <1>14, <2>1
  <2>5. Listed(c[(d + 1) + 1], rs, (d + 1) + 1)
    BY <2>1, <2>3, <2>4
  <2> QED BY <2>1, <2>5
<1>17. m \in Nat /\ m + 1 = n
  BY <1>5, <1>1
<1> HIDE DEF S, m
<1>18. 0..m \subseteq S
  BY <1>15, <1>16, <1>17, UpTo
<1>19. m \in S
  BY <1>17, <1>18
<1>20. Listed(c[n], rs, n)
  BY <1>17, <1>19 DEF S
<1> QED BY <1>4, <1>20 DEF n

\* The k-th port by listing is the k-th by counting.
LEMMA FlattenCounts ==
    ASSUME NEW rs, Good(rs), rs # <<>>
    PROVE  /\ FlattenPorts(rs) \in Seq(Nat) /\ Len(FlattenPorts(rs)) = PortCount(rs)
           /\ PortCount(rs) \in Nat /\ PortCount(rs) > 0
           /\ \A k \in 1..PortCount(rs) : FlattenPorts(rs)[k] = PortNo(rs, k)
<1> DEFINE n == Len(rs)
           t == FlattenPorts(rs)
<1>1. n \in Nat /\ n > 0 /\ DOMAIN rs = 1..n
  <2> DEFINE N2 == Nat \X Nat
  <2>1. rs \in Seq(N2)
    BY DEF Good
  <2> HIDE DEF N2
  <2> QED BY <2>1
<1>2. Listed(t, rs, n)
  BY FlattenIs
<1>3. PortCount(rs) = Before(rs, n + 1)
  BY DEF PortCount
<1>4. /\ Before(rs, 1) = 0 /\ \A i \in 1..n + 1 : Before(rs, i) \in Nat
      /\ \A i \in 1..n : Before(rs, i + 1) = Before(rs, i) + Size(rs[i])
  BY BeforeIs
<1> HIDE DEF t
<1>a. \A i \in 1..n : Size(rs[i]) \in Nat /\ Size(rs[i]) > 0
  <2> TAKE i \in 1..n
  <2>1. n + 1 \in 1..Len(rs) + 1 /\ i \in 1..Len(rs) /\ i < n + 1
    BY <1>1
  <2> QED BY <2>1, BeforeGrows
<1>5. PortCount(rs) \in Nat /\ PortCount(rs) > 0
  <2>1. n \in 1..n /\ n \in 1..n + 1
    BY <1>1
  <2> QED BY <1>3, <1>4, <1>a, <2>1
<1> HIDE DEF n
<1>6. ASSUME NEW k \in 1..PortCount(rs) PROVE t[k] = PortNo(rs, k)
  <2> DEFINE In(i) == Before(rs, i) < k /\ k <= Before(rs, i + 1)
  <2>1. \E i \in 1..n : In(i)
    <3> DEFINE T == {i \in 1..n : k <= Before(rs, i + 1)}
    <3>1. n \in T /\ T \in SUBSET Nat
      BY <1>1, <1>3
    <3>2. PICK i \in T : \A j \in T : i <= j
      <4> HIDE DEF T
      <4> QED BY <3>1, LeastNat
    <3>3. i \in 1..n /\ k <= Before(rs, i + 1)
      OBVIOUS
    <3>4. Before(rs, i) < k
      <4>1. CASE i = 1
        BY <1>4, <1>5, <4>1
      <4>2. CASE i # 1
        <5>1. i - 1 \in 1..n /\ (i - 1) + 1 = i /\ i - 1 \notin T /\ i \in 1..n + 1
          BY <1>1, <3>2, <4>2
        <5>2. ~(k <= Before(rs, i))
          BY <5>1
        <5>3. Before(rs, i) \in Nat /\ k \in Nat
          BY <1>4, <1>5, <5>1
        <5> QED BY <5>2, <5>3
      <4> QED BY <4>1, <4>2
    <3> QED BY <3>3, <3>4
  <2> DEFINE i == CHOOSE i \in DOMAIN rs : In(i)
  <2>2. i \in 1..n /\ In(i)
    BY <1>1, <2>1
  <2>3. PortNo(rs, k) = rs[i][1] + k - Before(rs, i) - 1
    BY DEF PortNo
  <2> HIDE DEF i
  <2> DEFINE m == k - Before(rs, i)
  <2>4. Before(rs, i) \in Nat /\ Before(rs, i + 1) = Before(rs, i) + Size(rs[i]) /\ Size(rs[i]) \in Nat
    BY <1>1, <1>4, <1>a, <2>2
  <2>5. m \in 1..Size(rs[i]) /\ Before(rs, i) + m = k
    BY <1>5, <2>2, <2>4
  <2>6. t[Before(rs, i) + m] = rs[i][1] + m - 1
    BY <1>2, <2>2, <2>5 DEF Listed
  <2>7. rs[i][1] \in Nat
    <3> DEFINE N2 == Nat \X Nat
    <3>1. rs \in Seq(N2)
      BY DEF Good
    <3> HIDE DEF N2
    <3>2. rs[i] \in N2
      BY <2>2, <3>1, ElementOfSeq DEF n
    <3> QED BY <3>2 DEF N2
  <2>8. rs[i][1] + m - 1 = rs[i][1] + k - Before(rs, i) - 1
    BY <1>5, <2>4, <2>7
  <2> HIDE DEF m
  <2> QED BY <2>3, <2>5, <2>6, <2>8
<1>7. t \in Seq(Nat) /\ Len(t) = PortCount(rs)
  BY <1>2, <1>3 DEF Listed
<1> QED BY <1>5, <1>6, <1>7 DEF t

\* The endpoints of a legacy file, by counting.
AddrNo(list, k) == list[IF k <= Len(list) THEN k ELSE 1]
PortOf(rs, k) == PortNo(rs, IF k <= PortCount(rs) THEN k ELSE 1)
Pair(x, k) == <<<<AddrNo(x.listen_addrs, k), PortOf(x.listen_ports, k)>>,
                <<AddrNo(x.remote_addrs, k), PortOf(x.remote_ports, k)>>>>

\* join_addr_port pairs what counting pairs.
LEMMA PairsCount ==
    ASSUME NEW x, Sound(x), x.listen_ports \in Seq(Nat \X Nat), x.remote_ports \in Seq(Nat \X Nat)
    PROVE  /\ PortCount(x.listen_ports) \in Nat
           /\ DOMAIN Pairs(x) = 1..PortCount(x.listen_ports)
           /\ \A k \in 1..PortCount(x.listen_ports) : Pairs(x)[k] = Pair(x, k)
<1> DEFINE L == x.listen_ports
           R == x.remote_ports
           l == FlattenPorts(L)
           r == FlattenPorts(R)
           n == PortCount(L)
<1>1. Good(L) /\ L # <<>> /\ Good(R) /\ R # <<>>
  <2> DEFINE N2 == Nat \X Nat
  <2>1. L \in Seq(N2) /\ R \in Seq(N2)
    OBVIOUS
  <2> HIDE DEF N2
  <2>2. DOMAIN L = 1..Len(L) /\ DOMAIN R = 1..Len(R)
    BY <2>1
  <2> QED BY <2>1, <2>2 DEF Sound, Good, N2
<1>2. Len(l) = n /\ n \in Nat /\ \A k \in 1..n : l[k] = PortNo(L, k)
  <2> HIDE DEF L
  <2> QED BY <1>1, FlattenCounts
<1>3. /\ Len(r) = PortCount(R) /\ PortCount(R) \in Nat /\ PortCount(R) > 0
      /\ \A k \in 1..PortCount(R) : r[k] = PortNo(R, k)
  <2> HIDE DEF R
  <2> QED BY <1>1, FlattenCounts
<1> DEFINE a == x.listen_addrs
           b == x.remote_addrs
           p == JoinAddrPort(a, l, n)
           q == JoinAddrPort(b, r, n)
<1>4. Pairs(x) = [k \in 1..n |-> <<p[k], q[k]>>]
  BY <1>2 DEF Pairs
<1>5. \A s, k : Padded(s, k) = AddrNo(s, k)
  BY DEF Padded, AddrNo
<1>6. \A k \in 1..n : Padded(l, k) = PortOf(L, k)
  BY <1>2 DEF Padded, PortOf
<1>7. \A k \in 1..n : Padded(r, k) = PortOf(R, k)
  <2> TAKE k \in 1..n
  <2>1. CASE k <= PortCount(R)
    <3>1. k \in 1..PortCount(R)
      BY <1>2, <1>3, <2>1
    <3> QED BY <1>3, <2>1, <3>1 DEF Padded, PortOf
  <2>2. CASE ~(k <= PortCount(R))
    <3>1. 1 \in 1..PortCount(R)
      BY <1>3
    <3> QED BY <1>3, <2>2, <3>1 DEF Padded, PortOf
  <2> QED BY <2>1, <2>2
<1> HIDE DEF l, r, n, L, R, a, b
<1>8. \A k \in 1..n : p[k] = <<Padded(a, k), Padded(l, k)>> /\ q[k] = <<Padded(b, k), Padded(r, k)>>
  BY DEF JoinAddrPort
<1> HIDE DEF p, q
<1>9. \A k \in 1..n : Pairs(x)[k] = <<p[k], q[k]>>
  BY <1>4
<1>10. \A k \in 1..n : Pairs(x)[k] = <<<<AddrNo(a, k), PortOf(L, k)>>, <<AddrNo(b, k), PortOf(R, k)>>>>
  BY <1>5, <1>6, <1>7, <1>8, <1>9
<1>11. DOMAIN Pairs(x) = 1..n
  BY <1>4
<1> QED BY <1>2, <1>10, <1>11 DEF Pair, n, L, R, a, b

\* What was read of a legacy file stays what its endpoints listen on and relay to.
Paired ==
    /\ DOMAIN full.endpoints = 1..PortCount(legacy.listen_ports)
    /\ full.endpoints = [k \in 1..PortCount(legacy.listen_ports) |-> full.endpoints[k]]
    /\ \A k \in 1..PortCount(legacy.listen_ports) :
           full.endpoints[k] = [addrs |-> Pair(legacy, k), network |-> full.endpoints[k].network]

LegacyInv ==
    parts[1].kind = "legacy" /\ Sound(legacy) =>
        /\ DOMAIN parts = {1} /\ source \in {"env", "config", "convert"}
        /\ legacy.listen_ports \in Seq(Nat \X Nat) /\ legacy.remote_ports \in Seq(Nat \X Nat)
        /\ pc = "load" /\ read = <<>> => full.endpoints = <<>>
        /\ read # <<>> \/ pc = "exit" => Paired

LEMMA LegacyInit == Init => LegacyInv
<1> SUFFICES ASSUME Init, parts[1].kind = "legacy" PROVE LegacyInv
  BY DEF LegacyInv
<1>1. ASSUME NEW S, parts \in Files(S) PROVE parts[1] \in S
  BY <1>1, PartsAssumption DEF Files
<1>2. parts \notin Files({Part(n, e, {}) : n \in SUBSET NetFields, e \in SUBSET NetFields})
  BY <1>1 DEF Part
<1>3. parts \notin Files({Part({}, {}, s) : s \in SUBSET SharedFields})
  BY <1>1 DEF Part
<1>4. /\ source \in {"env", "config", "convert"}
      /\ parts = <<[Part({}, {}, {}) EXCEPT !.kind = "legacy"]>>
  BY <1>2, <1>3 DEF Init
<1>5. PICK l \in SeqOf(Ranges, MaxRanges), r \in SeqOf(Ranges, MaxRemotes),
           n \in 0..MaxAddrs, m \in 0..MaxAddrs :
          legacy = [listen_addrs |-> [k \in 1..n |-> k], listen_ports |-> l,
                    remote_addrs |-> [k \in 1..m |-> k], remote_ports |-> r]
  BY <1>2, <1>3 DEF Init
<1>6. \A N \in Nat : \A s \in SeqOf(Ranges, N) : s \in Seq(Nat \X Nat)
  <2> DEFINE N2 == Nat \X Nat
  <2> SUFFICES ASSUME NEW N \in Nat, NEW s \in SeqOf(Ranges, N) PROVE s \in Seq(N2)
    OBVIOUS
  <2>1. Ranges \subseteq N2
    BY PortAssumption DEF Ranges, Ports
  <2>2. PICK j \in 0..N : s \in [1..j -> Ranges]
    BY DEF SeqOf
  <2> HIDE DEF N2
  <2> QED BY <2>1, <2>2
<1>7. l \in Seq(Nat \X Nat) /\ r \in Seq(Nat \X Nat)
  BY <1>6, LegacyAssumption
<1>8. legacy.listen_ports = l /\ legacy.remote_ports = r
  BY <1>5
<1>9. DOMAIN parts = {1} /\ read = <<>> /\ full.endpoints = <<>> /\ pc # "exit"
  BY <1>4 DEF Init, EmptyConf
<1> QED BY <1>4, <1>7, <1>8, <1>9 DEF LegacyInv

\* The file is read.
LEMMA LegacyRead ==
    ASSUME LegacyInv, parts[1].kind = "legacy", Sound(legacy), UNCHANGED input,
           full'.endpoints = FromConfStr(1).endpoints
    PROVE  Paired'
<1> DEFINE n == PortCount(legacy.listen_ports)
           d == EmptyConf.network
<1>1. /\ n \in Nat /\ DOMAIN Pairs(legacy) = 1..n
      /\ \A k \in 1..n : Pairs(legacy)[k] = Pair(legacy, k)
  BY PairsCount DEF LegacyInv
<1>2. full'.endpoints = [k \in 1..n |-> [addrs |-> Pairs(legacy)[k], network |-> d]]
  BY <1>1 DEF FromConfStr
<1>3. legacy' = legacy
  BY DEF input
<1> HIDE DEF n, d
<1>4. DOMAIN full'.endpoints = 1..n /\ full'.endpoints = [k \in 1..n |-> full'.endpoints[k]]
  BY <1>2
<1>5. ASSUME NEW k \in 1..n
      PROVE  full'.endpoints[k] = [addrs |-> Pair(legacy, k), network |-> full'.endpoints[k].network]
  <2>1. full'.endpoints[k] = [addrs |-> Pair(legacy, k), network |-> d]
    BY <1>1, <1>2
  <2> QED BY <2>1
<1> QED BY <1>3, <1>4, <1>5 DEF Paired, n

\* Options of endpoints are merged, their addresses stay.
LEMMA LegacyMerged ==
    ASSUME Paired, UNCHANGED input, NEW g,
           full'.endpoints = [k \in DOMAIN full.endpoints |-> [full.endpoints[k] EXCEPT !.network = g[k]]]
    PROVE  Paired'
<1> DEFINE n == PortCount(legacy.listen_ports)
<1>1. legacy' = legacy
  BY DEF input
<1>2. DOMAIN full.endpoints = 1..n
  BY DEF Paired
<1>3. \A k \in 1..n : full.endpoints[k] = [addrs |-> Pair(legacy, k), network |-> full.endpoints[k].network]
  BY DEF Paired
<1> HIDE DEF n
<1>4. DOMAIN full'.endpoints = 1..n /\ full'.endpoints = [k \in 1..n |-> full'.endpoints[k]]
  BY <1>2
<1>5. ASSUME NEW k \in 1..n
      PROVE  full'.endpoints[k] = [addrs |-> Pair(legacy, k), network |-> full'.endpoints[k].network]
  <2> DEFINE a == Pair(legacy, k)
  <2>1. full'.endpoints[k] = [full.endpoints[k] EXCEPT !.network = g[k]]
    BY <1>2
  <2>2. PICK b : full.endpoints[k] = [addrs |-> a, network |-> b]
    BY <1>3
  <2> HIDE DEF a
  <2>3. [[addrs |-> a, network |-> b] EXCEPT !.network = g[k]] = [addrs |-> a, network |-> g[k]]
    OBVIOUS
  <2>4. full'.endpoints[k] = [addrs |-> a, network |-> g[k]]
    BY <2>1, <2>2, <2>3
  <2>5. full'.endpoints[k].network = g[k]
    BY <2>4
  <2> QED BY <2>4, <2>5 DEF a
<1> QED BY <1>1, <1>4, <1>5 DEF Paired, n

LEMMA LegacyNext == ASSUME IInv, LegacyInv, [Next]_vars PROVE LegacyInv'
<1> SUFFICES ASSUME parts[1].kind = "legacy", Sound(legacy), UNCHANGED input PROVE LegacyInv'
  <2>1. UNCHANGED input
    BY DEF Next, LoadEnv, LoadCmdEndpoint, LoadFile, FilesRead, Convert, ExitNone, ApplyGlobalOpts,
           ApplyCmdOpts, SetupLog, SetupDns, Build, FirstLookup, Panic, vars
  <2> QED BY <2>1 DEF LegacyInv, input
<1>1. /\ DOMAIN parts = {1} /\ source \in {"env", "config", "convert"}
      /\ legacy.listen_ports \in Seq(Nat \X Nat) /\ legacy.remote_ports \in Seq(Nat \X Nat)
      /\ (pc = "load" /\ read = <<>> => full.endpoints = <<>>)
      /\ (read # <<>> \/ pc = "exit" => Paired)
  BY DEF LegacyInv
<1>2. UNCHANGED <<source, parts, legacy>>
  BY DEF input
<1>3. ASSUME full' = full, read' = read, pc' = "load" => pc = "load", pc' = "exit" => pc = "exit"
      PROVE  LegacyInv'
  <2>1. Paired => Paired'
    BY <1>2, <1>3 DEF Paired
  <2> QED BY <1>1, <1>2, <1>3, <2>1 DEF LegacyInv
<1>4. CASE UNCHANGED vars \/ FilesRead \/ SetupLog \/ SetupDns \/ Build \/ FirstLookup \/ Panic
  BY <1>3, <1>4 DEF vars, FilesRead, SetupLog, SetupDns, Build, FirstLookup, Panic
<1>5. CASE LoadEnv \/ Convert
  <2>1. full' = FromConfStr(1) /\ pc' # "load"
    BY <1>5 DEF LoadEnv, Convert
  <2>2. Paired'
    BY <2>1, LegacyRead
  <2> QED BY <1>1, <1>2, <2>1, <2>2 DEF LegacyInv
<1>6. CASE LoadFile
  <2>1. PICK i \in Unread : full' = TakeFields(full, FromConfStr(i)) /\ read' = Append(read, i)
    BY <1>6 DEF LoadFile
  <2>2. pc = "load" /\ pc' = "load" /\ read \in Seq({1})
    BY <1>1, <1>6 DEF LoadFile, IInv, StageInv
  <2>3. i = 1 /\ read = <<>> /\ full.endpoints = <<>>
    <3>1. i = 1 /\ \A k \in DOMAIN read : read[k] # 1
      BY <1>1, <2>1 DEF Unread
    <3>2. read = <<>>
      BY <2>2, <3>1
    <3> QED BY <1>1, <2>2, <3>1, <3>2
  <2> DEFINE e == FromConfStr(1).endpoints
  <2>4. full'.endpoints = <<>> \o e
    BY <2>1, <2>3 DEF TakeFields
  <2>5. e \in Seq([addrs : {Pair(legacy, k) : k \in Nat}, network : {EmptyConf.network}])
    <3> DEFINE n == PortCount(legacy.listen_ports)
               E == [addrs : {Pair(legacy, k) : k \in Nat}, network : {EmptyConf.network}]
    <3>1. /\ n \in Nat /\ DOMAIN Pairs(legacy) = 1..n
          /\ \A k \in 1..n : Pairs(legacy)[k] = Pair(legacy, k)
      BY <1>1, PairsCount
    <3>2. e = [k \in 1..n |-> [addrs |-> Pairs(legacy)[k], network |-> EmptyConf.network]]
      BY <3>1 DEF FromConfStr
    <3> HIDE DEF e, n
    <3>3. \A k \in 1..n : [addrs |-> Pairs(legacy)[k], network |-> EmptyConf.network] \in E
      BY <3>1
    <3> HIDE DEF E
    <3>4. e \in Seq(E)
      BY <3>1, <3>2, <3>3, IsASeq
    <3> QED BY <3>4 DEF E
  <2> HIDE DEF e
  <2>6. full'.endpoints = e
    <3> DEFINE E == [addrs : {Pair(legacy, k) : k \in Nat}, network : {EmptyConf.network}]
    <3>1. e \in Seq(E)
      BY <2>5
    <3> HIDE DEF E
    <3> QED BY <2>4, <3>1, ConcatEmptySeq
  <2>7. Paired'
    BY <2>6, LegacyRead DEF e
  <2>8. read' # <<>>
    BY <2>1, <2>3
  <2> QED BY <1>1, <1>2, <2>7, <2>8 DEF LegacyInv
<1>7. CASE ApplyGlobalOpts \/ ApplyCmdOpts
  <2>1. pc' \notin {"load", "exit"} /\ read' = read
    BY <1>7 DEF ApplyGlobalOpts, ApplyCmdOpts
  <2>2. full = [shared |-> full.shared, network |-> full.network, endpoints |-> full.endpoints]
    BY DEF IInv, StageInv
  <2>3. ASSUME Paired PROVE Paired'
    <3>1. CASE ApplyGlobalOpts
      <4> DEFINE g == [k \in DOMAIN full.endpoints |-> Take(full.endpoints[k].network, full.network)]
      <4>1. full' = [full EXCEPT !.endpoints = [i \in DOMAIN @ |-> TakeNet(@[i], full.network)]]
        BY <3>1 DEF ApplyGlobalOpts
      <4>2. full'.endpoints = [k \in DOMAIN full.endpoints |-> TakeNet(full.endpoints[k], full.network)]
        BY <2>2, <4>1
      <4>3. full'.endpoints = [k \in DOMAIN full.endpoints |-> [full.endpoints[k] EXCEPT !.network = g[k]]]
        BY <4>2 DEF TakeNet
      <4> HIDE DEF g
      <4> QED BY <2>3, <4>3, LegacyMerged
    <3>2. CASE ApplyCmdOpts
      <4> DEFINE g == [k \in DOMAIN full.endpoints |-> Override(full.endpoints[k].network, NetFromCmdArgs)]
      <4>1. full' = [full EXCEPT !.shared = Override(@, SharedFromCmdArgs),
                                 !.endpoints = [i \in DOMAIN @ |-> RstNet(@[i], NetFromCmdArgs)]]
        BY <3>2 DEF ApplyCmdOpts
      <4>2. full'.endpoints = [k \in DOMAIN full.endpoints |-> RstNet(full.endpoints[k], NetFromCmdArgs)]
        BY <2>2, <4>1
      <4>3. full'.endpoints = [k \in DOMAIN full.endpoints |-> [full.endpoints[k] EXCEPT !.network = g[k]]]
        BY <4>2 DEF RstNet
      <4> HIDE DEF g
      <4> QED BY <2>3, <4>3, LegacyMerged
    <3> QED BY <1>7, <3>1, <3>2
  <2> QED BY <1>1, <1>2, <2>1, <2>3 DEF LegacyInv
<1>8. ~LoadCmdEndpoint /\ ~ExitNone
  BY <1>1 DEF LoadCmdEndpoint, ExitNone
<1> QED BY <1>4, <1>5, <1>6, <1>7, <1>8 DEF Next

-----------------------------------------------------------------------------
(* The theorems                                                            *)

\* Configured by files and the command line, whatever the files, the order in
\* which the directory is walked and the flags, the log level and the options of
\* every endpoint that is built are what the first source in the order of
\* precedence says, else the default; the probe count only where no keepalive
\* flag is given (FullConf::take_fields, apply_global_opts, apply_cmd_opts,
\* NetConf::build).
THEOREM PrecedenceHolds == Spec => []Precedence
<1>1. IInv => Precedence
  <2> SUFFICES ASSUME IInv, pc = "run", source # "env"
               PROVE  /\ full.shared["level"] = Asked("level")
                      /\ parts[1].kind = "toml" =>
                             /\ DOMAIN built = Slots
                             /\ \A k \in Slots : \A f \in Undisturbed :
                                    built[k][f] = OrElse(AskedOf(k, f), Default)
    BY DEF Precedence
  <2>1. full.shared = [f \in SharedFields |-> Asked(f)]
    BY DEF IInv, MergeInv, Ended, SharedNow
  <2>2. full.shared["level"] = Asked("level")
    BY <2>1 DEF SharedFields
  <2> QED BY <2>2 DEF IInv, EndpointInv, Ended, Undisturbed
<1> QED BY <1>1, Invariant, PTL

\* The resolver the first lookup makes is the one that was asked for: options,
\* servers and protocol follow the files and flags, through the lazy cell
\* (DnsConf::build, build_lazy, the DNS global).
THEOREM DnsAsAskedHolds == Spec => []DnsAsAsked
<1>1. IInv => DnsAsAsked
  <2> SUFFICES ASSUME IInv, resolver # <<>> PROVE DnsAsAsked
    BY DEF DnsAsAsked
  <2>1. pc = "run" /\ resolver = Lazy
    BY DEF IInv, DnsInv
  <2>2. full.shared = [f \in SharedFields |-> Asked(f)]
    BY <2>1 DEF IInv, MergeInv, Ended, SharedNow
  <2>3. \A f \in SharedFields : full.shared[f] = Asked(f)
    BY <2>2
  <2>4. /\ full.shared["mode"] = Asked("mode")
        /\ full.shared["cache_size"] = Asked("cache_size")
        /\ full.shared["nameservers"] = Asked("nameservers")
        /\ full.shared["protocol"] = Asked("protocol")
    BY <2>3 DEF SharedFields
  <2>5. resolver[1].opts = BuildOpts(full.shared) /\ resolver[1].conf = BuildServers(full.shared)
    BY <2>1 DEF Lazy
  <2>6. \A f \in {"mode", "cache_size"} : Asked(f) # Unset => resolver[1].opts[f] = Asked(f)
    BY <2>4, <2>5 DEF BuildOpts, OrElse
  <2>7. resolver[1].conf.servers = OrElse(Asked("nameservers"), System)
    BY <2>4, <2>5 DEF BuildServers
  <2>8. resolver[1].conf.protocol =
            IF Asked("protocol") = Unset THEN "tcp_and_udp" ELSE proto
    BY <2>4, <2>5 DEF BuildServers, UsesSystem
  <2> QED BY <2>6, <2>7, <2>8 DEF DnsAsAsked
<1> QED BY <1>1, Invariant, PTL

\* A legacy file, read or converted, makes one endpoint for each listening port,
\* in order, and gives the k-th of them the k-th addresses and ports, whatever
\* options are merged into it afterwards, for any number of ranges and
\* addresses (flatten_ports, join_addr_port, From<LegacyConf>).
THEOREM LegacyPairsHold == Spec => []LegacyPairs
<1>1. Init => LegacyInv
  BY LegacyInit
<1>2. IInv /\ LegacyInv /\ [Next]_vars => LegacyInv'
  BY LegacyNext
<1>3. IInv /\ LegacyInv => LegacyPairs
  <2> SUFFICES ASSUME LegacyInv, parts[1].kind = "legacy", Sound(legacy), read # <<>> \/ pc = "exit"
               PROVE  LegacyPairs
    BY DEF LegacyPairs
  <2> DEFINE n == PortCount(legacy.listen_ports)
  <2>1. Paired /\ n \in Nat
    BY PairsCount DEF LegacyInv
  <2>2. Len(full.endpoints) = n /\ DOMAIN full.endpoints = 1..n
    BY <2>1 DEF Paired
  <2>3. ASSUME NEW k \in 1..n PROVE full.endpoints[k].addrs = Pair(legacy, k)
    <3>1. PICK b : full.endpoints[k] = [addrs |-> Pair(legacy, k), network |-> b]
      BY <2>1 DEF Paired
    <3> QED BY <3>1
  <2> QED BY <2>2, <2>3 DEF LegacyPairs, Pair, AddrNo, PortOf
<1> QED BY <1>1, <1>2, <1>3, Invariant, PTL DEF Spec

=============================================================================
