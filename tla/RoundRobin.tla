----------------------------- MODULE RoundRobin -----------------------------
(***************************************************************************)
(* The smooth weighted round robin of hoorayhug_lb (round_robin.rs), as    *)
(* the part of Balancer that keeps state.  next runs under the mutex of    *)
(* the node list, so a call is one action; the tokens of concurrent        *)
(* connections are the calls in the order of the lock.  Current weights    *)
(* are i16 and wrap, as in a release build.                                *)
(***************************************************************************)
EXTENDS Integers, Sequences, FiniteSets, FiniteSetsExt

CONSTANTS
    MaxWeight,  \* bound: weight of a peer (u8, 255 in the code)
    MaxCalls,   \* bound: calls of next
    Half        \* a current weight is -Half..Half - 1: 2^15 for i16

ASSUME WeightAssumption == MaxWeight \in Nat
ASSUME CallsAssumption == MaxCalls \in Nat
ASSUME HalfAssumption == Half \in Nat \ {0}

VARIABLES
    weight,     \* configured weight of each node
    ew, cw,     \* effective and current weight of each node
    calls,      \* history: number of calls
    count       \* history: how often each node was chosen

rrVars == <<weight, ew, cw, calls, count>>

Nodes == DOMAIN weight

\* Two's complement wrap-around of i16 arithmetic.
Wrap(x) == ((x + Half) % (2 * Half)) - Half

\* The sum of f over 0..n - 1, by going through the list.
Sum(f, n) ==
    LET s[i \in 0..n] == IF i = 0 THEN 0 ELSE s[i - 1] + f[i - 1]
    IN  s[n]

\* RoundRobin::new: the tokens count from 0; up to one weight there is no node.
New(weights) ==
    LET tokens == IF Len(weights) > 1 THEN 0..Len(weights) - 1 ELSE {} IN
    /\ weight = [p \in tokens |-> weights[p + 1]]
    /\ ew = weight
    /\ cw = [p \in tokens |-> 0]
    /\ calls = 0
    /\ count = [p \in tokens |-> 0]

\* The loop of next adds the effective weights ...
Raised == [p \in Nodes |-> Wrap(cw[p] + ew[p])]

\* ... and keeps the first node with the largest current weight.
Best(c) ==
    CHOOSE p \in Nodes :
        /\ \A q \in Nodes : c[q] <= c[p]
        /\ \A q \in Nodes : q < p => c[q] < c[p]

\* Mutant: the total leaves out the chosen node's own weight.
Debit_Others(p) == Wrap(Sum(ew, Cardinality(Nodes)) - ew[p])

\* The chosen node pays the total.
Debit(p) == Wrap(Sum(ew, Cardinality(Nodes)))

\* Mutant: the effective weight climbs past the configured one.
Recovered_Past(q) == IF ew[q] <= weight[q] THEN ew[q] + 1 ELSE ew[q]

Recovered(q) == IF ew[q] < weight[q] THEN ew[q] + 1 ELSE ew[q]

\* RoundRobin::next with several nodes.
NextNode(p) ==
    /\ calls < MaxCalls
    /\ p = Best(Raised)
    /\ cw' = [Raised EXCEPT ![p] = Wrap(@ - Debit(p))]
    /\ ew' = [q \in Nodes |-> Recovered(q)]
    /\ count' = [count EXCEPT ![p] = @ + 1]
    /\ calls' = calls + 1
    /\ UNCHANGED weight

=============================================================================
