-------------------------- MODULE MCForsetePreflow --------------------------
(* The graphs a judge calls preflow with.                                   *)
EXTENDS ForsetePreflow

\* The edges a graph of four nodes may have, one of them written either way, and
\* what each may carry.
Pairs      == <<<<0, 1>>, <<0, 2>>, <<1, 2>>, <<2, 1>>, <<1, 3>>, <<2, 3>>>>
Capacities == <<{1, 2}, {0, 2}, {0, 1}, {0, 2}, {0, 1}, {0, 1}>>

\* The graph whose edge j has capacity cap[j], or is missing if that is 0.
GraphWith(cap) ==
    LET edges == SelectSeq(<<1, 2, 3, 4, 5, 6>>, LAMBDA j : cap[j] > 0)
    IN  [n |-> 4, m |-> Len(edges),
         u |-> [x \in 1 .. Len(edges) |-> Pairs[edges[x]][1]],
         v |-> [x \in 1 .. Len(edges) |-> Pairs[edges[x]][2]],
         c |-> [x \in 1 .. Len(edges) |-> cap[edges[x]]]]

\* A path, its first edge written from the inner node.
Path == [n |-> 3, m |-> 2, u |-> <<1, 1>>, v |-> <<0, 2>>, c |-> <<2, 1>>]

SmallGraphs ==
    {Path} \cup
    {GraphWith(cap) : cap \in {k \in [1 .. 6 -> 0 .. 2] :
                                  \A j \in 1 .. 6 : k[j] \in Capacities[j]}}
=============================================================================
