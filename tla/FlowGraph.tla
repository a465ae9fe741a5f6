----------------------------- MODULE FlowGraph -----------------------------
(***************************************************************************)
(* The input of every preflow program of the repository: an undirected    *)
(* graph of N nodes, node 0 the source and node N-1 the sink.  An edge is *)
(* one shared object in the adjacency lists of its two end points; its    *)
(* flow f is positive from EdgeU to EdgeV and negative the other way, and *)
(* its capacity bounds the flow in both directions.                       *)
(*                                                                         *)
(* The assumptions are what the drivers feed the programs: two or more    *)
(* nodes, no self loop, no edge of capacity 0.  Parallel edges are        *)
(* allowed.                                                                *)
(***************************************************************************)
EXTENDS Integers, Sequences

CONSTANTS
    N,       \* g->n, the number of nodes
    M,       \* g->m, the number of edges
    EdgeU,   \* EdgeU[x] is e->u
    EdgeV,   \* EdgeV[x] is e->v
    Cap,     \* Cap[x] is e->c
    Adj      \* Adj[a] is the list a->edge

Node  == 0 .. N - 1
Edge  == 1 .. M
s     == 0
t     == N - 1
Inner == Node \ {s, t}

Incident(a) == {x \in Edge : EdgeU[x] = a \/ EdgeV[x] = a}

ASSUME SizeAssumption == N \in Nat /\ N >= 2 /\ M \in Nat

ASSUME EdgeAssumption ==
    /\ EdgeU \in [Edge -> Node]
    /\ EdgeV \in [Edge -> Node]
    /\ Cap \in [Edge -> Nat]
    /\ \A x \in Edge : EdgeU[x] # EdgeV[x] /\ Cap[x] > 0

\* What new_graph leaves behind (see module NewGraph): every node lists each
\* edge it is an end point of exactly once, in some order.
ASSUME AdjAssumption ==
    /\ Adj \in [Node -> Seq(Edge)]
    /\ \A a \in Node :
         /\ \A i \in 1 .. Len(Adj[a]) : Adj[a][i] \in Incident(a)
         /\ \A x \in Incident(a) : \E i \in 1 .. Len(Adj[a]) : Adj[a][i] = x
         /\ \A i, j \in 1 .. Len(Adj[a]) : Adj[a][i] = Adj[a][j] => i = j

-----------------------------------------------------------------------------

\* other(u, e): the end point of x that is not a.
Other(a, x) == IF a = EdgeU[x] THEN EdgeV[x] ELSE EdgeU[x]

\* In the operators below ht, ex and fl are the heights and the excess of the
\* nodes and the flow of the edges.

\* b * e->f with b = 1 for e->u and b = -1 for e->v: the flow out of a.
FlowFrom(fl, a, x) == IF a = EdgeU[x] THEN fl[x] ELSE -fl[x]

\* What x can still carry from a to the other end.
Residual(fl, a, x) == Cap[x] - FlowFrom(fl, a, x)

\* (Slips, see README: pushing on the level, and along the edge's own direction
\* only.)
LevelAdmissible(fl, ht, a, x) ==
    ht[a] >= ht[Other(a, x)] /\ FlowFrom(fl, a, x) < Cap[x]

ForwardAdmissible(fl, ht, a, x) ==
    ht[a] > ht[Other(a, x)] /\ FlowFrom(fl, a, x) < Cap[x] /\ a = EdgeU[x]

\* The test of the scanning loops: u->h > v->h && b * e->f < e->c.
Admissible(fl, ht, a, x) ==
    ht[a] > ht[Other(a, x)] /\ FlowFrom(fl, a, x) < Cap[x]

\* (A slip: MAX for MIN.)
Greater(j, k) == IF j < k THEN k ELSE j

Lesser(j, k) == IF j < k THEN j ELSE k

\* The amount push moves, MIN(u->e, e->c -/+ e->f).
Amount(fl, ex, a, x) == Lesser(ex[a], Residual(fl, a, x))

\* e->f += d when u == e->u, e->f -= d otherwise.
FlowAfter(fl, a, x, d) ==
    [fl EXCEPT ![x] = IF a = EdgeU[x] THEN @ + d ELSE @ - d]

\* u->e -= d; v->e += d.
ExcessAfter(ex, a, x, d) ==
    [ex EXCEPT ![a] = @ - d, ![Other(a, x)] = @ + d]

=============================================================================
