------------------------------ MODULE NewGraph ------------------------------
(***************************************************************************)
(* new_graph, connect and add_edge: the adjacency lists built from the     *)
(* list of edges of the input, in input order.  add_edge puts the new link *)
(* first, so a node lists its edges from the last read to the first.       *)
(***************************************************************************)
EXTENDS Integers, Sequences

\* add_edge(u, e): a new link at the front of u's list.
AddEdge(adj, a, x) == [adj EXCEPT ![a] = <<x>> \o @]

\* connect(u, v, c, e): the shared edge goes into both lists, first u's.
Connect(adj, a, b, x) == AddEdge(AddEdge(adj, a, x), b, x)

\* The lists after reading the first i of the edges eu[i] - ev[i] of a graph
\* of n nodes.
ListsAfter(n, m, eu, ev) ==
    LET lists[i \in 0 .. m] ==
          IF i = 0 THEN [a \in 0 .. n - 1 |-> << >>]
                   ELSE Connect(lists[i - 1], eu[i], ev[i], i)
    IN  lists[m]

\* The Java programs append: adj.addLast, so a node lists its edges as read.
ListsInOrder(n, m, eu, ev) ==
    [a \in 0 .. n - 1 |-> SelectSeq([x \in 1 .. m |-> x], LAMBDA x : a \in {eu[x], ev[x]})]

=============================================================================
