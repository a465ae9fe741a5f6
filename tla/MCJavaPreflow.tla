--------------------------- MODULE MCJavaPreflow ---------------------------
(* Small graphs for JavaPreflow; a node's list has its edges as read.       *)
EXTENDS JavaPreflow, NewGraph

\* Two inner nodes in a row: of three threads the first owns the source and one
\* inner node, the second the other and the sink, and the third none.
RowU   == <<0, 1, 2>>
RowV   == <<1, 2, 3>>
RowAdj == ListsInOrder(4, 3, RowU, RowV)

\* The source has more than the sink can take ...
WideCap == <<3, 1, 1>>

\* ... or as much.
EvenCap == <<1, 1, 1>>
=============================================================================
