------------------------ MODULE MCSequentialPreflow ------------------------
(* A graph of eight nodes for SequentialPreflow, built the way new_graph   *)
(* builds it: two rows of three nodes with rungs between them, and last    *)
(* edges too small for what the source can send, so that most of it must   *)
(* climb back over all the rows.  Edges 4-1 and 6-3 are written from the   *)
(* higher node.                                                            *)
EXTENDS SequentialPreflow, NewGraph

LadderU   == <<0, 0, 1, 2, 3, 4, 4, 6, 5, 6>>
LadderV   == <<1, 2, 3, 4, 5, 6, 1, 3, 7, 7>>
LadderCap == <<6, 5, 4, 3, 3, 2, 1, 2, 1, 2>>
LadderAdj == ListsAfter(8, 10, LadderU, LadderV)
=============================================================================
