------------------------ MODULE MCConcurrentPreflow ------------------------
(* Small graphs for ConcurrentPreflow, built the way new_graph builds them. *)
EXTENDS ConcurrentPreflow, NewGraph

\* 0-1, 0-2, 2-1 and both to the sink 3: two workers meet on edge 2-1.
DiamondU   == <<0, 0, 2, 1, 2>>
DiamondV   == <<1, 2, 1, 3, 3>>
DiamondCap == <<2, 3, 1, 1, 1>>
DiamondAdj == ListsAfter(4, 5, DiamondU, DiamondV)
=============================================================================
