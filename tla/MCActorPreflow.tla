--------------------------- MODULE MCActorPreflow ---------------------------
(* Small graphs for ActorPreflow; an actor's list begins with its last edge. *)
EXTENDS ActorPreflow, NewGraph

\* Source, one inner node, sink.
PathU   == <<0, 1>>
PathV   == <<1, 2>>
PathCap == <<2, 1>>
PathAdj == ListsAfter(3, 2, PathU, PathV)

\* 0-1, 0-2, 1-2 and both to the sink.
DiamondU   == <<0, 0, 1, 1, 2>>
DiamondV   == <<1, 2, 2, 3, 3>>
DiamondCap == <<2, 1, 1, 1, 2>>
DiamondAdj == ListsAfter(4, 5, DiamondU, DiamondV)

\* 0-1, 0-2, 1-2 and 1-3: whatever comes to node 2 must go through node 1.
ElbowU   == <<0, 0, 1, 1>>
ElbowV   == <<1, 2, 2, 3>>
ElbowCap == <<1, 2, 2, 1>>
ElbowAdj == ListsAfter(4, 4, ElbowU, ElbowV)
=============================================================================
