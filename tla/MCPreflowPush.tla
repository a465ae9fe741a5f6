--------------------------- MODULE MCPreflowPush ---------------------------
(* A small graph for PreflowPush, built the way new_graph builds it. *)
EXTENDS PreflowPush, NewGraph

\* Five nodes in two layers, with edges inside a layer (2-1, written from the
\* higher node) and bottlenecks last, so that excess must return to the source.
LayersU   == <<0, 0, 2, 1, 2, 3, 2>>
LayersV   == <<1, 2, 1, 3, 3, 4, 4>>
LayersCap == <<2, 3, 1, 2, 1, 1, 1>>
LayersAdj == ListsAfter(5, 7, LayersU, LayersV)
=============================================================================
