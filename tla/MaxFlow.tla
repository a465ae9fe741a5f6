------------------------------ MODULE MaxFlow ------------------------------
(***************************************************************************)
(* The reference answer every preflow program is compared with: the value  *)
(* of a maximum flow, defined without any algorithm as the capacity of a   *)
(* smallest cut between the source and the sink.                           *)
(***************************************************************************)
EXTENDS FlowGraph

Sets == INSTANCE FiniteSetsExt

SumOver(S, g) == Sets!MapThenSumSet(LAMBDA x : g[x], S)

\* S is a cut: it has the source and not the sink.
Cuts == {S \in SUBSET Node : s \in S /\ t \notin S}

Crossing(S) == {x \in Edge : (EdgeU[x] \in S) # (EdgeV[x] \in S)}

MaxFlowValue == Sets!Min({SumOver(Crossing(S), Cap) : S \in Cuts})

=============================================================================
