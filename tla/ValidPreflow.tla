---------------------------- MODULE ValidPreflow ----------------------------
(***************************************************************************)
(* What every step of a preflow program keeps, as a relation between the   *)
(* heights, the excess, the flows and those edges of the source that are   *)
(* not yet saturated: the invariant the proofs of the programs share.      *)
(* FlowGraphProof proves that the steps keep it.                           *)
(***************************************************************************)
EXTENDS MaxFlow

\* The flow of an edge into W.
Inflow(fl, W) == [x \in Edge |-> IF EdgeV[x] \in W THEN fl[x] ELSE -fl[x]]

\* What any nodes but the source have kept is what has come in over the edges
\* between them and the others.
FlowBalanced(ex, fl) ==
    \A W \in SUBSET (Node \ {s}) : SumOver(W, ex) = SumOver(Crossing(W), Inflow(fl, W))

\* The nodes have together what the saturated edges of the source can carry.
ExcessAccounted(ex, pend) == SumOver(Node, ex) = SumOver(Incident(s) \ pend, Cap)

\* A residual edge goes down by one at most.
Labelled(ht, fl, pend) ==
    \A x \in Edge : \A a \in {EdgeU[x], EdgeV[x]} :
        Residual(fl, a, x) > 0 /\ ~(a = s /\ x \in pend)
            => ht[a] <= ht[Other(a, x)] + 1

Preflow(ht, ex, fl, pend) ==
    /\ ht \in [Node -> Nat]
    /\ ex \in [Node -> Nat]
    /\ fl \in [Edge -> Int]
    /\ pend \in SUBSET Incident(s)
    /\ \A x \in Edge : -Cap[x] <= fl[x] /\ fl[x] <= Cap[x]
    /\ Labelled(ht, fl, pend)
    /\ ht[s] = N /\ ht[t] = 0
    /\ \A x \in pend : fl[x] = 0
    /\ pend # {} => \A a \in Node \ {s} : ht[a] = 0
    /\ FlowBalanced(ex, fl)
    /\ ExcessAccounted(ex, pend)

\* What the edges of the source can carry together.
SourceCapacity == SumOver(Incident(s), Cap)

=============================================================================
