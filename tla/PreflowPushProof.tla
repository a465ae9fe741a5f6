-------------------------- MODULE PreflowPushProof --------------------------
(***************************************************************************)
(* Proofs about PreflowPush, for every graph.                              *)
(*                                                                         *)
(* The invariant is that heights, excess, flows and pending edges are a    *)
(* preflow, as FlowGraphProof defines it: the labelling is valid because a *)
(* push goes strictly downhill and a relabel only happens when every       *)
(* residual edge goes level or uphill; the source's edges, saturated while *)
(* all other heights are 0, do not break it; and the assertions of push    *)
(* follow from the amount being the smaller of excess and residual.        *)
(***************************************************************************)
EXTENDS PreflowPush, FlowGraphProof

IInv == Preflow(h, e, f, pending)

-----------------------------------------------------------------------------

LEMMA InitIInv == Init => IInv
BY StartIsPreflow DEF Init, IInv

LEMMA SaturateIInv ==
    ASSUME IInv, NEW x \in Edge, Saturate(x)
    PROVE  IInv'
<1>1. Preflow(h, e', f', pending \ {x})
    BY SaturateKeepsPreflow DEF IInv, Saturate
<1> QED
    BY <1>1 DEF IInv, Saturate

LEMMA PushIInv ==
    ASSUME IInv, NEW a \in Inner, NEW x \in Incident(a), Push(a, x)
    PROVE  IInv'
<1>1. Preflow(h, e, f, {}) /\ a \in Node
    BY NodeFacts DEF IInv, Push
<1>2. Preflow(h, e', f', {})
    BY <1>1, PushKeepsPreflow DEF Push
<1> QED
    BY <1>2 DEF IInv, Push

LEMMA RelabelIInv ==
    ASSUME IInv, NEW a \in Inner, Relabel(a)
    PROVE  IInv'
<1>1. Preflow(h, e, f, {})
    BY DEF IInv, Relabel
<1>2. Preflow(h', e, f, {})
    BY <1>1, RelabelKeepsPreflow DEF Relabel
<1> QED
    BY <1>2 DEF IInv, Relabel

LEMMA NextIInv == IInv /\ [Next]_vars => IInv'
<1> SUFFICES ASSUME IInv, [Next]_vars PROVE IInv'
    OBVIOUS
<1>1. CASE \E x \in Edge : Saturate(x)
    BY <1>1, SaturateIInv
<1>2. CASE \E a \in Inner : \E x \in Incident(a) : Push(a, x)
    BY <1>2, PushIInv
<1>3. CASE \E a \in Inner : Relabel(a)
    BY <1>3, RelabelIInv
<1>4. CASE UNCHANGED vars
    BY <1>4 DEF vars, IInv
<1> QED
    BY <1>1, <1>2, <1>3, <1>4 DEF Next

\* Everything below follows from this one: the invariant of the algorithm.
THEOREM Invariance == Spec => []IInv
BY InitIInv, NextIInv, PTL DEF Spec

\* Heights stay natural and no node is ever left owing flow (assertions
\* d >= 0 and u->e >= 0 of push).
THEOREM TypeCorrect == Spec => []TypeOK
<1>1. IInv => TypeOK
    BY DEF IInv, Preflow, TypeOK
<1> QED
    BY <1>1, Invariance, PTL

\* No edge carries more than its capacity (assertion abs(e->f) <= e->c).
THEOREM CapacityAlwaysRespected == Spec => []CapacityRespected
<1>1. IInv => CapacityRespected
    BY DEF IInv, Preflow, CapacityRespected
<1> QED
    BY <1>1, Invariance, PTL

\* No residual edge descends by more than one.
THEOREM LabellingAlwaysValid == Spec => []ValidLabelling
<1>1. IInv => ValidLabelling
    BY DEF IInv, Preflow, Labelled, ValidLabelling
<1> QED
    BY <1>1, Invariance, PTL

\* From the last initial push on, there is always a cut between source and
\* sink that no residual edge crosses: no augmenting path exists, so the flow
\* that has reached the sink when the excess is gone cannot be improved.
THEOREM SaturatedCutAlwaysExists == Spec => []SaturatedCutExists
<1>1. IInv => SaturatedCutExists
  <2> SUFFICES ASSUME IInv, pending = {} PROVE \E S \in Cuts : SaturatedCut(S)
      BY DEF SaturatedCutExists
  <2>1. PICK S \in Cuts : Saturated(f, S)
      BY SomeCutIsSaturated DEF IInv
  <2> QED
      BY <2>1 DEF Saturated, SaturatedCut
<1> QED
    BY <1>1, Invariance, PTL

\* What preflow returns is the value of a maximum flow, the capacity of a smallest cut.
THEOREM AnswerAlwaysMaxFlow == Spec => []AnswerIsMaxFlow
<1>1. IInv => AnswerIsMaxFlow
    BY AnswerIsSmallestCut DEF IInv, Done, AnswerIsMaxFlow
<1> QED
    BY <1>1, Invariance, PTL

\* No node has more than the edges of the source can carry together.
ExcessBound == \A a \in Node : e[a] <= SourceCapacity

\* Excess and answer stay within what the edges of the source can carry together: if
\* that fits an int, no statement of push or preflow that adds to u->e, v->e or s->e
\* overflows.
THEOREM ExcessAlwaysBounded == Spec => []ExcessBound
<1>1. IInv => ExcessBound
    BY ExcessIsLimited DEF IInv, ExcessBound
<1> QED
    BY <1>1, Invariance, PTL

-----------------------------------------------------------------------------
(* The heights *)

ExcessIsLow == pending = {} => \A a \in Inner : e[a] > 0 => h[a] < 2 * N

\* Some height between N and 2N is nobody's.  If a node with excess were above that
\* gap, the nodes above it, which the source is not among, would hold excess although
\* all edges between them and the others, none of them residual, carry flow out.
LEMMA ExcessStaysLow == IInv => ExcessIsLow
<1> SUFFICES ASSUME IInv, pending = {}, NEW a \in Inner, e[a] > 0, ~(h[a] < 2 * N)
             PROVE  FALSE
    BY DEF ExcessIsLow
<1> USE DEF IInv, Preflow
<1>n. a \in Node
    BY NodeFacts
<1>0. N \in Nat /\ N >= 2 /\ a \in Node /\ h[a] \in Nat /\ h[a] >= 2 * N
    BY <1>n, SizeAssumption
<1>1. PICK k \in N + 1 .. N + N - 1 : \A c \in Node : h[c] # k
    BY HeightGap
<1> DEFINE W == {c \in Node : h[c] > k}
           X == Crossing(W)
           g == Inflow(f, W)
<1>2. /\ W \in SUBSET (Node \ {s}) /\ a \in W
      /\ \A c \in Node : c \notin W => h[c] < k
    BY <1>0, <1>1
<1>3. IsFiniteSet(W) /\ IsFiniteSet(X) /\ X \subseteq Edge
    BY <1>2, FiniteGraph
<1>4. ASSUME NEW x \in Edge, NEW c \in {EdgeU[x], EdgeV[x]}, c \in W, Other(c, x) \notin W
      PROVE  FlowFrom(f, c, x) \in Int /\ FlowFrom(f, c, x) >= 0
  <2>1. c \in Node /\ Other(c, x) \in Node
      BY EndFacts
  <2>2. h[c] > h[Other(c, x)] + 1
      BY <1>2, <1>4, <2>1
  <2>3. ~(Residual(f, c, x) > 0)
      BY <2>1, <2>2 DEF Labelled
  <2> QED
      BY <2>3, EdgeAssumption DEF Residual, FlowFrom
<1>5. ASSUME NEW x \in X PROVE g[x] \in Int /\ g[x] <= 0
  <2>1. /\ x \in Edge /\ EdgeU[x] \in Node /\ EdgeV[x] \in Node /\ EdgeU[x] # EdgeV[x]
        /\ (EdgeU[x] \in W) # (EdgeV[x] \in W) /\ f[x] \in Int
      BY <1>3, EdgeAssumption DEF Crossing
  <2>2. CASE EdgeU[x] \in W
    <3>1. Other(EdgeU[x], x) = EdgeV[x] /\ EdgeV[x] \notin W
        BY <2>1, <2>2 DEF Other
    <3>2. FlowFrom(f, EdgeU[x], x) >= 0
        BY <1>4, <2>1, <2>2, <3>1
    <3>3. g[x] = -f[x]
        BY <2>1, <3>1 DEF Inflow
    <3> HIDE DEF W, g
    <3> QED
        BY <2>1, <3>2, <3>3 DEF FlowFrom
  <2>3. CASE EdgeV[x] \in W
    <3>1. Other(EdgeV[x], x) = EdgeU[x] /\ EdgeU[x] \notin W
        BY <2>1, <2>3 DEF Other
    <3>2. FlowFrom(f, EdgeV[x], x) >= 0
        BY <1>4, <2>1, <2>3, <3>1
    <3>3. g[x] = f[x]
        BY <2>1, <2>3 DEF Inflow
    <3> HIDE DEF W, g
    <3> QED
        BY <2>1, <3>2, <3>3 DEF FlowFrom
  <2> QED
      BY <2>1, <2>2, <2>3
<1>6. SumOver(W, e) = SumOver(X, g)
    BY <1>2 DEF FlowBalanced
<1> HIDE DEF W, X, g
<1>7. SumOver(X, g) <= 0
  <2> DEFINE none == [x \in X |-> 0]
  <2>1. \A x \in X : none[x] = 0 /\ none[x] \in Int /\ g[x] \in Int /\ g[x] <= none[x]
      BY <1>5
  <2> HIDE DEF none
  <2>2. SumOver(X, none) = 0
      BY <1>3, <2>1, SumOfZeros
  <2>3. SumOver(X, g) <= SumOver(X, none)
      BY <1>3, <2>1, SumLess
  <2> QED
      BY <2>2, <2>3
<1>8. SumOver(W, e) >= e[a]
  <2> DEFINE only == [c \in W |-> IF c = a THEN e[a] ELSE 0]
  <2>1. /\ \A c \in W : only[c] \in Int /\ e[c] \in Int /\ only[c] <= e[c]
        /\ \A c \in W : c # a => only[c] = 0
        /\ only[a] = e[a]
      BY <1>2
  <2> HIDE DEF only
  <2>2. SumOver(W, only) = e[a]
      BY <1>2, <1>3, <2>1, SumOfOne
  <2>3. SumOver(W, only) <= SumOver(W, e)
      BY <1>3, <2>1, SumLess
  <2>4. SumOver(W, e) \in Int
      BY <1>3, <2>1, SumType
  <2> QED
      BY <2>2, <2>3, <2>4
<1>9. SumOver(W, e) \in Int /\ e[a] \in Int
  <2>1. \A c \in W : e[c] \in Int
      BY <1>2
  <2> QED
      BY <1>3, <1>0, <2>1, SumType
<1> QED
    BY <1>6, <1>7, <1>8, <1>9

\* No height reaches 2N: only nodes with excess are relabelled.
THEOREM HeightAlwaysBounded == Spec => []HeightBound
<1>1. Init => HeightBound
    BY SizeAssumption DEF Init, HeightBound
<1>2. HeightBound /\ IInv /\ [Next]_vars /\ IInv' /\ ExcessIsLow' => HeightBound'
  <2> SUFFICES ASSUME HeightBound, IInv, [Next]_vars, IInv', ExcessIsLow'
               PROVE  HeightBound'
      OBVIOUS
  <2>1. CASE h' = h
      BY <2>1 DEF HeightBound
  <2>2. ASSUME NEW a \in Inner, Relabel(a) PROVE HeightBound'
    <3>1. h' = [h EXCEPT ![a] = @ + 1] /\ e'[a] > 0 /\ pending' = {}
        BY <2>2 DEF Relabel
    <3>2. h'[a] < 2 * N
        BY <3>1 DEF ExcessIsLow
    <3>3. \A c \in Node : c # a => h'[c] = h[c]
        BY <3>1 DEF IInv, Preflow
    <3> QED
        BY <3>2, <3>3 DEF HeightBound
  <2> QED
      BY <2>1, <2>2 DEF Next, vars, Saturate, Push
<1> QED
    BY <1>1, <1>2, Invariance, ExcessStaysLow, PTL DEF Spec

=============================================================================
