---------------------------- MODULE PreflowPush ----------------------------
(***************************************************************************)
(* The algorithm the programs implement, with no list, thread or lock: the *)
(* source's edges are saturated one by one, and then, in any order, a node *)
(* with excess pushes along an admissible edge or, when none of its edges  *)
(* is admissible, is relabelled by one.                                    *)
(*                                                                         *)
(* Every detailed specification is shown to implement this one, so what is *)
(* proved of it here holds of all of them.  The steps are those of push,   *)
(* relabel and preflow in lab2/c/preflow.c, the sequential program kept    *)
(* beside the concurrent ones (lab0/preflow.c has the same functions).     *)
(***************************************************************************)
EXTENDS MaxFlow

VARIABLES
    h,        \* h[a], height
    e,        \* e[a], excess flow
    f,        \* f[x], flow
    pending   \* the source's edges still to be saturated

vars == <<h, e, f, pending>>

\* (A slip, see README: the source is only just above the other nodes.)
InitLow ==
    /\ h = [a \in Node |-> IF a = s THEN 1 ELSE 0]
    /\ e = [a \in Node |-> 0]
    /\ f = [x \in Edge |-> 0]
    /\ pending = Incident(s)

Init ==
    /\ h = [a \in Node |-> IF a = s THEN N ELSE 0]
    /\ e = [a \in Node |-> 0]
    /\ f = [x \in Edge |-> 0]
    /\ pending = Incident(s)

\* s->e += e->c; push(g, s, other(s, e), e).
Saturate(x) ==
    /\ x \in pending
    /\ f' = FlowAfter(f, s, x, Cap[x])
    /\ e' = [e EXCEPT ![Other(s, x)] = @ + Cap[x]]
    /\ pending' = pending \ {x}
    /\ UNCHANGED h

\* push(g, a, other(a, x), x), called for an admissible edge of a node taken
\* from the excess list.
Push(a, x) ==
    /\ pending = {}
    /\ e[a] > 0
    /\ Admissible(f, h, a, x)
    /\ LET d == Amount(f, e, a, x)
       IN  /\ f' = FlowAfter(f, a, x, d)
           /\ e' = ExcessAfter(e, a, x, d)
    /\ UNCHANGED <<h, pending>>

\* (A slip: relabelled although an edge is admissible.)
EagerRelabel(a) ==
    /\ pending = {}
    /\ e[a] > 0
    /\ h' = [h EXCEPT ![a] = @ + 1]
    /\ UNCHANGED <<e, f, pending>>

\* relabel(g, a), called when the scan found no admissible edge.
Relabel(a) ==
    /\ pending = {}
    /\ e[a] > 0
    /\ \A x \in Incident(a) : ~Admissible(f, h, a, x)
    /\ h' = [h EXCEPT ![a] = @ + 1]
    /\ UNCHANGED <<e, f, pending>>

Next ==
    \/ \E x \in Edge : Saturate(x)
    \/ \E a \in Inner : \E x \in Incident(a) : Push(a, x)
    \/ \E a \in Inner : Relabel(a)

Spec == Init /\ [][Next]_vars

\* The loop of preflow goes on as long as the excess list has a node.
FairSpec == Spec /\ WF_vars(Next)

-----------------------------------------------------------------------------

\* Only the source and the sink have excess: preflow is about to return.
Done == pending = {} /\ \A a \in Inner : e[a] = 0

\* Heights are natural and flows integer, and no node ever owes flow: the
\* assertions d >= 0 and u->e >= 0 of push.
TypeOK ==
    /\ h \in [Node -> Nat]
    /\ e \in [Node -> Nat]
    /\ f \in [Edge -> Int]
    /\ pending \in SUBSET Incident(s)

\* assert(abs(e->f) <= e->c) of push, for every edge and either direction.
CapacityRespected == \A x \in Edge : -Cap[x] <= f[x] /\ f[x] <= Cap[x]

\* A residual edge never goes down by more than one: what makes "relabel by
\* one" safe and the final preflow maximum.  The source's edges are exempt
\* until they have been saturated.
ValidLabelling ==
    \A x \in Edge : \A a \in {EdgeU[x], EdgeV[x]} :
        Residual(f, a, x) > 0 /\ ~(a = s /\ x \in pending)
            => h[a] <= h[Other(a, x)] + 1

\* The heights of the end points of a flow never change.
SourceAndSinkHeights == h[s] = N /\ h[t] = 0

\* The edges still to be saturated have not been touched.
PendingUntouched == \A x \in pending : f[x] = 0

\* Once the source's edges are saturated, some cut is crossed by no residual
\* edge: flow can reach the sink no more than it already can, so when all the
\* excess is back at the source or at the sink the flow is maximum.
SaturatedCut(S) ==
    \A x \in Edge : \A a \in {EdgeU[x], EdgeV[x]} :
        a \in S /\ Other(a, x) \notin S => Residual(f, a, x) = 0

SaturatedCutExists == pending = {} => \E S \in Cuts : SaturatedCut(S)

\* What preflow returns, g->t->e, is the value of a maximum flow.
AnswerIsMaxFlow == Done => e[t] = MaxFlowValue

\* A node with excess can always send it back, so no height reaches 2N.
HeightBound == \A a \in Node : h[a] < 2 * N

\* The loop terminates.
Termination == <>Done

=============================================================================
