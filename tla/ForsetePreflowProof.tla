------------------------- MODULE ForsetePreflowProof -------------------------
(***************************************************************************)
(* Proofs about lab0/forsete.c, for any graphs a judge may have, any       *)
(* number of calls and any heap with room for the links of one graph.      *)
(***************************************************************************)
EXTENDS ForsetePreflow, Functions, SequenceTheorems, FiniteSetTheorems, TLAPS

\* The notions of a preflow for a graph k.
G(k) == INSTANCE ValidPreflow
          WITH N <- k.n, M <- k.m, EdgeU <- k.u, EdgeV <- k.v, Cap <- k.c,
               Adj <- ListsAfter(k.n, k.m, k.u, k.v)

\* An order for the edges of each node: no lemma that is used below depends on it.
Ordered(k, a, w) ==
    /\ w \in Seq(Of(k)!Edge)
    /\ Range(w) = Of(k)!Incident(a)
    /\ IsInjective(w)

SomeOrder(k) == [a \in Of(k)!Node |-> CHOOSE w : Ordered(k, a, w)]

\* The lemmas about graphs and preflows, for the graph of the present call.
P == INSTANCE FlowGraphProof
       WITH N <- g.n, M <- g.m, EdgeU <- g.u, EdgeV <- g.v, Cap <- g.c,
            Adj <- SomeOrder(g)

-----------------------------------------------------------------------------
(* The graph of the present call.                                           *)

LEMMA InputFacts ==
    ASSUME g \in Inputs
    PROVE  /\ g.n \in Nat /\ g.n >= 2 /\ g.m \in Nat
           /\ Links \in Nat /\ 2 * g.m <= Links
           /\ g.u \in [Of(g)!Edge -> Of(g)!Node] /\ g.v \in [Of(g)!Edge -> Of(g)!Node]
           /\ g.c \in [Of(g)!Edge -> Nat]
           /\ \A x \in Of(g)!Edge : g.u[x] # g.v[x] /\ g.c[x] > 0
BY InputsAssumption DEF Of!Edge, Of!Node

\* The lemmas speak of the same things as the steps.
LEMMA SameThings ==
    /\ P!Node = Of(g)!Node /\ P!Edge = Of(g)!Edge
    /\ P!s = s /\ P!t = t /\ P!Inner = Of(g)!Inner
    /\ \A a : P!Incident(a) = Of(g)!Incident(a)
    /\ \A a, x : P!Other(a, x) = Of(g)!Other(a, x)
    /\ \A fl, a, x : P!FlowFrom(fl, a, x) = Of(g)!FlowFrom(fl, a, x)
    /\ \A fl, a, x : P!Residual(fl, a, x) = Of(g)!Residual(fl, a, x)
    /\ \A fl, ht, a, x : P!Admissible(fl, ht, a, x) = Of(g)!Admissible(fl, ht, a, x)
    /\ \A fl, ex, a, x : P!Amount(fl, ex, a, x) = Of(g)!Amount(fl, ex, a, x)
    /\ \A fl, a, x, d : P!FlowAfter(fl, a, x, d) = Of(g)!FlowAfter(fl, a, x, d)
    /\ \A ex, a, x, d : P!ExcessAfter(ex, a, x, d) = Of(g)!ExcessAfter(ex, a, x, d)
<1>1. P!Node = Of(g)!Node /\ P!Edge = Of(g)!Edge /\ P!s = s /\ P!t = t
    BY DEF P!Node, Of!Node, P!Edge, Of!Edge, P!s, s, P!t, t
<1>2. P!Inner = Of(g)!Inner
    BY <1>1 DEF P!Inner, Of!Inner, Of!s, Of!t, s, t
<1>3. \A a : P!Incident(a) = Of(g)!Incident(a)
    BY <1>1 DEF P!Incident, Of!Incident
<1>4. \A a, x : P!Other(a, x) = Of(g)!Other(a, x)
    BY DEF P!Other, Of!Other
<1>5. \A fl, a, x : P!FlowFrom(fl, a, x) = Of(g)!FlowFrom(fl, a, x)
    BY DEF P!FlowFrom, Of!FlowFrom
<1>6. \A fl, a, x : P!Residual(fl, a, x) = Of(g)!Residual(fl, a, x)
    BY <1>5 DEF P!Residual, Of!Residual
<1>7. \A fl, ht, a, x : P!Admissible(fl, ht, a, x) = Of(g)!Admissible(fl, ht, a, x)
    BY <1>4, <1>5 DEF P!Admissible, Of!Admissible
<1>8. \A j, k : P!Lesser(j, k) = Of(g)!Lesser(j, k)
    BY DEF P!Lesser, Of!Lesser
<1>9. \A fl, ex, a, x : P!Amount(fl, ex, a, x) = Of(g)!Amount(fl, ex, a, x)
    BY <1>6, <1>8 DEF P!Amount, Of!Amount
<1>10. \A fl, a, x, d : P!FlowAfter(fl, a, x, d) = Of(g)!FlowAfter(fl, a, x, d)
    BY DEF P!FlowAfter, Of!FlowAfter
<1>11. \A ex, a, x, d : P!ExcessAfter(ex, a, x, d) = Of(g)!ExcessAfter(ex, a, x, d)
    BY <1>4 DEF P!ExcessAfter, Of!ExcessAfter
<1> QED
    BY <1>1, <1>2, <1>3, <1>4, <1>5, <1>6, <1>7, <1>9, <1>10, <1>11

LEMMA SameAnswer == P!MaxFlowValue = Of(g)!MaxFlowValue
<1>1. P!Cuts = Of(g)!Cuts
    BY SameThings DEF P!Cuts, Of!Cuts, Of!s, Of!t, s, t
<1>2. \A S : P!Crossing(S) = Of(g)!Crossing(S)
    BY SameThings DEF P!Crossing, Of!Crossing
<1>3. \A S, q : P!SumOver(S, q) = Of(g)!SumOver(S, q)
    BY DEF P!SumOver, Of!SumOver, P!Sets!MapThenSumSet, Of!Sets!MapThenSumSet,
           P!Sets!MapThenFoldSet, Of!Sets!MapThenFoldSet
<1> QED
    BY <1>1, <1>2, <1>3, Zenon DEF P!MaxFlowValue, Of!MaxFlowValue, P!Sets!Min, Of!Sets!Min

LEMMA SamePreflow ==
    \A ht, ex, fl, pend : P!Preflow(ht, ex, fl, pend) <=> G(g)!Preflow(ht, ex, fl, pend)
<1>1. /\ P!Node = G(g)!Node /\ P!Edge = G(g)!Edge
      /\ P!s = G(g)!s /\ P!t = G(g)!t
    BY DEF P!Node, G!Node, P!Edge, G!Edge, P!s, G!s, P!t, G!t
<1>2. \A a : P!Incident(a) = G(g)!Incident(a)
    BY <1>1 DEF P!Incident, G!Incident
<1>3. \A a, x : P!Other(a, x) = G(g)!Other(a, x)
    BY DEF P!Other, G!Other
<1>4. \A fl, a, x : P!FlowFrom(fl, a, x) = G(g)!FlowFrom(fl, a, x)
    BY DEF P!FlowFrom, G!FlowFrom
<1>5. \A fl, a, x : P!Residual(fl, a, x) = G(g)!Residual(fl, a, x)
    BY <1>4 DEF P!Residual, G!Residual
<1>6. \A ht, fl, pend : P!Labelled(ht, fl, pend) = G(g)!Labelled(ht, fl, pend)
    BY <1>1, <1>3, <1>5 DEF P!Labelled, G!Labelled
<1>7. \A S : P!Crossing(S) = G(g)!Crossing(S)
    BY <1>1 DEF P!Crossing, G!Crossing
<1>8. \A S, q : P!SumOver(S, q) = G(g)!SumOver(S, q)
    BY DEF P!SumOver, G!SumOver, P!Sets!MapThenSumSet, G!Sets!MapThenSumSet,
           P!Sets!MapThenFoldSet, G!Sets!MapThenFoldSet
<1>9. \A fl, W : P!Inflow(fl, W) = G(g)!Inflow(fl, W)
    BY <1>1 DEF P!Inflow, G!Inflow
<1>10. \A ex, fl : P!FlowBalanced(ex, fl) = G(g)!FlowBalanced(ex, fl)
    BY <1>1, <1>7, <1>8, <1>9, Zenon DEF P!FlowBalanced, G!FlowBalanced
<1>11. P!Incident(P!s) = G(g)!Incident(G(g)!s)
    BY <1>1, <1>2
<1>12. \A ex, pend : P!ExcessAccounted(ex, pend) = G(g)!ExcessAccounted(ex, pend)
    BY <1>1, <1>8, <1>11, Zenon DEF P!ExcessAccounted, G!ExcessAccounted
<1> QED
    BY <1>1, <1>6, <1>10, <1>11, <1>12 DEF P!Preflow, G!Preflow

LEMMA SameLimit == P!SourceCapacity = G(g)!SourceCapacity
<1>1. P!Incident(P!s) = G(g)!Incident(G(g)!s)
    BY DEF P!Incident, G!Incident, P!Edge, G!Edge, P!s, G!s
<1>2. \A S, q : P!SumOver(S, q) = G(g)!SumOver(S, q)
    BY DEF P!SumOver, G!SumOver, P!Sets!MapThenSumSet, G!Sets!MapThenSumSet,
           P!Sets!MapThenFoldSet, G!Sets!MapThenFoldSet
<1> QED
    BY <1>1, <1>2, Zenon DEF P!SourceCapacity, G!SourceCapacity

LEMMA OrderExists ==
    ASSUME g \in Inputs, NEW a \in Of(g)!Node
    PROVE  Ordered(g, a, SomeOrder(g)[a])
<1> DEFINE S == Of(g)!Incident(a)
           n == Cardinality(S)
<1>1. g.m \in Nat /\ S \subseteq Of(g)!Edge
    BY InputFacts DEF Of!Incident
<1>2. IsFiniteSet(Of(g)!Edge)
    BY <1>1, FS_Interval DEF Of!Edge
<1>3. IsFiniteSet(S)
    BY <1>1, <1>2, FS_Subset
<1> HIDE DEF S
<1>4. n \in Nat /\ ExistsBijection(1 .. n, S)
    BY <1>3, FS_CardinalityType
<1> HIDE DEF n
<1>5. PICK w \in Bijection(1 .. n, S) : TRUE
    BY <1>4 DEF ExistsBijection
<1>6. w \in Seq(Of(g)!Edge) /\ Range(w) = S /\ IsInjective(w)
  <2>1. w \in [1 .. n -> S] /\ Range(w) = S
      BY <1>5 DEF Bijection, Injection, Surjection, Range
  <2>2. IsInjective(w)
      BY <1>5 DEF Bijection, Injection, IsInjective
  <2>3. w \in [1 .. n -> Of(g)!Edge]
      BY <2>1, <1>1
  <2> QED
      BY <2>1, <2>2, <2>3, <1>4, SeqDef
<1>7. Ordered(g, a, w)
    BY <1>6 DEF Ordered, S
<1> QED
    BY <1>7, Zenon DEF SomeOrder

\* What the lemmas ask of a graph.
LEMMA GraphAssumptions ==
    ASSUME g \in Inputs
    PROVE  P!SizeAssumption /\ P!EdgeAssumption /\ P!AdjAssumption
<1>1. P!SizeAssumption
    BY InputFacts DEF P!SizeAssumption
<1>2. P!EdgeAssumption
    BY InputFacts, SameThings DEF P!EdgeAssumption
<1>3. P!AdjAssumption
  <2>1. SomeOrder(g) \in [P!Node -> Seq(P!Edge)]
      BY OrderExists, SameThings DEF SomeOrder, Ordered
  <2>2. ASSUME NEW a \in P!Node
        PROVE  /\ \A j \in 1 .. Len(SomeOrder(g)[a]) : SomeOrder(g)[a][j] \in P!Incident(a)
               /\ \A x \in P!Incident(a) :
                    \E j \in 1 .. Len(SomeOrder(g)[a]) : SomeOrder(g)[a][j] = x
               /\ \A j, k \in 1 .. Len(SomeOrder(g)[a]) :
                    SomeOrder(g)[a][j] = SomeOrder(g)[a][k] => j = k
    <3> DEFINE w == SomeOrder(g)[a]
    <3>1. w \in Seq(Of(g)!Edge) /\ Range(w) = P!Incident(a) /\ IsInjective(w)
        BY <2>2, OrderExists, SameThings DEF Ordered
    <3>2. DOMAIN w = 1 .. Len(w)
        BY <3>1, LenProperties
    <3> HIDE DEF w
    <3>3. /\ \A j \in 1 .. Len(w) : w[j] \in P!Incident(a)
          /\ \A x \in P!Incident(a) : \E j \in 1 .. Len(w) : w[j] = x
          /\ \A j, k \in 1 .. Len(w) : w[j] = w[k] => j = k
        BY <3>1, <3>2 DEF Range, IsInjective
    <3> QED
        BY <3>3 DEF w
  <2> QED
      BY <2>1, <2>2 DEF P!AdjAssumption
<1> QED
    BY <1>1, <1>2, <1>3

\* Types and bounds.
LEMMA PreflowFacts ==
    ASSUME g \in Inputs, NEW ht, NEW ex, NEW fl, NEW pend, G(g)!Preflow(ht, ex, fl, pend)
    PROVE  /\ ht \in [Of(g)!Node -> Nat]
           /\ ex \in [Of(g)!Node -> Nat]
           /\ fl \in [Of(g)!Edge -> Int]
           /\ pend \subseteq Of(g)!Incident(s)
           /\ \A x \in pend : fl[x] = 0
<1>1. P!Preflow(ht, ex, fl, pend)
    BY SamePreflow
<1> QED
    BY <1>1, SameThings DEF P!Preflow

LEMMA GraphFacts ==
    ASSUME g \in Inputs
    PROVE  /\ s \in Of(g)!Node /\ t \in Of(g)!Node /\ s # t /\ s = 0
           /\ \A a : a \in Of(g)!Inner <=> a \in Of(g)!Node /\ a \notin {s, t}
           /\ NoNode \notin Of(g)!Node
           /\ Of(g)!Node \subseteq Int
           /\ Of(g)!Node = 0 .. g.n - 1
           /\ Of(g)!Edge = 1 .. g.m
           /\ \A a : Of(g)!Incident(a) \subseteq Of(g)!Edge
           /\ \A a \in Of(g)!Node : \A x \in Of(g)!Incident(a) :
                /\ Of(g)!Other(a, x) \in Of(g)!Node /\ Of(g)!Other(a, x) # a
           /\ \A x \in Of(g)!Edge : \A a : x \in Of(g)!Incident(a) <=> a \in {g.u[x], g.v[x]}
<1>1. /\ g.n \in Nat /\ g.n >= 2 /\ g.m \in Nat
      /\ g.u \in [Of(g)!Edge -> Of(g)!Node] /\ g.v \in [Of(g)!Edge -> Of(g)!Node]
      /\ \A x \in Of(g)!Edge : g.u[x] # g.v[x]
    BY InputFacts
<1>2. Of(g)!Node = 0 .. g.n - 1 /\ Of(g)!Edge = 1 .. g.m
    BY DEF Of!Node, Of!Edge
<1>3. \A a : a \in Of(g)!Inner <=> a \in Of(g)!Node /\ a \notin {s, t}
    BY DEF Of!Inner, Of!s, Of!t, s, t
<1>4. /\ \A a : Of(g)!Incident(a) \subseteq Of(g)!Edge
      /\ \A x \in Of(g)!Edge : \A a : x \in Of(g)!Incident(a) <=> a \in {g.u[x], g.v[x]}
    BY DEF Of!Incident
<1>5. ASSUME NEW a \in Of(g)!Node, NEW x \in Of(g)!Incident(a)
      PROVE  Of(g)!Other(a, x) \in Of(g)!Node /\ Of(g)!Other(a, x) # a
  <2>1. x \in Of(g)!Edge /\ a \in {g.u[x], g.v[x]}
      BY <1>4
  <2> QED
      BY <2>1, <1>1 DEF Of!Other
<1>6. s \in Of(g)!Node /\ t \in Of(g)!Node /\ s # t /\ s = 0 /\ NoNode \notin Of(g)!Node
      /\ Of(g)!Node \subseteq Int
    BY <1>1, <1>2 DEF s, t, NoNode
<1> QED
    BY <1>2, <1>3, <1>4, <1>5, <1>6

\* The graph with its source risen.
LEMMA RisenIsPreflow ==
    ASSUME g \in Inputs, NEW ht, ht = [Zeroed(Of(g)!Node) EXCEPT ![s] = g.n]
    PROVE  G(g)!Preflow(ht, Zeroed(Of(g)!Node), Zeroed(Of(g)!Edge), Of(g)!Incident(s))
<1> DEFINE ex == [a \in P!Node |-> 0]
           fl == [x \in P!Edge |-> 0]
<1>1. ht = [a \in P!Node |-> IF a = P!s THEN g.n ELSE 0]
    BY SameThings, GraphFacts DEF Zeroed
<1>2. Zeroed(Of(g)!Node) = ex /\ Zeroed(Of(g)!Edge) = fl
    BY SameThings DEF Zeroed
<1>3. P!Incident(P!s) = Of(g)!Incident(s)
    BY SameThings
<1> HIDE DEF ex, fl
<1>4. P!Preflow(ht, ex, fl, P!Incident(P!s))
    BY <1>1, GraphAssumptions, P!StartIsPreflow, Zenon DEF ex, fl
<1> QED
    BY <1>2, <1>3, <1>4, SamePreflow

\* The first push along an edge of the source saturates it.
LEMMA FirstPush ==
    ASSUME g \in Inputs, NEW ht, NEW ex, NEW fl, NEW pend, NEW x \in pend,
           G(g)!Preflow(ht, ex, fl, pend),
           NEW raised \in [Of(g)!Node -> Nat], raised[s] = ex[s] + g.c[x],
           \A a \in Of(g)!Node : a # s => raised[a] = ex[a],
           NEW d, d = Of(g)!Amount(fl, raised, s, x),
           NEW fl2, fl2 = Of(g)!FlowAfter(fl, s, x, d),
           NEW ex2, ex2 = Of(g)!ExcessAfter(raised, s, x, d)
    PROVE  /\ G(g)!Preflow(ht, ex2, fl2, pend \ {x})
           /\ d \in Nat /\ d > 0
           /\ ex2[Of(g)!Other(s, x)] = ex[Of(g)!Other(s, x)] + d
           /\ \A a \in Of(g)!Inner : a # Of(g)!Other(s, x) => ex2[a] = ex[a]
<1> DEFINE b == Of(g)!Other(s, x)
<1>1. /\ ex \in [Of(g)!Node -> Nat] /\ fl \in [Of(g)!Edge -> Int]
      /\ x \in Of(g)!Incident(s) /\ x \in Of(g)!Edge /\ fl[x] = 0
    BY PreflowFacts, GraphFacts
<1>2. g.c[x] \in Nat /\ g.c[x] > 0
    BY <1>1, InputFacts
<1>3. s \in Of(g)!Node /\ b \in Of(g)!Node /\ b # s
    BY <1>1, GraphFacts
<1>4. raised[s] = ex[s] + g.c[x] /\ ex[s] \in Nat
    BY <1>1, <1>3
<1>5. d = g.c[x]
  <2>0. -fl[x] = 0
    <3>1. \A j \in Int : j <= 0 /\ 0 <= j => -j = 0
        OBVIOUS
    <3>2. fl[x] \in Int /\ fl[x] <= 0 /\ 0 <= fl[x]
        BY <1>1
    <3> QED
        BY <3>1, <3>2, Zenon
  <2>1. Of(g)!FlowFrom(fl, s, x) = 0
      BY <1>1, <2>0, Zenon DEF Of!FlowFrom
  <2>2. Of(g)!Residual(fl, s, x) = g.c[x]
      BY <2>1, <1>2 DEF Of!Residual
  <2>3. d = Of(g)!Lesser(raised[s], g.c[x])
      BY <2>2 DEF Of!Amount
  <2>4. ~(raised[s] < g.c[x])
      BY <1>2, <1>4
  <2> QED
      BY <2>3, <2>4, Zenon DEF Of!Lesser
<1>6. ex2 = [raised EXCEPT ![s] = @ - d, ![b] = @ + d]
    BY DEF Of!ExcessAfter
<1> HIDE DEF b
<1>7. ex2 = [ex EXCEPT ![b] = @ + g.c[x]]
  <2>1. /\ raised \in [Of(g)!Node -> Nat]
        /\ \A a \in Of(g)!Node : a # s => raised[a] = ex[a]
      OBVIOUS
  <2>2. raised[s] - g.c[x] = ex[s]
      BY <1>2, <1>4
  <2>3. ex2 = [raised EXCEPT ![s] = ex[s], ![b] = ex[b] + g.c[x]]
      BY <2>1, <2>2, <1>3, <1>5, <1>6
  <2> QED
      BY <2>1, <2>3, <1>1, <1>3
<1>8. P!Preflow(ht, ex, fl, pend)
    BY SamePreflow
<1>9. fl2 = P!FlowAfter(fl, P!s, x, g.c[x]) /\ b = P!Other(P!s, x)
    BY <1>5, SameThings DEF b
<1>10. P!Preflow(ht, ex2, fl2, pend \ {x})
    BY <1>7, <1>8, <1>9, GraphAssumptions, P!SaturateKeepsPreflow
<1>11. G(g)!Preflow(ht, ex2, fl2, pend \ {x})
    BY <1>10, SamePreflow
<1>12. \A a \in Of(g)!Inner : a \in Of(g)!Node
    BY GraphFacts
<1>13. ex2[b] = ex[b] + d /\ \A a \in Of(g)!Inner : a # b => ex2[a] = ex[a]
    BY <1>1, <1>3, <1>5, <1>7, <1>12
<1> QED
    BY <1>2, <1>5, <1>11, <1>13 DEF b

\* A push from a node with excess along an admissible edge.
LEMMA LaterPush ==
    ASSUME g \in Inputs, NEW ht, NEW ex, NEW fl, G(g)!Preflow(ht, ex, fl, {}),
           NEW a \in Of(g)!Node, NEW x \in Of(g)!Incident(a), ex[a] > 0,
           Of(g)!Admissible(fl, ht, a, x),
           NEW d, d = Of(g)!Amount(fl, ex, a, x),
           NEW fl2, fl2 = Of(g)!FlowAfter(fl, a, x, d),
           NEW ex2, ex2 = Of(g)!ExcessAfter(ex, a, x, d)
    PROVE  /\ G(g)!Preflow(ht, ex2, fl2, {})
           /\ d \in Nat /\ d > 0
           /\ ex2[a] = ex[a] - d
           /\ ex2[Of(g)!Other(a, x)] = ex[Of(g)!Other(a, x)] + d
           /\ \A c \in Of(g)!Inner : c \notin {a, Of(g)!Other(a, x)} => ex2[c] = ex[c]
<1> DEFINE b == Of(g)!Other(a, x)
<1>1. /\ ex \in [Of(g)!Node -> Nat] /\ fl \in [Of(g)!Edge -> Int]
      /\ x \in Of(g)!Edge
    BY PreflowFacts, GraphFacts
<1>2. b \in Of(g)!Node /\ b # a /\ a \in P!Node /\ x \in P!Incident(a)
    BY GraphFacts, SameThings
<1>3. P!Preflow(ht, ex, fl, {}) /\ P!Admissible(fl, ht, a, x)
    BY SamePreflow, SameThings
<1>4. d = P!Amount(fl, ex, a, x)
    BY SameThings
<1>5. /\ fl2 = P!FlowAfter(fl, a, x, P!Amount(fl, ex, a, x))
      /\ ex2 = P!ExcessAfter(ex, a, x, P!Amount(fl, ex, a, x))
    BY <1>4, SameThings
<1>6. P!Preflow(ht, ex2, fl2, {})
    BY <1>2, <1>3, <1>5, GraphAssumptions, P!PushKeepsPreflow
<1>7. P!FlowFrom(fl, a, x) < g.c[x] /\ ex \in [P!Node -> Nat] /\ fl \in [P!Edge -> Int]
    BY <1>1, <1>3, SameThings DEF P!Admissible
<1>8. d \in Nat /\ d > 0
  <2>1. a \in P!Node /\ ex[a] > 0
      BY <1>2
  <2>2. /\ P!Amount(fl, ex, a, x) \in Nat
        /\ ex[a] > 0 => P!Amount(fl, ex, a, x) > 0
      BY <1>2, <1>7, GraphAssumptions, P!AmountFacts
  <2> QED
      BY <1>4, <2>1, <2>2
<1>9. ex2 = [ex EXCEPT ![a] = @ - d, ![b] = @ + d]
    BY DEF Of!ExcessAfter
<1>10. \A c \in Of(g)!Inner : c \in Of(g)!Node
    BY GraphFacts
<1> HIDE DEF b
<1>11. /\ ex2[a] = ex[a] - d /\ ex2[b] = ex[b] + d
       /\ \A c \in Of(g)!Inner : c \notin {a, b} => ex2[c] = ex[c]
    BY <1>1, <1>2, <1>9, <1>10
<1> QED
    BY <1>6, <1>8, <1>11, SamePreflow DEF b

LEMMA RelabelIsPreflow ==
    ASSUME g \in Inputs, NEW ht, NEW ex, NEW fl, G(g)!Preflow(ht, ex, fl, {}),
           NEW a \in Of(g)!Inner,
           \A x \in Of(g)!Incident(a) : ~Of(g)!Admissible(fl, ht, a, x)
    PROVE  G(g)!Preflow([ht EXCEPT ![a] = @ + 1], ex, fl, {})
<1>1. P!Preflow(ht, ex, fl, {}) /\ a \in P!Inner
    BY SamePreflow, SameThings
<1>2. \A x \in P!Incident(a) : ~P!Admissible(fl, ht, a, x)
    BY SameThings
<1> DEFINE ht2 == [ht EXCEPT ![a] = @ + 1]
<1> HIDE DEF ht2
<1>3. P!Preflow(ht2, ex, fl, {})
    BY <1>1, <1>2, GraphAssumptions, P!RelabelKeepsPreflow DEF ht2
<1> QED
    BY <1>3, SamePreflow DEF ht2

LEMMA FinalPreflow ==
    ASSUME g \in Inputs, NEW ht, NEW ex, NEW fl, G(g)!Preflow(ht, ex, fl, {}),
           \A a \in Of(g)!Inner : ex[a] = 0
    PROVE  ex[t] = Of(g)!MaxFlowValue
<1>1. P!Preflow(ht, ex, fl, {}) /\ \A a \in P!Inner : ex[a] = 0
    BY SamePreflow, SameThings
<1>2. ex[P!t] = P!MaxFlowValue
    BY <1>1, GraphAssumptions, P!AnswerIsSmallestCut
<1> QED
    BY <1>2, SameThings, SameAnswer

-----------------------------------------------------------------------------
(* The list of nodes with excess: the pointers as a sequence.               *)

\* What comes at place j of q, or the end.
Entry(q, j) == IF j <= Len(q) THEN q[j] ELSE NoNode

\* The next pointers from list.first run through q.
Linked(k, list, q) ==
    /\ list = [first |-> list.first, next |-> list.next]
    /\ list.next \in [Of(k)!Node -> Of(k)!Node \cup {NoNode}]
    /\ q \in Seq(Of(k)!Inner) /\ IsInjective(q)
    /\ list.first = Entry(q, 1)
    /\ \A j \in 1 .. Len(q) : list.next[q[j]] = Entry(q, j + 1)

\* The list has the nodes of S, each once.
ListOf(k, list, S) == \E q : Linked(k, list, q) /\ Range(q) = S

\* The inner nodes with excess.
Excessive(k, ex) == {a \in Of(k)!Inner : ex[a] > 0}

LEMMA EmptyLinked ==
    ASSUME g \in Inputs
    PROVE  ListOf(g, [first |-> NoNode, next |-> [a \in Of(g)!Node |-> NoNode]], {})
<1> DEFINE list == [first |-> NoNode, next |-> [a \in Of(g)!Node |-> NoNode]]
<1>1. /\ << >> \in Seq(Of(g)!Inner) /\ IsInjective(<< >>) /\ Range(<< >>) = {}
    BY EmptySeq DEF Range, IsInjective
<1>2. Len(<< >>) = 0
    BY EmptySeq
<1>3. /\ list = [first |-> list.first, next |-> list.next]
      /\ list.next \in [Of(g)!Node -> Of(g)!Node \cup {NoNode}]
      /\ list.first = NoNode
    OBVIOUS
<1> HIDE DEF list
<1>4. Linked(g, list, << >>)
    BY <1>1, <1>2, <1>3 DEF Linked, Entry
<1> QED
    BY <1>1, <1>4, Zenon DEF ListOf, list

\* The sequences of inner nodes, without the names of the graph's lemmas.
LEMMA SequenceFacts ==
    ASSUME g \in Inputs, NEW q \in Seq(Of(g)!Inner)
    PROVE  /\ Len(q) \in Nat /\ DOMAIN q = 1 .. Len(q)
           /\ Range(q) \subseteq Of(g)!Inner
           /\ \A j \in 1 .. Len(q) : q[j] \in Of(g)!Inner /\ q[j] \in Range(q)
BY LenProperties DEF Range

LEMMA SameLists ==
    \A q : P!Range(q) = Range(q) /\ (P!IsInjective(q) <=> IsInjective(q))
BY DEF P!Range, Range, P!IsInjective, IsInjective

\* enter_excess of a node that is not on the list.
LEMMA EnterInFront ==
    ASSUME g \in Inputs, NEW list, NEW S, ListOf(g, list, S),
           NEW a \in Of(g)!Inner, a \notin S
    PROVE  ListOf(g, Entered(list, a), S \cup {a})
<1>1. PICK q : Linked(g, list, q) /\ Range(q) = S
    BY DEF ListOf
<1> DEFINE new == <<a>> \o q
           made == Entered(list, a)
<1>2. q \in Seq(Of(g)!Inner) /\ IsInjective(q) /\ a \notin Range(q)
    BY <1>1 DEF Linked
<1>3. /\ Len(q) \in Nat /\ DOMAIN q = 1 .. Len(q)
      /\ \A j \in 1 .. Len(q) : q[j] \in Of(g)!Inner /\ q[j] \in Range(q)
    BY <1>2, SequenceFacts
<1>4. /\ new \in Seq(Of(g)!Inner) /\ IsInjective(new) /\ Range(new) = Range(q) \cup {a}
  <2>1. q \in Seq(P!Inner) /\ a \in P!Inner
      BY <1>2, SameThings
  <2>2. new \in Seq(P!Inner) /\ IsInjective(new) /\ Range(new) = Range(q) \cup {a}
    <3>1. P!IsInjective(q) /\ a \notin P!Range(q)
        BY <1>2, SameLists
    <3>2. /\ new \in Seq(P!Inner) /\ P!IsInjective(new)
          /\ P!Range(new) = P!Range(q) \cup {a}
        BY <2>1, <3>1, GraphAssumptions, P!FrontFacts
    <3> QED
        BY <3>2, SameLists
  <2> QED
      BY <2>2, SameThings
<1>5. /\ Len(new) = Len(q) + 1 /\ new[1] = a
      /\ \A j \in 1 .. Len(q) : new[j + 1] = q[j]
  <2>1. <<a>> \in Seq(Of(g)!Inner) /\ Len(<<a>>) = 1 /\ <<a>>[1] = a
      OBVIOUS
  <2> QED
      BY <2>1, <1>2, <1>3, ConcatProperties
<1> HIDE DEF new
<1>6. a \in Of(g)!Node /\ a \notin {s, t} /\ Of(g)!Inner \subseteq Of(g)!Node
    BY GraphFacts
<1>7. made = [first |-> a, next |-> [list.next EXCEPT ![a] = list.first]]
    BY <1>6 DEF Entered
<1>8. /\ list.first = Entry(q, 1)
      /\ list.next \in [Of(g)!Node -> Of(g)!Node \cup {NoNode}]
      /\ \A j \in 1 .. Len(q) : list.next[q[j]] = Entry(q, j + 1)
    BY <1>1 DEF Linked
<1>9. list.first \in Of(g)!Node \cup {NoNode}
    BY <1>3, <1>6, <1>8 DEF Entry
<1>10. /\ made = [first |-> made.first, next |-> made.next]
       /\ made.first = a
       /\ made.next = [list.next EXCEPT ![a] = list.first]
    BY <1>7
<1> HIDE DEF made
<1>11. /\ made.next \in [Of(g)!Node -> Of(g)!Node \cup {NoNode}]
       /\ made.next[a] = list.first
       /\ \A c \in Of(g)!Node : c # a => made.next[c] = list.next[c]
    BY <1>6, <1>8, <1>9, <1>10
<1>12. \A j \in 0 .. Len(q) : Entry(new, j + 2) = Entry(q, j + 1)
  <2> SUFFICES ASSUME NEW j \in 0 .. Len(q) PROVE Entry(new, j + 2) = Entry(q, j + 1)
      OBVIOUS
  <2>1. CASE j = Len(q)
      BY <2>1, <1>3, <1>5 DEF Entry
  <2>2. CASE j # Len(q)
    <3>1. Len(q) \in Nat
        BY <1>3
    <3>2. j \in Int /\ 0 <= j /\ j < Len(q)
        BY <2>2, <3>1
    <3>3. j + 1 \in 1 .. Len(q) /\ (j + 1) + 1 = j + 2 /\ j + 2 <= Len(q) + 1
        BY <3>2, <3>1
    <3>4. new[(j + 1) + 1] = q[j + 1]
        BY <3>3, <1>5
    <3>5. new[j + 2] = q[j + 1]
        BY <3>3, <3>4
    <3> QED
        BY <3>3, <3>5, <1>3, <1>5 DEF Entry
  <2> QED
      BY <2>1, <2>2
<1>13. made.first = Entry(new, 1)
    BY <1>3, <1>5, <1>10 DEF Entry
<1>14. \A j \in 1 .. Len(new) : made.next[new[j]] = Entry(new, j + 1)
  <2> SUFFICES ASSUME NEW j \in 1 .. Len(q) + 1
               PROVE  made.next[new[j]] = Entry(new, j + 1)
      BY <1>5
  <2>1. CASE j = 1
    <3>1. 0 \in 0 .. Len(q) /\ 0 + 2 = j + 1 /\ 0 + 1 = 1
        BY <2>1, <1>3
    <3>2. Entry(new, 0 + 2) = Entry(q, 0 + 1)
        BY <3>1, <1>12
    <3> QED
        BY <2>1, <3>1, <3>2, <1>5, <1>8, <1>11
  <2>2. CASE j # 1
    <3>1. j - 1 \in 1 .. Len(q) /\ j - 1 \in 0 .. Len(q) /\ (j - 1) + 1 = j
          /\ (j - 1) + 2 = j + 1
        BY <2>2, <1>3
    <3>2. new[j] = q[j - 1]
        BY <3>1, <1>5
    <3>3. q[j - 1] \in Of(g)!Node /\ q[j - 1] # a
        BY <3>1, <1>2, <1>3, <1>6
    <3>4. made.next[q[j - 1]] = Entry(q, (j - 1) + 1)
        BY <3>1, <3>3, <1>8, <1>11
    <3>5. Entry(new, (j - 1) + 2) = Entry(q, (j - 1) + 1)
        BY <3>1, <1>12
    <3> QED
        BY <3>1, <3>2, <3>4, <3>5
  <2> QED
      BY <2>1, <2>2
<1>15. Linked(g, made, new)
    BY <1>4, <1>10, <1>11, <1>13, <1>14 DEF Linked
<1>16. Range(new) = S \cup {a}
    BY <1>1, <1>4
<1> QED
    BY <1>15, <1>16, Zenon DEF ListOf, made

\* leave_excess of the first node.
LEMMA LeaveFront ==
    ASSUME g \in Inputs, NEW list, NEW S, ListOf(g, list, S)
    PROVE  /\ list.first = NoNode <=> S = {}
           /\ list.first # NoNode =>
                /\ list.first \in Of(g)!Inner /\ list.first \in S
                /\ ListOf(g, [list EXCEPT !.first = list.next[@]], S \ {list.first})
<1>1. PICK q : Linked(g, list, q) /\ Range(q) = S
    BY DEF ListOf
<1>2. /\ q \in Seq(Of(g)!Inner) /\ IsInjective(q)
      /\ list = [first |-> list.first, next |-> list.next]
      /\ list.next \in [Of(g)!Node -> Of(g)!Node \cup {NoNode}]
      /\ list.first = Entry(q, 1)
      /\ \A j \in 1 .. Len(q) : list.next[q[j]] = Entry(q, j + 1)
    BY <1>1 DEF Linked
<1>3. /\ Len(q) \in Nat /\ DOMAIN q = 1 .. Len(q)
      /\ \A j \in 1 .. Len(q) : q[j] \in Of(g)!Inner /\ q[j] \in Range(q)
    BY <1>2, SequenceFacts
<1>4. CASE q = << >>
  <2>1. Len(q) = 0 /\ Range(q) = {}
      BY <1>4, EmptySeq DEF Range
  <2>2. list.first = NoNode
      BY <1>2, <2>1 DEF Entry
  <2> QED
      BY <2>1, <2>2, <1>1
<1>5. CASE q # << >>
  <2>1. Len(q) > 0 /\ Len(q) # 0
      BY <1>2, <1>3, <1>5, EmptySeq
  <2>2. list.first = q[1] /\ 1 \in 1 .. Len(q)
      BY <2>1, <1>2, <1>3 DEF Entry
  <2>3. list.first \in Of(g)!Inner /\ list.first \in S /\ list.first # NoNode
      BY <2>2, <1>1, <1>3, GraphFacts
  <2> DEFINE new == Tail(q)
             made == [list EXCEPT !.first = list.next[@]]
  <2>4. /\ new \in Seq(Of(g)!Inner)
        /\ Range(new) = Range(q) \ {Head(q)}
        /\ IsInjective(new)
    <3>1. q \in Seq(P!Inner)
        BY <1>2, SameThings
    <3>2. /\ new \in Seq(P!Inner)
          /\ Range(new) = Range(q) \ {Head(q)}
          /\ IsInjective(new)
      <4>1. P!IsInjective(q)
          BY <1>2, SameLists
      <4>2. /\ new \in Seq(P!Inner)
            /\ P!Range(new) = P!Range(q) \ {Head(q)}
            /\ P!IsInjective(new)
          BY <3>1, <4>1, <1>5, GraphAssumptions, P!LeaveFacts
      <4> QED
          BY <4>2, SameLists
    <3> QED
        BY <3>2, SameThings
  <2>5. /\ Head(q) = q[1] /\ Len(new) = Len(q) - 1
        /\ \A j \in 1 .. Len(new) : new[j] = q[j + 1]
      BY <1>2, <1>5, HeadTailProperties
  <2> HIDE DEF new
  <2>6. \A j \in 1 .. Len(q) : Entry(new, j) = Entry(q, j + 1)
      BY <2>5, <1>3 DEF Entry
  <2>7. list.next[q[1]] = Entry(q, 1 + 1)
      BY <2>2, <1>2
  <2>8. /\ made = [first |-> made.first, next |-> made.next]
        /\ made.first = list.next[q[1]]
        /\ made.next = list.next
    <3>1. made = [first |-> list.next[list.first], next |-> list.next]
        BY <1>2
    <3> QED
        BY <3>1, <2>2
  <2> HIDE DEF made
  <2>9. made.first = Entry(new, 1)
      BY <2>2, <2>6, <2>7, <2>8
  <2>10. \A j \in 1 .. Len(new) : made.next[new[j]] = Entry(new, j + 1)
    <3> SUFFICES ASSUME NEW j \in 1 .. Len(q) - 1
                 PROVE  made.next[new[j]] = Entry(new, j + 1)
        BY <2>5
    <3>1. j \in 1 .. Len(new) /\ j + 1 \in 1 .. Len(q)
        BY <2>5, <1>3
    <3>2. new[j] = q[j + 1] /\ list.next[q[j + 1]] = Entry(q, (j + 1) + 1)
          /\ Entry(new, j + 1) = Entry(q, (j + 1) + 1)
        BY <3>1, <2>5, <2>6, <1>2
    <3> QED
        BY <3>2, <2>8
  <2>11. Linked(g, made, new)
      BY <2>4, <2>8, <2>9, <2>10, <1>2 DEF Linked
  <2>12. Range(new) = S \ {list.first}
      BY <2>2, <2>4, <2>5, <1>1
  <2>13. ListOf(g, made, S \ {list.first})
      BY <2>11, <2>12, Zenon DEF ListOf
  <2> QED
      BY <2>3, <2>13 DEF made
<1> QED
    BY <1>4, <1>5

\* The two enter_excess of a push: the node that pushed comes back when it has excess
\* left, and the other joins when it had none.
LEMMA PushedList ==
    ASSUME g \in Inputs, NEW list, NEW ex \in [Of(g)!Node -> Nat],
           NEW a \in Of(g)!Node, ListOf(g, list, Excessive(g, ex) \ {a}),
           NEW b \in Of(g)!Node, a # b, NEW d \in Nat, d > 0,
           NEW ex2, ex2[b] = ex[b] + d,
           \A c \in Of(g)!Inner : c \notin {a, b} => ex2[c] = ex[c]
    PROVE  ListOf(g, EnteredIfNew(IF ex2[a] > 0 THEN Entered(list, a) ELSE list, ex2, b, d),
                  Excessive(g, ex2))
<1> DEFINE S == Excessive(g, ex)
           mid == IF ex2[a] > 0 THEN Entered(list, a) ELSE list
           S1 == {c \in Of(g)!Inner : c # b /\ ex2[c] > 0}
           S2 == IF b \in Of(g)!Inner /\ ex[b] > 0 THEN S1 \cup {b} ELSE S1
<1>1. \A c : c \in Of(g)!Inner <=> c \in Of(g)!Node /\ c \notin {s, t}
    BY GraphFacts
<1>2. a \notin S \ {a}
    OBVIOUS
<1>3. ListOf(g, mid, S2)
  <2>1. CASE a \in Of(g)!Inner /\ ex2[a] > 0
    <3>1. ListOf(g, Entered(list, a), (S \ {a}) \cup {a})
        BY <1>2, <2>1, EnterInFront, Zenon
    <3>2. (S \ {a}) \cup {a} = S2
        BY <1>1, <2>1 DEF Excessive
    <3> QED
        BY <2>1, <3>1, <3>2
  <2>2. CASE a \notin Of(g)!Inner /\ ex2[a] > 0
    <3>1. Entered(list, a) = list
        BY <1>1, <2>2 DEF Entered
    <3>2. S \ {a} = S2
        BY <1>1, <2>2 DEF Excessive
    <3> QED
        BY <3>1, <3>2
  <2>3. CASE ~(ex2[a] > 0)
    <3>1. S \ {a} = S2
        BY <1>1, <2>3 DEF Excessive
    <3> QED
        BY <3>1, <2>3
  <2> QED
      BY <2>1, <2>2, <2>3
<1>4. ex[b] \in Nat /\ ex2[b] > 0
    BY DEF Excessive
<1>5. CASE b \notin Of(g)!Inner
  <2>1. S2 = Excessive(g, ex2)
      BY <1>5 DEF Excessive
  <2>2. Entered(mid, b) = mid
      BY <1>1, <1>5 DEF Entered
  <2> HIDE DEF mid, S2
  <2>3. EnteredIfNew(mid, ex2, b, d) = mid
      BY <2>2 DEF EnteredIfNew
  <2> QED
      BY <1>3, <2>1, <2>3 DEF mid
<1>6. CASE b \in Of(g)!Inner /\ ex[b] > 0
  <2>1. S2 = Excessive(g, ex2)
      BY <1>4, <1>6 DEF Excessive
  <2>2. ex2[b] # d
      BY <1>4, <1>6
  <2> HIDE DEF mid, S2
  <2>3. EnteredIfNew(mid, ex2, b, d) = mid
      BY <2>2 DEF EnteredIfNew
  <2> QED
      BY <1>3, <2>1, <2>3 DEF mid
<1>7. CASE b \in Of(g)!Inner /\ ~(ex[b] > 0)
  <2>1. S2 \cup {b} = Excessive(g, ex2) /\ b \notin S2
      BY <1>4, <1>7 DEF Excessive
  <2>2. ex2[b] = d
      BY <1>4, <1>7
  <2> HIDE DEF mid, S2
  <2>3. EnteredIfNew(mid, ex2, b, d) = Entered(mid, b)
      BY <2>2 DEF EnteredIfNew
  <2>4. ListOf(g, Entered(mid, b), S2 \cup {b})
      BY <1>3, <1>7, <2>1, EnterInFront, Zenon
  <2> QED
      BY <2>1, <2>3, <2>4 DEF mid
<1> QED
    BY <1>5, <1>6, <1>7

\* There are no more nodes on the list than there are nodes.
LEMMA ListIsShort ==
    ASSUME g \in Inputs, NEW q \in Seq(Of(g)!Inner), IsInjective(q)
    PROVE  Len(q) <= g.n
<1>1. g.n \in Nat /\ g.n >= 2
    BY InputFacts
<1>2. IsFiniteSet(Of(g)!Node) /\ Cardinality(Of(g)!Node) = g.n
  <2>1. 0 \in Int /\ g.n - 1 \in Int /\ ~(0 > g.n - 1) /\ (g.n - 1) - 0 + 1 = g.n
      BY <1>1
  <2>2. /\ IsFiniteSet(0 .. g.n - 1)
        /\ Cardinality(0 .. g.n - 1)
             = IF 0 > g.n - 1 THEN 0 ELSE (g.n - 1) - 0 + 1
      BY <2>1, FS_Interval
  <2> QED
      BY <2>1, <2>2, GraphFacts
<1>3. /\ Len(q) \in Nat /\ DOMAIN q = 1 .. Len(q)
      /\ \A j \in 1 .. Len(q) : q[j] \in Of(g)!Node
    BY SequenceFacts, GraphFacts
<1>4. IsFiniteSet(1 .. Len(q)) /\ Cardinality(1 .. Len(q)) = Len(q)
  <2>1. 1 \in Int /\ Len(q) \in Int
      BY <1>3
  <2>2. /\ IsFiniteSet(1 .. Len(q))
        /\ Cardinality(1 .. Len(q)) = IF 1 > Len(q) THEN 0 ELSE Len(q) - 1 + 1
      BY <2>1, FS_Interval
  <2> QED
      BY <2>2, <1>3
<1> DEFINE w == [j \in 1 .. Len(q) |-> q[j]]
<1>5. w \in Injection(1 .. Len(q), Of(g)!Node)
  <2>1. w \in [1 .. Len(q) -> Of(g)!Node]
      BY <1>3
  <2>2. \A j, k \in 1 .. Len(q) : w[j] = w[k] => j = k
      BY <1>3 DEF IsInjective
  <2> QED
      BY <2>1, <2>2 DEF Injection, IsInjective
<1> HIDE DEF w
<1>6. Cardinality(1 .. Len(q)) <= Cardinality(Of(g)!Node)
    BY <1>2, <1>5, FS_Injection
<1> QED
    BY <1>2, <1>4, <1>6

\* The nodes after k steps from g->excess.
LEMMA OnListFacts ==
    ASSUME g \in Inputs, NEW q, Linked(g, excess, q)
    PROVE  \A k \in 0 .. g.n :
               OnList[k] = IF k < Len(q) THEN {q[k + 1]}
                           ELSE IF k = Len(q) THEN {NoNode} ELSE {}
<1> DEFINE After(k) == IF k < Len(q) THEN {q[k + 1]}
                       ELSE IF k = Len(q) THEN {NoNode} ELSE {}
           Step(F) == [k \in 0 .. g.n |->
                         IF k = 0 THEN {excess.first}
                         ELSE {excess.next[a] : a \in F[k - 1] \ {NoNode}}]
           W == [k \in 0 .. g.n |-> After(k)]
<1>1. g.n \in Nat
    BY InputFacts
<1>2. /\ q \in Seq(Of(g)!Inner) /\ excess.first = Entry(q, 1)
      /\ \A j \in 1 .. Len(q) : excess.next[q[j]] = Entry(q, j + 1)
    BY DEF Linked
<1>3. /\ Len(q) \in Nat
      /\ \A j \in 1 .. Len(q) : q[j] # NoNode
    BY <1>2, SequenceFacts, GraphFacts
<1>4. After(0) = {excess.first}
    BY <1>2, <1>3 DEF Entry
<1>5. ASSUME NEW k \in Nat
      PROVE  {excess.next[a] : a \in After(k) \ {NoNode}} = After(k + 1)
  <2>1. CASE k < Len(q)
    <3>1. k + 1 \in 1 .. Len(q) /\ (k + 1) + 1 = k + 2
        BY <2>1, <1>3
    <3>2. q[k + 1] # NoNode /\ excess.next[q[k + 1]] = Entry(q, k + 2)
        BY <3>1, <1>2, <1>3
    <3>3. After(k) = {q[k + 1]}
        BY <2>1
    <3> HIDE DEF After
    <3>4. {excess.next[a] : a \in After(k) \ {NoNode}} = {Entry(q, k + 2)}
        BY <3>2, <3>3
    <3>5. {Entry(q, k + 2)} = After(k + 1)
        BY <2>1, <1>3 DEF Entry, After
    <3> QED
        BY <3>4, <3>5
  <2>2. CASE ~(k < Len(q))
    <3>1. After(k) \ {NoNode} = {}
        BY <2>2
    <3>2. After(k + 1) = {}
        BY <2>2, <1>3
    <3> HIDE DEF After
    <3> QED
        BY <3>1, <3>2
  <2> QED
      BY <2>1, <2>2
<1> HIDE DEF After
<1>6. W = Step(W)
  <2>1. \A k \in 0 .. g.n : k # 0 =>
            k - 1 \in 0 .. g.n /\ k - 1 \in Nat /\ (k - 1) + 1 = k
      BY <1>1
  <2>2. ASSUME NEW k \in 0 .. g.n, k # 0
        PROVE  W[k] = {excess.next[a] : a \in W[k - 1] \ {NoNode}}
    <3>1. W[k] = After(k) /\ W[k - 1] = After(k - 1)
        BY <2>1, <2>2
    <3> HIDE DEF W
    <3> QED
        BY <2>1, <2>2, <3>1, <1>5
  <2>3. 0 \in 0 .. g.n => W[0] = {excess.first}
      BY <1>4
  <2>4. W = [k \in 0 .. g.n |-> W[k]]
      OBVIOUS
  <2> HIDE DEF W
  <2> QED
      BY <2>2, <2>3, <2>4
<1>7. OnList = CHOOSE F : F = Step(F)
    BY DEF OnList
<1> HIDE DEF W, Step
<1>8. OnList = Step(OnList)
    BY <1>6, <1>7
<1> DEFINE L == OnList
           Q == {k \in Nat : k \in 0 .. g.n => L[k] = After(k)}
<1>9. /\ L[0] = {excess.first}
      /\ \A k \in 0 .. g.n : k # 0 =>
            L[k] = {excess.next[a] : a \in L[k - 1] \ {NoNode}}
  <2>1. L = Step(L) /\ 0 \in 0 .. g.n
      BY <1>1, <1>8
  <2> HIDE DEF L
  <2> QED
      BY <2>1 DEF Step
<1> HIDE DEF L
<1>10. 0 \in Q
    BY <1>4, <1>9
<1>11. ASSUME NEW k \in Nat, k \in Q PROVE k + 1 \in Q
  <2> SUFFICES ASSUME k + 1 \in 0 .. g.n PROVE L[k + 1] = After(k + 1)
      OBVIOUS
  <2>1. k \in 0 .. g.n /\ k + 1 # 0 /\ (k + 1) - 1 = k
      BY <1>1
  <2>2. L[k] = After(k)
      BY <2>1, <1>11
  <2>3. L[k + 1] = {excess.next[a] : a \in L[k] \ {NoNode}}
      BY <2>1, <1>9
  <2> QED
      BY <2>2, <2>3, <1>5
<1> HIDE DEF Q
<1>12. \A k \in Nat : k \in Q
    BY <1>10, <1>11, GraphAssumptions, P!SetOfNaturals
<1>13. ASSUME NEW k \in 0 .. g.n PROVE L[k] = After(k)
    BY <1>1, <1>12 DEF Q
<1> QED
    BY <1>13 DEF L, After

\* The pointers go through the nodes of the list and end.
LEMMA WholeList ==
    ASSUME g \in Inputs, NEW S, ListOf(g, excess, S)
    PROVE  /\ (UNION {OnList[k] : k \in 0 .. g.n}) \ {NoNode} = S
           /\ OnList[g.n] \subseteq {NoNode}
<1>1. PICK q : Linked(g, excess, q) /\ Range(q) = S
    BY DEF ListOf
<1>2. g.n \in Nat
    BY InputFacts
<1>3. q \in Seq(Of(g)!Inner) /\ IsInjective(q)
    BY <1>1 DEF Linked
<1>4. /\ Len(q) \in Nat /\ DOMAIN q = 1 .. Len(q) /\ Len(q) <= g.n
      /\ \A j \in 1 .. Len(q) : q[j] # NoNode
    BY <1>3, SequenceFacts, GraphFacts, ListIsShort
<1> DEFINE L == OnList
<1>5. \A k \in 0 .. g.n : L[k] = IF k < Len(q) THEN {q[k + 1]}
                                 ELSE IF k = Len(q) THEN {NoNode} ELSE {}
    BY <1>1, OnListFacts
<1> HIDE DEF L
<1>6. ASSUME NEW k \in 0 .. g.n, NEW c \in L[k], c # NoNode PROVE c \in Range(q)
  <2>1. k < Len(q) /\ c = q[k + 1]
    <3>1. L[k] = IF k < Len(q) THEN {q[k + 1]} ELSE IF k = Len(q) THEN {NoNode} ELSE {}
        BY <1>5
    <3>2. c \in L[k] /\ c # NoNode
        BY <1>6
    <3>3. CASE k < Len(q)
      <4>1. L[k] = {q[k + 1]}
          BY <3>1, <3>3, Zenon
      <4> QED
          BY <3>2, <3>3, <4>1
    <3>4. CASE ~(k < Len(q)) /\ k = Len(q)
      <4>1. L[k] = {NoNode}
          BY <3>1, <3>4
      <4> QED
          BY <3>2, <4>1
    <3>5. CASE ~(k < Len(q)) /\ k # Len(q)
      <4>1. L[k] = {}
          BY <3>1, <3>5
      <4> QED
          BY <3>2, <4>1
    <3> QED
        BY <3>3, <3>4, <3>5
  <2>2. k \in Nat
      BY <1>2
  <2>3. Len(q) \in Nat
      BY <1>4
  <2>4. k + 1 \in 1 .. Len(q)
      BY <2>1, <2>2, <2>3
  <2> QED
      BY <2>1, <2>4, <1>4 DEF Range
<1>7. ASSUME NEW c \in Range(q) PROVE c # NoNode /\ \E k \in 0 .. g.n : c \in L[k]
  <2>1. PICK j \in 1 .. Len(q) : c = q[j]
      BY <1>4, <1>7 DEF Range
  <2>2. j - 1 \in 0 .. g.n /\ j - 1 < Len(q) /\ (j - 1) + 1 = j
      BY <1>2, <1>4
  <2>3. L[j - 1] = {q[j]}
      BY <2>2, <1>5
  <2> QED
      BY <2>1, <2>2, <2>3, <1>4
<1>8. L[g.n] \subseteq {NoNode}
  <2>1. g.n \in 0 .. g.n /\ ~(g.n < Len(q))
    <3>1. Len(q) \in Nat /\ Len(q) <= g.n
        BY <1>4
    <3> QED
        BY <3>1, <1>2
  <2>2. L[g.n] = IF g.n < Len(q) THEN {q[g.n + 1]}
                 ELSE IF g.n = Len(q) THEN {NoNode} ELSE {}
      BY <2>1, <1>5
  <2> QED
      BY <2>1, <2>2
<1>9. (UNION {L[k] : k \in 0 .. g.n}) \ {NoNode} = Range(q)
  <2> DEFINE V == UNION {L[k] : k \in 0 .. g.n}
  <2>1. \A c : c \in V <=> \E k \in 0 .. g.n : c \in L[k]
      OBVIOUS
  <2> HIDE DEF V
  <2>2. V \ {NoNode} = Range(q)
      BY <2>1, <1>6, <1>7
  <2> QED
      BY <2>2 DEF V
<1> QED
    BY <1>1, <1>8, <1>9 DEF L

-----------------------------------------------------------------------------
(* The links of the heap.  own[a][x] is the link of node a for its edge x.  A *)
(* list runs from the last edge read to the first, so what is left of a's     *)
(* list is given by a bound: the links of a's edges below it.                 *)

\* c is the link of the last edge of a before x, NULL when there is none.
LastBefore(k, own, a, x, c) ==
    \/ c = NULL /\ \A y \in Of(k)!Incident(a) : ~(y < x)
    \/ \E y \in Of(k)!Incident(a) :
          /\ y < x /\ c = own[a][y]
          /\ \A z \in Of(k)!Incident(a) : z < x => z <= y

\* The allocated links are those of the edges below b[a], for each node a, each a link
\* of its own; a's list begins at top[a] and runs downwards.
Listed(k, own, b, top, hp) ==
    /\ own \in [Of(k)!Node -> [Of(k)!Edge -> Link]]
    /\ b \in [Of(k)!Node -> Int]
    /\ \A c : c \in hp.live <=>
          \E a \in Of(k)!Node : \E x \in Of(k)!Incident(a) : x < b[a] /\ c = own[a][x]
    /\ \A a, w \in Of(k)!Node :
          \A x \in Of(k)!Incident(a) : \A y \in Of(k)!Incident(w) :
              x < b[a] /\ y < b[w] /\ own[a][x] = own[w][y] => a = w /\ x = y
    /\ \A a \in Of(k)!Node : \A x \in Of(k)!Incident(a) :
          x < b[a] => /\ hp.link[own[a][x]].edge = x
                      /\ LastBefore(k, own, a, x, hp.link[own[a][x]].next)
    /\ \A a \in Of(k)!Node : LastBefore(k, own, a, b[a], top[a])

\* A list that is not empty begins with a link of one of the node's edges.
LEMMA FirstLink ==
    ASSUME g \in Inputs, NEW own, NEW a, NEW x, NEW c,
           LastBefore(g, own, a, x, c), c # NULL
    PROVE  \E y \in Of(g)!Incident(a) :
              /\ y < x /\ c = own[a][y]
              /\ \A z \in Of(g)!Incident(a) : z < x => z <= y
BY DEF LastBefore

LEMMA NoLink ==
    ASSUME g \in Inputs, NEW own \in [Of(g)!Node -> [Of(g)!Edge -> Link]],
           NEW a \in Of(g)!Node, NEW x, LastBefore(g, own, a, x, NULL)
    PROVE  \A y \in Of(g)!Incident(a) : ~(y < x)
<1>1. ASSUME NEW y \in Of(g)!Incident(a) PROVE own[a][y] # NULL
  <2>1. y \in Of(g)!Edge
      BY GraphFacts
  <2>2. own[a][y] \in Link
      BY <2>1
  <2> QED
      BY <2>2, InputsAssumption DEF Link, NULL
<1> QED
    BY <1>1 DEF LastBefore

\* The bounds count only as far as the edges of the node go.
LEMMA SameBounds ==
    ASSUME g \in Inputs, NEW own, NEW b, NEW top, NEW hp, Listed(g, own, b, top, hp),
           NEW b2 \in [Of(g)!Node -> Int],
           \A a \in Of(g)!Node : \A x \in Of(g)!Incident(a) : x < b[a] <=> x < b2[a]
    PROVE  Listed(g, own, b2, top, hp)
<1>1. \A a \in Of(g)!Node : LastBefore(g, own, a, b2[a], top[a])
  <2> SUFFICES ASSUME NEW a \in Of(g)!Node PROVE LastBefore(g, own, a, b2[a], top[a])
      OBVIOUS
  <2>1. LastBefore(g, own, a, b[a], top[a])
      BY DEF Listed
  <2> QED
      BY <2>1 DEF LastBefore
<1>2. \A c : c \in hp.live <=>
          \E a \in Of(g)!Node : \E x \in Of(g)!Incident(a) : x < b2[a] /\ c = own[a][x]
    BY DEF Listed
<1>3. \A a, w \in Of(g)!Node :
          \A x \in Of(g)!Incident(a) : \A y \in Of(g)!Incident(w) :
              x < b2[a] /\ y < b2[w] /\ own[a][x] = own[w][y] => a = w /\ x = y
    BY DEF Listed
<1>4. \A a \in Of(g)!Node : \A x \in Of(g)!Incident(a) :
          x < b2[a] => /\ hp.link[own[a][x]].edge = x
                       /\ LastBefore(g, own, a, x, hp.link[own[a][x]].next)
    BY DEF Listed
<1>5. own \in [Of(g)!Node -> [Of(g)!Edge -> Link]]
    BY DEF Listed
<1> QED
    BY <1>1, <1>2, <1>3, <1>4, <1>5 DEF Listed

\* No edge is below 1: no link is allocated for an empty list.
LEMMA NothingListed ==
    ASSUME g \in Inputs, NEW hp, hp.live = {}
    PROVE  \E own : Listed(g, own, [a \in Of(g)!Node |-> 1], [a \in Of(g)!Node |-> NULL], hp)
<1> DEFINE own == [a \in Of(g)!Node |-> [x \in Of(g)!Edge |-> 1]]
           b == [a \in Of(g)!Node |-> 1]
           top == [a \in Of(g)!Node |-> NULL]
<1>1. \A a \in Of(g)!Node : \A x \in Of(g)!Incident(a) : ~(x < 1)
    BY GraphFacts, InputFacts
<1>2. own \in [Of(g)!Node -> [Of(g)!Edge -> Link]]
  <2>1. ASSUME NEW x \in Of(g)!Edge PROVE 1 \in Link
    <3>1. g.m \in Nat /\ Links \in Nat /\ 2 * g.m <= Links
        BY InputFacts
    <3>2. x \in Int /\ 1 <= x /\ x <= g.m
        BY <3>1, GraphFacts
    <3> QED
        BY <3>1, <3>2 DEF Link
  <2> QED
      BY <2>1
<1>3. b \in [Of(g)!Node -> Int] /\ \A a \in Of(g)!Node : b[a] = 1 /\ top[a] = NULL
    OBVIOUS
<1> HIDE DEF own, b, top
<1>4. \A a \in Of(g)!Node : LastBefore(g, own, a, b[a], top[a])
    BY <1>1, <1>3 DEF LastBefore
<1>5. \A a \in Of(g)!Node : \A x \in Of(g)!Incident(a) : ~(x < b[a])
    BY <1>1, <1>3
<1>6. Listed(g, own, b, top, hp)
  <2>1. \A c : c \in hp.live <=>
            \E a \in Of(g)!Node : \E x \in Of(g)!Incident(a) : x < b[a] /\ c = own[a][x]
      BY <1>5
  <2> QED
      BY <2>1, <1>2, <1>3, <1>4, <1>5 DEF Listed
<1>7. \E o : Listed(g, o, b, top, hp)
    BY <1>6
<1> QED
    BY <1>7 DEF b, top

Cell == [edge : Nat, next : Link \cup {NULL}]

HeapType(hp) ==
    /\ hp = [live |-> hp.live, link |-> hp.link, head |-> hp.head]
    /\ hp.live \subseteq Link
    /\ hp.link \in [Link -> Cell]

LEMMA LinksFinite ==
    ASSUME NEW S, S \subseteq Link
    PROVE  IsFiniteSet(S) /\ Cardinality(S) \in Nat
<1>1. Links \in Nat
    BY InputsAssumption
<1>2. IsFiniteSet(Link)
    BY <1>1, FS_Interval DEF Link
<1>3. IsFiniteSet(S)
    BY <1>2, FS_Subset
<1> QED
    BY <1>3, FS_CardinalityType

\* With fewer links allocated than the heap has room for, malloc finds one.
LEMMA MallocFacts ==
    ASSUME NEW S, S \subseteq Link, Cardinality(S) < Links
    PROVE  Malloc(S) \in Link /\ Malloc(S) \notin S
<1>1. Links \in Nat
    BY InputsAssumption
<1>2. Cardinality(Link) = Links
  <2>1. 1 \in Int /\ Links \in Int
      BY <1>1
  <2>2. Cardinality(1 .. Links) = IF 1 > Links THEN 0 ELSE Links - 1 + 1
      BY <2>1, FS_Interval
  <2> QED
      BY <1>1, <2>2 DEF Link
<1>3. S # Link
    BY <1>1, <1>2
<1>4. \E c \in Link : c \notin S
    BY <1>3
<1> QED
    BY <1>4 DEF Malloc

\* There is room for a link, and a's list has a's edges below x.
Addable(k, own, b, hp, a, x) ==
    /\ Listed(k, own, b, hp.head, hp)
    /\ HeapType(hp) /\ hp.head \in [Of(k)!Node -> Link \cup {NULL}]
    /\ Cardinality(hp.live) < Links
    /\ a \in Of(k)!Node /\ x \in Of(k)!Incident(a) /\ b[a] = x

\* The bound of a alone is one more.
Raised(k, b, a, b2) ==
    /\ b2 \in [Of(k)!Node -> Int]
    /\ \A w \in Of(k)!Node : b2[w] = IF w = a THEN b[a] + 1 ELSE b[w]

\* add_edge of the edge x to a's list.
LEMMA LinkAdded ==
    ASSUME g \in Inputs, NEW own, NEW b, NEW hp, NEW a, NEW x, Addable(g, own, b, hp, a, x),
           NEW b2, Raised(g, b, a, b2), NEW hp2, hp2 = AddLink(hp, a, x)
    PROVE  /\ HeapType(hp2) /\ hp2.head \in [Of(g)!Node -> Link \cup {NULL}]
           /\ Cardinality(hp2.live) = Cardinality(hp.live) + 1
           /\ \E own2 : Listed(g, own2, b2, hp2.head, hp2)
<1> DEFINE c == Malloc(hp.live)
           own2 == [own EXCEPT ![a] = [own[a] EXCEPT ![x] = c]]
<1> USE DEF Addable
<1>1. c \in Link /\ c \notin hp.live
    BY MallocFacts DEF HeapType
<1>2. hp2 = [live |-> hp.live \cup {c},
             link |-> [hp.link EXCEPT ![c] = [edge |-> x, next |-> hp.head[a]]],
             head |-> [hp.head EXCEPT ![a] = c]]
    BY DEF AddLink
<1> HIDE DEF c
<1>3. /\ hp2 = [live |-> hp2.live, link |-> hp2.link, head |-> hp2.head]
      /\ hp2.live = hp.live \cup {c}
      /\ hp2.link = [hp.link EXCEPT ![c] = [edge |-> x, next |-> hp.head[a]]]
      /\ hp2.head = [hp.head EXCEPT ![a] = c]
    BY <1>2
<1>4. /\ x \in Of(g)!Edge /\ x \in Nat
      /\ \A w : \A y \in Of(g)!Incident(w) : y \in Of(g)!Edge /\ y \in Int
  <2>1. g.m \in Nat
      BY InputFacts
  <2> QED
      BY <2>1, GraphFacts
<1>5. HeapType(hp2) /\ hp2.head \in [Of(g)!Node -> Link \cup {NULL}]
  <2>1. [edge |-> x, next |-> hp.head[a]] \in Cell
      BY <1>4 DEF Cell
  <2> QED
      BY <2>1, <1>1, <1>3 DEF HeapType
<1>6. Cardinality(hp2.live) = Cardinality(hp.live) + 1
    BY <1>1, <1>3, LinksFinite, FS_AddElement DEF HeapType
<1>7. /\ own \in [Of(g)!Node -> [Of(g)!Edge -> Link]]
      /\ b \in [Of(g)!Node -> Int]
      /\ \A d : d \in hp.live <=>
            \E w \in Of(g)!Node : \E y \in Of(g)!Incident(w) : y < b[w] /\ d = own[w][y]
      /\ \A w, v \in Of(g)!Node :
            \A y \in Of(g)!Incident(w) : \A z \in Of(g)!Incident(v) :
                y < b[w] /\ z < b[v] /\ own[w][y] = own[v][z] => w = v /\ y = z
      /\ \A w \in Of(g)!Node : \A y \in Of(g)!Incident(w) :
            y < b[w] => /\ hp.link[own[w][y]].edge = y
                        /\ LastBefore(g, own, w, y, hp.link[own[w][y]].next)
      /\ \A w \in Of(g)!Node : LastBefore(g, own, w, b[w], hp.head[w])
    BY DEF Listed
<1>8. /\ own2 \in [Of(g)!Node -> [Of(g)!Edge -> Link]]
      /\ own2[a][x] = c
      /\ \A w \in Of(g)!Node : \A y \in Of(g)!Edge :
            ~(w = a /\ y = x) => own2[w][y] = own[w][y]
    BY <1>1, <1>4, <1>7
<1>9. /\ b2 \in [Of(g)!Node -> Int] /\ b2[a] = x + 1
      /\ \A w \in Of(g)!Node : w # a => b2[w] = b[w]
    BY DEF Raised
<1> HIDE DEF own2
<1>10. \A w \in Of(g)!Node : \A y \in Of(g)!Incident(w) :
          y < b2[w] <=> (w = a /\ y = x) \/ y < b[w]
  <2> SUFFICES ASSUME NEW w \in Of(g)!Node, NEW y \in Of(g)!Incident(w)
               PROVE  y < b2[w] <=> (w = a /\ y = x) \/ y < b[w]
      OBVIOUS
  <2>1. CASE w = a
    <3>1. y \in Int /\ x \in Int /\ b2[w] = x + 1 /\ b[w] = x
        BY <1>4, <1>9, <2>1
    <3> QED
        BY <3>1, <2>1
  <2>2. CASE w # a
      BY <2>2, <1>9
  <2> QED
      BY <2>1, <2>2
<1>11. \A w \in Of(g)!Node : \A y \in Of(g)!Incident(w) : y < b[w] => ~(w = a /\ y = x)
  <2>1. ~(x < x)
      BY <1>4
  <2> QED
      BY <2>1
<1>12. \A w \in Of(g)!Node : \A y \in Of(g)!Incident(w) :
          y < b[w] => own2[w][y] = own[w][y] /\ own[w][y] \in hp.live /\ own[w][y] # c
    BY <1>1, <1>4, <1>7, <1>8, <1>11
<1>13. ASSUME NEW w \in Of(g)!Node, NEW z \in Int, z <= b[w], NEW d,
              LastBefore(g, own, w, z, d)
       PROVE  LastBefore(g, own2, w, z, d)
  <2>1. \A y \in Of(g)!Incident(w) : y < z => own2[w][y] = own[w][y]
    <3> SUFFICES ASSUME NEW y \in Of(g)!Incident(w), y < z PROVE own2[w][y] = own[w][y]
        OBVIOUS
    <3>1. y < b[w]
        BY <1>4, <1>7, <1>13
    <3> QED
        BY <3>1, <1>12
  <2> QED
      BY <2>1, <1>13 DEF LastBefore
<1>14. \A d : d \in hp2.live <=>
          \E w \in Of(g)!Node : \E y \in Of(g)!Incident(w) : y < b2[w] /\ d = own2[w][y]
  <2> SUFFICES ASSUME NEW d
               PROVE  d \in hp2.live <=>
                        \E w \in Of(g)!Node : \E y \in Of(g)!Incident(w) :
                            y < b2[w] /\ d = own2[w][y]
      OBVIOUS
  <2>1. CASE d = c
      BY <2>1, <1>3, <1>8, <1>10
  <2>2. CASE d # c
    <3>1. d \in hp2.live <=> d \in hp.live
        BY <2>2, <1>3
    <3>2. \A w \in Of(g)!Node : \A y \in Of(g)!Incident(w) :
             y < b2[w] /\ d = own2[w][y] <=> y < b[w] /\ d = own[w][y]
        BY <2>2, <1>8, <1>10, <1>12
    <3> QED
        BY <3>1, <3>2, <1>7
  <2> QED
      BY <2>1, <2>2
<1>15. \A w, v \in Of(g)!Node :
          \A y \in Of(g)!Incident(w) : \A z \in Of(g)!Incident(v) :
              y < b2[w] /\ z < b2[v] /\ own2[w][y] = own2[v][z] => w = v /\ y = z
  <2> SUFFICES ASSUME NEW w \in Of(g)!Node, NEW v \in Of(g)!Node,
                      NEW y \in Of(g)!Incident(w), NEW z \in Of(g)!Incident(v),
                      y < b2[w], z < b2[v], own2[w][y] = own2[v][z]
               PROVE  w = v /\ y = z
      OBVIOUS
  <2>1. CASE y < b[w] /\ z < b[v]
      BY <2>1, <1>7, <1>12
  <2>2. CASE ~(y < b[w]) \/ ~(z < b[v])
      BY <2>2, <1>8, <1>10, <1>12
  <2> QED
      BY <2>1, <2>2
<1>16. \A w \in Of(g)!Node : \A y \in Of(g)!Incident(w) :
          y < b2[w] => /\ hp2.link[own2[w][y]].edge = y
                       /\ LastBefore(g, own2, w, y, hp2.link[own2[w][y]].next)
  <2> SUFFICES ASSUME NEW w \in Of(g)!Node, NEW y \in Of(g)!Incident(w), y < b2[w]
               PROVE  /\ hp2.link[own2[w][y]].edge = y
                      /\ LastBefore(g, own2, w, y, hp2.link[own2[w][y]].next)
      OBVIOUS
  <2>0. y \in Int /\ b[w] \in Int
      BY <1>4, <1>7
  <2>1. CASE y < b[w]
    <3>1. own2[w][y] = own[w][y] /\ own[w][y] \in Link /\ own[w][y] # c
        BY <2>1, <1>12 DEF HeapType
    <3>2. hp2.link[own2[w][y]] = hp.link[own[w][y]]
        BY <3>1, <1>1, <1>3 DEF HeapType
    <3>3. y <= b[w]
        BY <2>0, <2>1
    <3>4. LastBefore(g, own2, w, y, hp.link[own[w][y]].next)
        BY <2>0, <2>1, <3>3, <1>7, <1>13
    <3> QED
        BY <2>1, <3>2, <3>4, <1>7
  <2>2. CASE ~(y < b[w])
    <3>1. w = a /\ y = x /\ own2[w][y] = c
        BY <2>2, <1>8, <1>10
    <3>2. hp2.link[c] = [edge |-> x, next |-> hp.head[a]]
        BY <1>1, <1>3 DEF HeapType
    <3>3. x \in Int /\ x <= b[a] /\ LastBefore(g, own, a, x, hp.head[a])
        BY <1>4, <1>7
    <3>4. LastBefore(g, own2, a, x, hp.head[a])
        BY <3>3, <1>13
    <3> QED
        BY <3>1, <3>2, <3>4
  <2> QED
      BY <2>1, <2>2
<1>17. \A w \in Of(g)!Node : LastBefore(g, own2, w, b2[w], hp2.head[w])
  <2> SUFFICES ASSUME NEW w \in Of(g)!Node PROVE LastBefore(g, own2, w, b2[w], hp2.head[w])
      OBVIOUS
  <2>1. CASE w = a
    <3>1. hp2.head[w] = own2[a][x] /\ x < b2[a]
        BY <2>1, <1>3, <1>4, <1>8, <1>9
    <3>2. \A z \in Of(g)!Incident(a) : z < b2[a] => z <= x
        BY <1>4, <1>9
    <3> QED
        BY <2>1, <3>1, <3>2 DEF LastBefore
  <2>2. CASE w # a
    <3>1. hp2.head[w] = hp.head[w] /\ b2[w] = b[w] /\ b[w] \in Int /\ b[w] <= b[w]
        BY <2>2, <1>3, <1>7, <1>9
    <3>2. LastBefore(g, own, w, b[w], hp.head[w])
        BY <1>7
    <3> QED
        BY <3>1, <3>2, <1>13
  <2> QED
      BY <2>1, <2>2
<1>18. Listed(g, own2, b2, hp2.head, hp2)
    BY <1>8, <1>9, <1>14, <1>15, <1>16, <1>17 DEF Listed
<1>19. \E o : Listed(g, o, b2, hp2.head, hp2)
    BY <1>18
<1> QED
    BY <1>5, <1>6, <1>19

\* The first link of a's list is c.
Removable(k, own, b, top, hp, a, c) ==
    /\ Listed(k, own, b, top, hp)
    /\ HeapType(hp) /\ top \in [Of(k)!Node -> Link \cup {NULL}]
    /\ a \in Of(k)!Node /\ c = top[a] /\ c # NULL

\* The list of a alone begins with c.
Advanced(k, top, a, c, top2) ==
    \A w \in Of(k)!Node : top2[w] = IF w = a THEN c ELSE top[w]

Without(hp, c) == [hp EXCEPT !.live = @ \ {c}, !.link[c] = Freed]

\* free of the first link of a's list: the rest is a's list.
LEMMA LinkFreed ==
    ASSUME g \in Inputs, NEW own, NEW b, NEW top, NEW hp, NEW a, NEW c,
           Removable(g, own, b, top, hp, a, c),
           NEW hp2, hp2 = Without(hp, c),
           NEW top2, Advanced(g, top, a, hp.link[c].next, top2)
    PROVE  /\ HeapType(hp2) /\ hp2.head = hp.head
           /\ \E b2 : /\ Listed(g, own, b2, top2, hp2)
                      /\ \A w \in Of(g)!Node : b2[w] <= b[w]
<1> USE DEF Removable
<1>1. /\ own \in [Of(g)!Node -> [Of(g)!Edge -> Link]]
      /\ b \in [Of(g)!Node -> Int]
      /\ \A d : d \in hp.live <=>
            \E w \in Of(g)!Node : \E y \in Of(g)!Incident(w) : y < b[w] /\ d = own[w][y]
      /\ \A w, v \in Of(g)!Node :
            \A y \in Of(g)!Incident(w) : \A z \in Of(g)!Incident(v) :
                y < b[w] /\ z < b[v] /\ own[w][y] = own[v][z] => w = v /\ y = z
      /\ \A w \in Of(g)!Node : \A y \in Of(g)!Incident(w) :
            y < b[w] => /\ hp.link[own[w][y]].edge = y
                        /\ LastBefore(g, own, w, y, hp.link[own[w][y]].next)
      /\ \A w \in Of(g)!Node : LastBefore(g, own, w, b[w], top[w])
    BY DEF Listed
<1>2. PICK x \in Of(g)!Incident(a) :
          /\ x < b[a] /\ c = own[a][x]
          /\ \A z \in Of(g)!Incident(a) : z < b[a] => z <= x
  <2>1. LastBefore(g, own, a, b[a], c)
      BY <1>1
  <2> QED
      BY <2>1, FirstLink
<1>3. \A w : \A y \in Of(g)!Incident(w) : y \in Of(g)!Edge /\ y \in Int
  <2>1. g.m \in Nat
      BY InputFacts
  <2> QED
      BY <2>1, GraphFacts
<1>4. c \in hp.live /\ c \in Link
    BY <1>1, <1>2 DEF HeapType
<1> DEFINE b2 == [b EXCEPT ![a] = x]
<1>5. /\ hp2 = [live |-> hp2.live, link |-> hp2.link, head |-> hp2.head]
      /\ hp2.live = hp.live \ {c}
      /\ hp2.link = [hp.link EXCEPT ![c] = Freed]
      /\ hp2.head = hp.head
  <2>1. hp2 = [live |-> hp.live \ {c}, link |-> [hp.link EXCEPT ![c] = Freed],
               head |-> hp.head]
      BY DEF HeapType, Without
  <2> QED
      BY <2>1
<1>6. HeapType(hp2)
  <2>1. Freed \in Cell
      BY DEF Freed, Cell
  <2> QED
      BY <2>1, <1>4, <1>5 DEF HeapType
<1>7. /\ b2 \in [Of(g)!Node -> Int] /\ b2[a] = x
      /\ \A w \in Of(g)!Node : w # a => b2[w] = b[w]
      /\ x \in Int /\ b[a] \in Int
    BY <1>1, <1>3
<1>8. /\ top2[a] = hp.link[c].next
      /\ \A w \in Of(g)!Node : w # a => top2[w] = top[w]
    BY DEF Advanced
<1> HIDE DEF b2
<1>9. \A w \in Of(g)!Node : \A y \in Of(g)!Incident(w) :
          y < b2[w] <=> y < b[w] /\ ~(w = a /\ y = x)
  <2> SUFFICES ASSUME NEW w \in Of(g)!Node, NEW y \in Of(g)!Incident(w)
               PROVE  y < b2[w] <=> y < b[w] /\ ~(w = a /\ y = x)
      OBVIOUS
  <2>1. CASE w = a
    <3>1. y \in Int /\ b2[w] = x /\ (y < b[a] => y <= x)
        BY <2>1, <1>2, <1>3, <1>7
    <3> QED
        BY <2>1, <3>1, <1>2, <1>7
  <2>2. CASE w # a
      BY <2>2, <1>7
  <2> QED
      BY <2>1, <2>2
<1>10. \A d : d \in hp2.live <=>
          \E w \in Of(g)!Node : \E y \in Of(g)!Incident(w) : y < b2[w] /\ d = own[w][y]
  <2> SUFFICES ASSUME NEW d
               PROVE  d \in hp2.live <=>
                        \E w \in Of(g)!Node : \E y \in Of(g)!Incident(w) :
                            y < b2[w] /\ d = own[w][y]
      OBVIOUS
  <2>1. CASE d = c
    <3>1. \A w \in Of(g)!Node : \A y \in Of(g)!Incident(w) :
              y < b2[w] => own[w][y] # c
        BY <1>1, <1>2, <1>9
    <3> QED
        BY <2>1, <3>1, <1>5
  <2>2. CASE d # c
    <3>1. d \in hp2.live <=> d \in hp.live
        BY <2>2, <1>5
    <3>2. \A w \in Of(g)!Node : \A y \in Of(g)!Incident(w) :
             y < b2[w] /\ d = own[w][y] <=> y < b[w] /\ d = own[w][y]
        BY <2>2, <1>2, <1>9
    <3> QED
        BY <3>1, <3>2, <1>1
  <2> QED
      BY <2>1, <2>2
<1>11. \A w, v \in Of(g)!Node :
          \A y \in Of(g)!Incident(w) : \A z \in Of(g)!Incident(v) :
              y < b2[w] /\ z < b2[v] /\ own[w][y] = own[v][z] => w = v /\ y = z
    BY <1>1, <1>9
<1>12. \A w \in Of(g)!Node : \A y \in Of(g)!Incident(w) :
          y < b2[w] => /\ hp2.link[own[w][y]].edge = y
                       /\ LastBefore(g, own, w, y, hp2.link[own[w][y]].next)
  <2> SUFFICES ASSUME NEW w \in Of(g)!Node, NEW y \in Of(g)!Incident(w), y < b2[w]
               PROVE  /\ hp2.link[own[w][y]].edge = y
                      /\ LastBefore(g, own, w, y, hp2.link[own[w][y]].next)
      OBVIOUS
  <2>1. y < b[w] /\ own[w][y] # c
      BY <1>1, <1>2, <1>9
  <2>2. own[w][y] \in Link
      BY <1>1, <1>3
  <2>3. hp2.link[own[w][y]] = hp.link[own[w][y]]
      BY <2>1, <2>2, <1>5 DEF HeapType
  <2> QED
      BY <2>1, <2>3, <1>1
<1>13. \A w \in Of(g)!Node : LastBefore(g, own, w, b2[w], top2[w])
  <2> SUFFICES ASSUME NEW w \in Of(g)!Node PROVE LastBefore(g, own, w, b2[w], top2[w])
      OBVIOUS
  <2>1. CASE w = a
      BY <2>1, <1>1, <1>2, <1>7, <1>8
  <2>2. CASE w # a
      BY <2>2, <1>1, <1>7, <1>8
  <2> QED
      BY <2>1, <2>2
<1>14. Listed(g, own, b2, top2, hp2)
    BY <1>1, <1>7, <1>10, <1>11, <1>12, <1>13 DEF Listed
<1>15. \A w \in Of(g)!Node : b2[w] <= b[w]
  <2> SUFFICES ASSUME NEW w \in Of(g)!Node PROVE b2[w] <= b[w]
      OBVIOUS
  <2>1. CASE w = a
      BY <2>1, <1>2, <1>7
  <2>2. CASE w # a
      BY <2>2, <1>1, <1>7
  <2> QED
      BY <2>1, <2>2
<1>16. \E o : Listed(g, own, o, top2, hp2) /\ \A w \in Of(g)!Node : o[w] <= b[w]
    BY <1>14, <1>15
<1> QED
    BY <1>5, <1>6, <1>16

\* The links k steps and fewer away from c.
Steps(F, c, link, n) ==
    F = [k \in 0 .. n |->
            IF k = 0 THEN {c} ELSE F[k - 1] \cup {link[d].next : d \in F[k - 1] \ {NULL}}]

LEMMA StepsExist ==
    ASSUME g \in Inputs, NEW c, NEW link, NEW n \in Nat
    PROVE  \E F : Steps(F, c, link, n)
<1> DEFINE More(S) == S \cup {link[d].next : d \in S \ {NULL}}
           Q == {k \in Nat : \E F : Steps(F, c, link, k)}
<1>1. 0 \in Q
  <2> DEFINE F == [k \in 0 .. 0 |-> {c}]
  <2>1. \A k \in 0 .. 0 : k = 0
      OBVIOUS
  <2>2. Steps(F, c, link, 0)
      BY <2>1 DEF Steps
  <2> QED
      BY <2>2
<1>2. ASSUME NEW k \in Nat, k \in Q PROVE k + 1 \in Q
  <2>1. PICK F : Steps(F, c, link, k)
      BY <1>2
  <2> DEFINE H == [l \in 0 .. k + 1 |-> IF l = 0 THEN {c} ELSE More(F[l - 1])]
  <2>2. \A l \in 0 .. k : l \in 0 .. k + 1
      OBVIOUS
  <2>3. \A l \in 0 .. k : H[l] = F[l]
      BY <2>1, <2>2 DEF Steps
  <2>4. \A l \in 0 .. k + 1 : l # 0 => l - 1 \in 0 .. k
      OBVIOUS
  <2>5. \A l \in 0 .. k + 1 : l # 0 => F[l - 1] = H[l - 1]
      BY <2>3, <2>4
  <2>6. H = [l \in 0 .. k + 1 |-> IF l = 0 THEN {c} ELSE More(H[l - 1])]
    <3>1. \A l \in 0 .. k + 1 :
              (IF l = 0 THEN {c} ELSE More(F[l - 1])) = (IF l = 0 THEN {c} ELSE More(H[l - 1]))
        BY <2>5
    <3> HIDE DEF More
    <3> QED
        BY <3>1
  <2> HIDE DEF H
  <2>7. Steps(H, c, link, k + 1)
      BY <2>6 DEF Steps
  <2> QED
      BY <2>7
<1> HIDE DEF Q
<1>3. n \in Q
    BY <1>1, <1>2, GraphAssumptions, P!SetOfNaturals
<1> QED
    BY <1>3 DEF Q

\* From the first link on, the next pointers of a's list go through the links of all
\* of its edges below the bound, and through no other link.
LEMMA ReachedFacts ==
    ASSUME g \in Inputs, NEW own, NEW b, NEW top, Listed(g, own, b, top, heap),
           NEW a \in Of(g)!Node, b[a] <= g.m + 1
    PROVE  \A d : d \in Reached(top[a]) <=>
                    \E y \in Of(g)!Incident(a) : y < b[a] /\ d = own[a][y]
<1> DEFINE c == top[a]
           More(S) == S \cup {heap.link[d].next : d \in S \ {NULL}}
           Mine(d) == \E y \in Of(g)!Incident(a) : y < b[a] /\ d = own[a][y]
<1>1. /\ own \in [Of(g)!Node -> [Of(g)!Edge -> Link]]
      /\ b[a] \in Int
      /\ \A y \in Of(g)!Incident(a) :
            y < b[a] => /\ heap.link[own[a][y]].edge = y
                        /\ LastBefore(g, own, a, y, heap.link[own[a][y]].next)
      /\ LastBefore(g, own, a, b[a], c)
    BY DEF Listed
<1>2. /\ g.m \in Nat /\ Links \in Nat /\ 2 * g.m <= Links
      /\ \A y \in Of(g)!Incident(a) : y \in Of(g)!Edge /\ y \in Int /\ 1 <= y /\ y <= g.m
    BY InputFacts, GraphFacts
<1>3. \A y \in Of(g)!Incident(a) : own[a][y] # NULL
  <2>1. \A y \in Of(g)!Incident(a) : own[a][y] \in Link
      BY <1>1, <1>2
  <2> QED
      BY <2>1, <1>2 DEF Link, NULL
<1>4. PICK F : Steps(F, c, heap.link, Links)
    BY <1>2, StepsExist
<1> DEFINE Cells == CHOOSE L : Steps(L, c, heap.link, Links)
<1>5. Reached(c) = Cells[Links] \ {NULL}
    BY DEF Reached, Steps
<1>6. Steps(Cells, c, heap.link, Links)
    BY <1>4
<1> HIDE DEF Cells
<1>7. /\ Cells[0] = {c}
      /\ \A k \in 0 .. Links : k # 0 => Cells[k] = More(Cells[k - 1])
  <2>1. 0 \in 0 .. Links
      BY <1>2
  <2> QED
      BY <2>1, <1>6 DEF Steps
<1> HIDE DEF c
<1>8. \A k \in Nat : k + 1 \in 0 .. Links => k \in 0 .. Links /\ Cells[k + 1] = More(Cells[k])
  <2> SUFFICES ASSUME NEW k \in Nat, k + 1 \in 0 .. Links
               PROVE  k \in 0 .. Links /\ Cells[k + 1] = More(Cells[k])
      OBVIOUS
  <2>1. k \in 0 .. Links /\ k + 1 # 0 /\ (k + 1) - 1 = k
      BY <1>2
  <2> HIDE DEF More
  <2> QED
      BY <2>1, <1>7
<1>9. \A z \in Int : \A d : z <= b[a] /\ LastBefore(g, own, a, z, d) /\ d # NULL => Mine(d)
    BY <1>1, <1>2 DEF LastBefore
<1> HIDE DEF Mine
\* Nothing else is reached.
<1>10. \A d \in Cells[Links] : d # NULL => Mine(d)
  <2> DEFINE Q == {k \in Nat : k \in 0 .. Links => \A d \in Cells[k] : d # NULL => Mine(d)}
  <2>1. 0 \in Q
    <3>1. c # NULL => Mine(c)
        BY <1>1, <1>9
    <3> QED
        BY <3>1, <1>7
  <2>2. ASSUME NEW k \in Nat, k \in Q PROVE k + 1 \in Q
    <3> SUFFICES ASSUME k + 1 \in 0 .. Links, NEW d \in Cells[k + 1], d # NULL
                 PROVE  Mine(d)
        OBVIOUS
    <3>1. k \in 0 .. Links /\ Cells[k + 1] = More(Cells[k])
        BY <1>8
    <3>2. \A o \in Cells[k] : o # NULL => Mine(o)
        BY <3>1, <2>2
    <3>3. CASE d \in Cells[k]
        BY <3>2, <3>3
    <3>4. CASE d \notin Cells[k]
      <4>1. PICK o \in Cells[k] \ {NULL} : d = heap.link[o].next
          BY <3>1, <3>4
      <4>2. PICK y \in Of(g)!Incident(a) : y < b[a] /\ o = own[a][y]
          BY <3>2, <4>1 DEF Mine
      <4>3. y \in Int /\ y <= b[a] /\ LastBefore(g, own, a, y, d)
          BY <4>1, <4>2, <1>1, <1>2
      <4> QED
          BY <4>3, <1>9
    <3> QED
        BY <3>3, <3>4
  <2> HIDE DEF Q
  <2>3. Links \in Q
      BY <2>1, <2>2, <1>2, GraphAssumptions, P!SetOfNaturals
  <2> QED
      BY <2>3, <1>2 DEF Q
\* The link of an edge is reached within as many steps as there are numbers of edges
\* between it and the bound.
<1>11. \A y \in Of(g)!Incident(a) : y < b[a] => own[a][y] \in Cells[Links]
  <2> DEFINE Q == {k \in Nat : k \in 0 .. Links =>
                      /\ c \in Cells[k]
                      /\ \A y \in Of(g)!Incident(a) :
                            y < b[a] /\ b[a] - 1 - y <= k => own[a][y] \in Cells[k]}
  <2>0. \A y \in Of(g)!Incident(a) :
           y < b[a] /\ (\A z \in Of(g)!Incident(a) : z < b[a] => z <= y) => c = own[a][y]
    <3> SUFFICES ASSUME NEW y \in Of(g)!Incident(a), y < b[a],
                        \A z \in Of(g)!Incident(a) : z < b[a] => z <= y
                 PROVE  c = own[a][y]
        OBVIOUS
    <3>1. PICK z \in Of(g)!Incident(a) :
              /\ z < b[a] /\ c = own[a][z]
              /\ \A o \in Of(g)!Incident(a) : o < b[a] => o <= z
        BY <1>1 DEF LastBefore
    <3>2. z <= y /\ y <= z /\ y \in Int /\ z \in Int
        BY <3>1, <1>2
    <3>3. z = y
        BY <3>2
    <3> QED
        BY <3>1, <3>3
  <2>1. 0 \in Q
    <3>1. ASSUME NEW y \in Of(g)!Incident(a), y < b[a], b[a] - 1 - y <= 0
          PROVE  own[a][y] \in Cells[0]
      <4>1. \A z \in Of(g)!Incident(a) : z < b[a] => z <= y
          BY <3>1, <1>1, <1>2
      <4> QED
          BY <4>1, <3>1, <2>0, <1>7
    <3> QED
        BY <3>1, <1>7
  <2>2. ASSUME NEW k \in Nat, k \in Q PROVE k + 1 \in Q
    <3> SUFFICES ASSUME k + 1 \in 0 .. Links
                 PROVE  /\ c \in Cells[k + 1]
                        /\ \A y \in Of(g)!Incident(a) :
                              y < b[a] /\ b[a] - 1 - y <= k + 1 => own[a][y] \in Cells[k + 1]
        OBVIOUS
    <3>1. k \in 0 .. Links /\ Cells[k + 1] = More(Cells[k])
        BY <1>8
    <3>2. /\ c \in Cells[k]
          /\ \A y \in Of(g)!Incident(a) :
                y < b[a] /\ b[a] - 1 - y <= k => own[a][y] \in Cells[k]
        BY <3>1, <2>2
    <3>3. c \in Cells[k + 1]
        BY <3>1, <3>2
    <3>4. ASSUME NEW y \in Of(g)!Incident(a), y < b[a], b[a] - 1 - y <= k + 1
          PROVE  own[a][y] \in Cells[k + 1]
      <4> DEFINE Later == {z \in Of(g)!Incident(a) : y < z /\ z < b[a]}
      <4>1. CASE Later = {}
        <5>1. \A z \in Of(g)!Incident(a) : z < b[a] => z <= y
            BY <4>1, <1>1, <1>2
        <5> QED
            BY <5>1, <3>3, <3>4, <2>0
      <4>2. CASE Later # {}
        <5>1. Later \subseteq Nat
            BY <1>2
        <5>2. PICK z \in Later : \A o \in Later : ~(o < z)
            BY <4>2, <5>1, GraphAssumptions, P!LeastNatural
        <5>3. /\ z \in Of(g)!Incident(a) /\ y < z /\ z < b[a]
              /\ z \in Int /\ y \in Int
            BY <5>2, <1>2
        <5>4. b[a] - 1 - z <= k
            BY <5>3, <3>4, <1>1
        <5>5. own[a][z] \in Cells[k] /\ own[a][z] # NULL
            BY <5>3, <5>4, <3>2, <1>3
        <5>6. LastBefore(g, own, a, z, heap.link[own[a][z]].next)
            BY <5>3, <1>1
        <5>7. \A o \in Of(g)!Incident(a) : o < z => o <= y
          <6> SUFFICES ASSUME NEW o \in Of(g)!Incident(a), o < z, y < o PROVE FALSE
              BY <1>2
          <6>1. o \in Int /\ o < b[a]
              BY <5>3, <1>1, <1>2
          <6> QED
              BY <6>1, <5>2
        <5>8. heap.link[own[a][z]].next = own[a][y]
          <6>1. PICK o \in Of(g)!Incident(a) :
                    /\ o < z /\ heap.link[own[a][z]].next = own[a][o]
                    /\ \A v \in Of(g)!Incident(a) : v < z => v <= o
              BY <5>3, <5>6 DEF LastBefore
          <6>2. o <= y /\ y <= o /\ o \in Int /\ y \in Int
              BY <6>1, <5>3, <5>7, <1>2
          <6>3. o = y
              BY <6>2
          <6> QED
              BY <6>1, <6>3
        <5>9. own[a][y] \in More(Cells[k])
            BY <5>5, <5>8
        <5> QED
            BY <5>9, <3>1
      <4> QED
          BY <4>1, <4>2
    <3> QED
        BY <3>3, <3>4
  <2> HIDE DEF Q
  <2>3. Links \in Q
      BY <2>1, <2>2, <1>2, GraphAssumptions, P!SetOfNaturals
  <2>4. \A y \in Of(g)!Incident(a) : b[a] - 1 - y <= Links
      BY <1>1, <1>2
  <2>5. Links \in 0 .. Links
      BY <1>2
  <2> QED
      BY <2>3, <2>4, <2>5 DEF Q
<1>12. \A d : d \in Cells[Links] \ {NULL} <=> Mine(d)
    BY <1>3, <1>10, <1>11 DEF Mine
<1> QED
    BY <1>5, <1>12 DEF Mine, c

-----------------------------------------------------------------------------
(* The inductive invariant: what holds at each place of a call.             *)

Types ==
    /\ calls \in 0 .. Calls /\ at \in Places /\ g \in Inputs
    /\ HeapType(heap)
    /\ p \in Link \cup {NULL} /\ i \in Nat /\ result \in Nat

Heads == heap.head \in [Of(g)!Node -> Link \cup {NULL}]

\* The same bound for every node.
UpTo(k, x) == [a \in Of(k)!Node |-> x]

\* The lists hold every edge.
Complete(own) == Listed(g, own, UpTo(g, g.m + 1), heap.head, heap)

\* The lists hold the edges before edge i, with two links each, so that malloc finds
\* two more.
Connecting ==
    /\ i \in 1 .. g.m + 1
    /\ Heads /\ \E own : Listed(g, own, UpTo(g, i), heap.head, heap)
    /\ Cardinality(heap.live) = 2 * (i - 1)
    /\ h = Zeroed(Of(g)!Node) /\ e = Zeroed(Of(g)!Node) /\ f = Zeroed(Of(g)!Edge)
    /\ ListOf(g, excess, {})

\* The edges of the source from p on are not saturated yet.
Saturating ==
    /\ Heads /\ ListOf(g, excess, Excessive(g, e))
    /\ \E own : \E x \in Int :
          /\ Complete(own) /\ LastBefore(g, own, s, x, p)
          /\ G(g)!Preflow(h, e, f, {y \in Of(g)!Incident(s) : y < x})

Choosing ==
    /\ Heads /\ \E own : Complete(own)
    /\ ListOf(g, excess, Excessive(g, e))
    /\ G(g)!Preflow(h, e, f, {})

\* The edges of u before p are not admissible.
Scanning ==
    /\ Heads /\ u \in Excessive(g, e) /\ ListOf(g, excess, Excessive(g, e) \ {u})
    /\ G(g)!Preflow(h, e, f, {})
    /\ \E own : \E x \in Int :
          /\ Complete(own) /\ LastBefore(g, own, u, x, p)
          /\ \A y \in Of(g)!Incident(u) : y < x \/ ~Of(g)!Admissible(f, h, u, y)

\* Where the lists begin that free_graph has left.
Left == [a \in Of(g)!Node |-> IF a < i THEN NULL ELSE IF a = i THEN p ELSE heap.head[a]]

Freeing ==
    /\ Heads /\ i \in Of(g)!Node
    /\ \E own, b : Listed(g, own, b, Left, heap) /\ \A a \in Of(g)!Node : b[a] <= g.m + 1
    /\ excess.first = NoNode
    /\ G(g)!Preflow(h, e, f, {})
    /\ result = Of(g)!MaxFlowValue

IInv ==
    /\ Types
    /\ at \in {"out", "allocate"} => heap.live = {}
    /\ at = "connect" => Connecting
    /\ at = "initial" => Saturating
    /\ at = "choose" => Choosing
    /\ at = "scan" => Scanning
    /\ at = "free" => Freeing

LEMMA InitIInv == Init => IInv
<1> SUFFICES ASSUME Init PROVE IInv
    OBVIOUS
<1>1. g \in Inputs /\ Calls \in Nat
    BY InputsAssumption DEF Init
<1>2. HeapType(heap) /\ heap.live = {}
  <2>1. Freed \in Cell
      BY DEF Freed, Cell
  <2> QED
      BY <2>1 DEF Init, HeapType
<1>3. Types
    BY <1>1, <1>2 DEF Types, Init, Places
<1> QED
    BY <1>2, <1>3 DEF IInv, Init

LEMMA CallStep == IInv /\ Call => IInv'
<1> SUFFICES ASSUME IInv, Call PROVE IInv'
    OBVIOUS
<1>1. calls' \in 0 .. Calls
    BY InputsAssumption DEF IInv, Types, Call
<1>2. Types'
    BY <1>1 DEF IInv, Types, Call, Places, HeapType
<1> QED
    BY <1>2 DEF IInv, Call

LEMMA AllocateStep == IInv /\ Allocate => IInv'
<1> SUFFICES ASSUME IInv, Allocate PROVE IInv'
    OBVIOUS
<1> USE DEF Allocate
<1>1. Types /\ heap.live = {} /\ g \in Inputs
    BY DEF IInv, Types
<1>2. heap = [live |-> heap.live, link |-> heap.link, head |-> heap.head]
    BY <1>1 DEF Types, HeapType
<1> DEFINE made == [a \in Of(g)!Node |-> NULL]
<1>3. /\ heap' = [live |-> heap.live, link |-> heap.link, head |-> made]
      /\ heap'.head = made /\ heap'.live = {} /\ heap'.link = heap.link
    BY <1>1, <1>2
<1>4. Types'
    BY <1>1, <1>3 DEF Types, HeapType, Places
<1>5. Heads'
    BY <1>3 DEF Heads
<1>6. \E own : Listed(g, own, UpTo(g, 1), made, heap')
    BY <1>1, <1>3, NothingListed DEF UpTo
<1>7. \E own : Listed(g', own, UpTo(g', i'), heap'.head, heap')
    BY <1>3, <1>6
<1>8. Cardinality(heap'.live) = 2 * (i' - 1)
    BY <1>3, FS_EmptySet
<1>9. ListOf(g', excess', {})
    BY <1>1, EmptyLinked
<1>10. i' \in 1 .. g'.m + 1
    BY <1>1, InputFacts
<1>11. Connecting'
    BY <1>5, <1>7, <1>8, <1>9, <1>10 DEF Connecting
<1> QED
    BY <1>4, <1>11 DEF IInv

LEMMA ConnectStep == IInv /\ ConnectEdge => IInv'
<1> SUFFICES ASSUME IInv, ConnectEdge PROVE IInv'
    OBVIOUS
<1>1. /\ at = "connect" /\ i <= g.m
      /\ heap' = AddLink(AddLink(heap, g.u[i], i), g.v[i], i)
      /\ i' = i + 1 /\ UNCHANGED <<calls, at, g, h, e, f, excess, u, p, result>>
    BY DEF ConnectEdge
<1>2. Types /\ Connecting
    BY <1>1 DEF IInv
<1>3. g \in Inputs
    BY <1>2 DEF Types
<1> DEFINE a == g.u[i]
           b == g.v[i]
           mid == AddLink(heap, a, i)
<1>4. /\ i \in Of(g)!Edge /\ i \in Nat /\ 1 <= i /\ i <= g.m
      /\ g.m \in Nat /\ Links \in Nat /\ 2 * g.m <= Links
    BY <1>3, <1>1, <1>2, InputFacts, GraphFacts DEF Connecting
<1>5. /\ a \in Of(g)!Node /\ b \in Of(g)!Node /\ a # b
      /\ i \in Of(g)!Incident(a) /\ i \in Of(g)!Incident(b)
      /\ \A w \in Of(g)!Node : w \notin {a, b} => i \notin Of(g)!Incident(w)
    BY <1>3, <1>4, InputFacts, GraphFacts
<1>6. PICK own : Listed(g, own, UpTo(g, i), heap.head, heap)
    BY <1>2 DEF Connecting
<1>7. /\ HeapType(heap) /\ heap.head \in [Of(g)!Node -> Link \cup {NULL}]
      /\ Cardinality(heap.live) = 2 * (i - 1)
    BY <1>2 DEF Types, Connecting, Heads
<1> DEFINE b1 == UpTo(g, i)
           b2 == [b1 EXCEPT ![a] = i + 1]
           b3 == [b2 EXCEPT ![b] = i + 1]
<1>8. /\ b1 \in [Of(g)!Node -> Int] /\ \A w \in Of(g)!Node : b1[w] = i
    BY <1>4 DEF UpTo
<1>9. heap' = AddLink(mid, b, i)
    BY <1>1
<1> HIDE DEF a, b, b1, mid
<1>10. b2 \in [Of(g)!Node -> Int] /\ b2[b] = i /\ b2[a] = i + 1
      /\ \A w \in Of(g)!Node : w # a => b2[w] = i
    BY <1>4, <1>5, <1>8
<1> HIDE DEF b2
<1>11. /\ b3 \in [Of(g)!Node -> Int]
      /\ \A w \in Of(g)!Node : b3[w] = IF w \in {a, b} THEN i + 1 ELSE i
    BY <1>4, <1>5, <1>10
<1> HIDE DEF b3
<1>12. Cardinality(heap.live) < Links
    BY <1>4, <1>7
<1>13. /\ HeapType(mid) /\ mid.head \in [Of(g)!Node -> Link \cup {NULL}]
       /\ Cardinality(mid.live) = 2 * (i - 1) + 1
       /\ \E own2 : Listed(g, own2, b2, mid.head, mid)
  <2>1. Addable(g, own, b1, heap, a, i)
    <3>1. b1[a] = i
        BY <1>5, <1>8
    <3>2. Listed(g, own, b1, heap.head, heap)
        BY <1>6 DEF b1
    <3> QED
        BY <3>1, <3>2, <1>5, <1>7, <1>12 DEF Addable
  <2>2. Raised(g, b1, a, b2)
      BY <1>5, <1>8, <1>10 DEF Raised
  <2>3. mid = AddLink(heap, a, i)
      BY DEF mid
  <2>4. /\ HeapType(mid) /\ mid.head \in [Of(g)!Node -> Link \cup {NULL}]
        /\ Cardinality(mid.live) = Cardinality(heap.live) + 1
        /\ \E own2 : Listed(g, own2, b2, mid.head, mid)
      BY <2>1, <2>2, <2>3, <1>3, LinkAdded
  <2> QED
      BY <2>4, <1>7
<1>14. PICK own2 : Listed(g, own2, b2, mid.head, mid)
    BY <1>13
<1>15. Cardinality(mid.live) < Links
    BY <1>4, <1>13
<1>16. /\ HeapType(heap') /\ heap'.head \in [Of(g)!Node -> Link \cup {NULL}]
       /\ Cardinality(heap'.live) = Cardinality(mid.live) + 1
       /\ \E own3 : Listed(g, own3, b3, heap'.head, heap')
  <2>1. Addable(g, own2, b2, mid, b, i)
      BY <1>5, <1>10, <1>13, <1>14, <1>15 DEF Addable
  <2>2. Raised(g, b2, b, b3)
      BY <1>5, <1>10, <1>11 DEF Raised
  <2> QED
      BY <2>1, <2>2, <1>9, <1>3, LinkAdded
<1>17. PICK own3 : Listed(g, own3, b3, heap'.head, heap')
    BY <1>16
<1>18. Listed(g, own3, UpTo(g, i + 1), heap'.head, heap')
  <2>1. UpTo(g, i + 1) \in [Of(g)!Node -> Int]
      BY <1>4 DEF UpTo
  <2>2. \A w \in Of(g)!Node : \A y \in Of(g)!Incident(w) : y < b3[w] <=> y < UpTo(g, i + 1)[w]
    <3> SUFFICES ASSUME NEW w \in Of(g)!Node, NEW y \in Of(g)!Incident(w)
                 PROVE  y < b3[w] <=> y < i + 1
        BY DEF UpTo
    <3>1. y \in Int
        BY <1>3, <1>4, GraphFacts
    <3>2. CASE w \in {a, b}
        BY <3>2, <1>11
    <3>3. CASE w \notin {a, b}
      <4>1. y # i /\ b3[w] = i
          BY <3>3, <1>5, <1>11
      <4> QED
          BY <4>1, <3>1, <1>4
    <3> QED
        BY <3>2, <3>3
  <2> QED
      BY <2>1, <2>2, <1>3, <1>17, SameBounds
<1>19. Connecting'
  <2>1. i' = i + 1 /\ i' \in 1 .. g'.m + 1 /\ g' = g
      BY <1>1, <1>4
  <2>2. Cardinality(heap'.live) = 2 * (i' - 1)
      BY <2>1, <1>4, <1>13, <1>16
  <2>3. Heads'
      BY <2>1, <1>16 DEF Heads
  <2>4. \E own4 : Listed(g', own4, UpTo(g', i'), heap'.head, heap')
      BY <2>1, <1>18
  <2> QED
      BY <2>1, <2>2, <2>3, <2>4, <1>1, <1>2 DEF Connecting
<1>20. Types'
    BY <1>1, <1>2, <1>4, <1>16 DEF Types
<1> QED
    BY <1>1, <1>19, <1>20 DEF IInv

LEMMA OutOfMemoryStep == IInv /\ OutOfMemory => IInv'
<1> SUFFICES ASSUME IInv, OutOfMemory PROVE IInv'
    OBVIOUS
<1>1. Types'
    BY DEF IInv, Types, OutOfMemory, Places, HeapType
<1> QED
    BY <1>1 DEF IInv, OutOfMemory

\* An action that moves on without the heap.
LEMMA TypesKept ==
    ASSUME Types, at' \in Places, p' \in Link \cup {NULL}, i' \in Nat, result' \in Nat,
           UNCHANGED <<calls, g, heap>>
    PROVE  Types'
BY DEF Types, HeapType

\* A link of one of a's edges.
LEMMA LinkFacts ==
    ASSUME g \in Inputs, NEW own, Complete(own), NEW a \in Of(g)!Node, NEW x \in Int,
           LastBefore(g, own, a, x, p), p # NULL, HeapType(heap)
    PROVE  \E y \in Of(g)!Incident(a) :
              /\ y \in Int /\ y < x
              /\ \A z \in Of(g)!Incident(a) : z < x <=> z = y \/ z < y
              /\ p \in Link /\ p = own[a][y]
              /\ heap.link[p].edge = y
              /\ heap.link[p].next \in Link \cup {NULL}
              /\ LastBefore(g, own, a, y, heap.link[p].next)
<1>1. PICK y \in Of(g)!Incident(a) :
          /\ y < x /\ p = own[a][y]
          /\ \A z \in Of(g)!Incident(a) : z < x => z <= y
    BY FirstLink
<1>2. g.m \in Nat /\ \A z \in Of(g)!Incident(a) : z \in Int /\ z \in Of(g)!Edge /\ z < g.m + 1
  <2>1. g.m \in Nat
      BY InputFacts
  <2> QED
      BY <2>1, GraphFacts
<1>3. /\ own \in [Of(g)!Node -> [Of(g)!Edge -> Link]]
      /\ \A z \in Of(g)!Incident(a) :
            /\ heap.link[own[a][z]].edge = z
            /\ LastBefore(g, own, a, z, heap.link[own[a][z]].next)
    BY <1>2 DEF Complete, Listed, UpTo
<1>4. p \in Link
    BY <1>1, <1>2, <1>3
<1>5. heap.link[p].next \in Link \cup {NULL}
    BY <1>4 DEF HeapType, Cell
<1>6. \A z \in Of(g)!Incident(a) : z < x <=> z = y \/ z < y
  <2> SUFFICES ASSUME NEW z \in Of(g)!Incident(a) PROVE z < x <=> z = y \/ z < y
      OBVIOUS
  <2>1. z \in Int /\ y \in Int /\ y < x /\ (z < x => z <= y)
      BY <1>1, <1>2
  <2> QED
      BY <2>1
<1> QED
    BY <1>1, <1>2, <1>3, <1>4, <1>5, <1>6

LEMMA StartStep == IInv /\ StartPushing => IInv'
<1> SUFFICES ASSUME IInv, StartPushing PROVE IInv'
    OBVIOUS
<1>1. /\ at = "connect" /\ i > g.m /\ h' = [h EXCEPT ![s] = g.n] /\ p' = heap.head[s]
      /\ at' = "initial" /\ UNCHANGED <<calls, g, e, f, heap, excess, u, i, result>>
    BY DEF StartPushing
<1>2. Types /\ Connecting
    BY <1>1 DEF IInv
<1>3. g \in Inputs /\ s \in Of(g)!Node /\ g.m \in Nat
    BY <1>2, GraphFacts, InputFacts DEF Types
<1>4. i = g.m + 1
    BY <1>1, <1>2, <1>3 DEF Connecting
<1>5. PICK own : Complete(own)
    BY <1>2, <1>4 DEF Connecting, Complete
<1>6. p' \in Link \cup {NULL} /\ LastBefore(g, own, s, g.m + 1, p')
    BY <1>1, <1>2, <1>3, <1>5 DEF Connecting, Heads, Complete, Listed, UpTo
<1> DEFINE pend == {y \in Of(g)!Incident(s) : y < g.m + 1}
<1>7. pend = Of(g)!Incident(s)
    BY <1>3, GraphFacts
<1>8. G(g)!Preflow(h', e, f, pend)
    BY <1>1, <1>2, <1>3, <1>7, RisenIsPreflow DEF Connecting
<1>9. ListOf(g, excess, Excessive(g, e))
  <2>1. Excessive(g, e) = {}
      BY <1>2, <1>3, GraphFacts DEF Connecting, Excessive, Zeroed
  <2> QED
      BY <2>1, <1>2 DEF Connecting
<1>10. Types'
    BY <1>1, <1>2, <1>6, TypesKept DEF Types, Places
<1>11. Saturating'
  <2>1. Heads' /\ Complete(own)'
      BY <1>1, <1>2, <1>5 DEF Connecting, Heads, Complete
  <2>2. g.m + 1 \in Int
      BY <1>3
  <2> QED
      BY <2>1, <2>2, <1>1, <1>6, <1>8, <1>9 DEF Saturating
<1> QED
    BY <1>1, <1>10, <1>11 DEF IInv

LEMMA InitialPushStep == IInv /\ InitialPush => IInv'
<1> SUFFICES ASSUME IInv, InitialPush PROVE IInv'
    OBVIOUS
<1>1. /\ at = "initial" /\ p # NULL /\ p' = heap.link[p].next
      /\ UNCHANGED <<calls, at, g, h, heap, u, i, result>>
      /\ PushAlong([e EXCEPT ![s] = @ + g.c[heap.link[p].edge]], s, heap.link[p].edge)
    BY DEF InitialPush
<1>2. Types /\ Saturating /\ g \in Inputs /\ s \in Of(g)!Node /\ s \notin Of(g)!Inner
    BY <1>1, GraphFacts DEF IInv, Types
<1>3. PICK own, x : /\ x \in Int /\ Complete(own) /\ LastBefore(g, own, s, x, p)
                    /\ G(g)!Preflow(h, e, f, {y \in Of(g)!Incident(s) : y < x})
    BY <1>2 DEF Saturating
<1>4. HeapType(heap)
    BY <1>2 DEF Types
<1> DEFINE y == heap.link[p].edge
           pend == {z \in Of(g)!Incident(s) : z < x}
           raised == [e EXCEPT ![s] = @ + g.c[y]]
           d == Of(g)!Amount(f, raised, s, y)
           b == Of(g)!Other(s, y)
<1>5. /\ y \in Of(g)!Incident(s) /\ y \in Int /\ y < x
      /\ \A z \in Of(g)!Incident(s) : z < x <=> z = y \/ z < y
      /\ heap.link[p].next \in Link \cup {NULL}
      /\ LastBefore(g, own, s, y, heap.link[p].next)
    BY <1>1, <1>2, <1>3, <1>4, LinkFacts
<1>6. /\ f' = Of(g)!FlowAfter(f, s, y, d)
      /\ e' = Of(g)!ExcessAfter(raised, s, y, d)
      /\ excess' = EnteredIfNew(IF e'[s] > 0 THEN Entered(excess, s) ELSE excess, e', b, d)
    BY <1>1 DEF PushAlong
<1> HIDE DEF y
<1>7. y \in pend /\ pend \ {y} = {z \in Of(g)!Incident(s) : z < y}
  <2>1. ~(y < y)
      BY <1>5
  <2>2. ASSUME NEW z PROVE z \in pend /\ z # y <=> z \in Of(g)!Incident(s) /\ z < y
      BY <2>1, <1>5
  <2> QED
      BY <2>2, <1>5
<1>8. b \in Of(g)!Node /\ b # s
    BY <1>2, <1>5, GraphFacts
<1> HIDE DEF raised, d, b, pend
<1>9. /\ G(g)!Preflow(h, e', f', pend \ {y})
      /\ d \in Nat /\ d > 0
      /\ e'[b] = e[b] + d
      /\ \A a \in Of(g)!Inner : a # b => e'[a] = e[a]
  <2>1. G(g)!Preflow(h, e, f, pend)
      BY <1>3 DEF pend
  <2>2. /\ raised \in [Of(g)!Node -> Nat] /\ raised[s] = e[s] + g.c[y]
        /\ \A a \in Of(g)!Node : a # s => raised[a] = e[a]
    <3>1. e \in [Of(g)!Node -> Nat]
        BY <1>2, <2>1, PreflowFacts
    <3>2. g.c[y] \in Nat
        BY <1>2, <1>5, GraphFacts, InputFacts
    <3> QED
        BY <3>1, <3>2, <1>2 DEF raised
  <2>3. d = Of(g)!Amount(f, raised, s, y)
      BY DEF d
  <2>4. /\ G(g)!Preflow(h, e', f', pend \ {y})
        /\ d \in Nat /\ d > 0
        /\ e'[Of(g)!Other(s, y)] = e[Of(g)!Other(s, y)] + d
        /\ \A a \in Of(g)!Inner : a # Of(g)!Other(s, y) => e'[a] = e[a]
      BY <2>1, <2>2, <2>3, <1>2, <1>6, <1>7, FirstPush
  <2> QED
      BY <2>4 DEF b
<1>10. ListOf(g, excess', Excessive(g, e'))
  <2>1. e \in [Of(g)!Node -> Nat]
      BY <1>2, <1>3, PreflowFacts
  <2>2. Excessive(g, e) \ {s} = Excessive(g, e)
      BY <1>2 DEF Excessive
  <2>3. ListOf(g, excess, Excessive(g, e) \ {s})
      BY <2>2, <1>2 DEF Saturating
  <2>4. \A c \in Of(g)!Inner : c \notin {s, b} => e'[c] = e[c]
      BY <1>9
  <2>5. ListOf(g, EnteredIfNew(IF e'[s] > 0 THEN Entered(excess, s) ELSE excess, e', b, d),
               Excessive(g, e'))
      BY <2>1, <2>3, <2>4, <1>2, <1>8, <1>9, PushedList
  <2> QED
      BY <2>5, <1>6
<1>11. Types'
    BY <1>1, <1>2, <1>5, TypesKept DEF Types
<1>12. Saturating'
  <2>1. Heads' /\ Complete(own)'
      BY <1>1, <1>2, <1>3 DEF Saturating, Heads, Complete
  <2>2. G(g)!Preflow(h, e', f', {z \in Of(g)!Incident(s) : z < y})
      BY <1>7, <1>9
  <2> QED
      BY <2>1, <2>2, <1>1, <1>5, <1>10 DEF Saturating
<1> QED
    BY <1>1, <1>11, <1>12 DEF IInv

LEMMA InitialDoneStep == IInv /\ InitialPushesDone => IInv'
<1> SUFFICES ASSUME IInv, InitialPushesDone PROVE IInv'
    OBVIOUS
<1>1. /\ at = "initial" /\ p = NULL /\ at' = "choose"
      /\ UNCHANGED <<calls, g, h, e, f, heap, excess, u, p, i, result>>
    BY DEF InitialPushesDone
<1>2. Types /\ Saturating /\ g \in Inputs /\ s \in Of(g)!Node
    BY <1>1, GraphFacts DEF IInv, Types
<1>3. PICK own, x : /\ x \in Int /\ Complete(own) /\ LastBefore(g, own, s, x, NULL)
                    /\ G(g)!Preflow(h, e, f, {y \in Of(g)!Incident(s) : y < x})
    BY <1>1, <1>2 DEF Saturating
<1>4. own \in [Of(g)!Node -> [Of(g)!Edge -> Link]]
    BY <1>3 DEF Complete, Listed
<1>5. {y \in Of(g)!Incident(s) : y < x} = {}
    BY <1>2, <1>3, <1>4, NoLink
<1>6. G(g)!Preflow(h, e, f, {})
    BY <1>3, <1>5
<1>7. Types'
    BY <1>1, <1>2, TypesKept DEF Types, Places
<1>8. Choosing'
  <2>1. Heads' /\ Complete(own)'
      BY <1>1, <1>2, <1>3 DEF Saturating, Heads, Complete
  <2> QED
      BY <2>1, <1>1, <1>2, <1>6 DEF Saturating, Choosing
<1> QED
    BY <1>1, <1>7, <1>8 DEF IInv

LEMMA LeaveStep == IInv /\ LeaveExcess => IInv'
<1> SUFFICES ASSUME IInv, LeaveExcess PROVE IInv'
    OBVIOUS
<1>1. /\ at = "choose" /\ excess.first # NoNode /\ u' = excess.first
      /\ excess' = [excess EXCEPT !.first = excess.next[@]]
      /\ p' = heap.head[u'] /\ at' = "scan"
      /\ UNCHANGED <<calls, g, h, e, f, heap, i, result>>
    BY DEF LeaveExcess
<1>2. Types /\ Choosing /\ g \in Inputs
    BY <1>1 DEF IInv, Types
<1>3. PICK own : Complete(own)
    BY <1>2 DEF Choosing
<1>4. /\ u' \in Of(g)!Inner /\ u' \in Excessive(g, e)
      /\ ListOf(g, excess', Excessive(g, e) \ {u'})
  <2>1. ListOf(g, excess, Excessive(g, e))
      BY <1>2 DEF Choosing
  <2>2. /\ excess.first \in Of(g)!Inner /\ excess.first \in Excessive(g, e)
        /\ ListOf(g, [excess EXCEPT !.first = excess.next[@]], Excessive(g, e) \ {excess.first})
      BY <2>1, <1>1, <1>2, LeaveFront
  <2> QED
      BY <2>2, <1>1
<1>5. u' \in Of(g)!Node
    BY <1>2, <1>4, GraphFacts
<1>6. p' \in Link \cup {NULL} /\ LastBefore(g, own, u', g.m + 1, p')
    BY <1>1, <1>2, <1>3, <1>5 DEF Choosing, Heads, Complete, Listed, UpTo
<1>7. g.m + 1 \in Int /\ \A y \in Of(g)!Incident(u') : y < g.m + 1
  <2>1. g.m \in Nat
      BY <1>2, InputFacts
  <2> QED
      BY <2>1, <1>2, GraphFacts
<1>8. Types'
    BY <1>1, <1>2, <1>6, TypesKept DEF Types, Places
<1>9. Scanning'
  <2>1. Heads' /\ Complete(own)'
      BY <1>1, <1>2, <1>3 DEF Choosing, Heads, Complete
  <2>2. \E own2 : \E x \in Int :
            /\ Complete(own2)' /\ LastBefore(g', own2, u', x, p')
            /\ \A y \in Of(g')!Incident(u') : y < x \/ ~Of(g')!Admissible(f', h', u', y)
      BY <2>1, <1>1, <1>6, <1>7
  <2> QED
      BY <2>1, <2>2, <1>1, <1>2, <1>4 DEF Choosing, Scanning
<1> QED
    BY <1>1, <1>8, <1>9 DEF IInv

\* What a scan knows.
LEMMA ScanFacts ==
    ASSUME IInv, at = "scan"
    PROVE  /\ Types /\ Scanning /\ g \in Inputs /\ HeapType(heap)
           /\ u \in Of(g)!Inner /\ u \in Of(g)!Node /\ e[u] > 0
           /\ e \in [Of(g)!Node -> Nat]
<1>1. Types /\ Scanning /\ g \in Inputs /\ HeapType(heap)
    BY DEF IInv, Types
<1>2. u \in Of(g)!Inner /\ e[u] > 0
    BY <1>1 DEF Scanning, Excessive
<1>3. u \in Of(g)!Node
    BY <1>1, <1>2, GraphFacts
<1>4. e \in [Of(g)!Node -> Nat]
    BY <1>1, PreflowFacts DEF Scanning
<1> QED
    BY <1>1, <1>2, <1>3, <1>4

LEMMA ScanOnStep == IInv /\ ScanOn => IInv'
<1> SUFFICES ASSUME IInv, ScanOn PROVE IInv'
    OBVIOUS
<1>1. /\ at = "scan" /\ p # NULL /\ ~Of(g)!Admissible(f, h, u, heap.link[p].edge)
      /\ p' = heap.link[p].next
      /\ UNCHANGED <<calls, at, g, h, e, f, heap, excess, u, i, result>>
    BY DEF ScanOn, Found
<1>2. Types /\ Scanning /\ g \in Inputs /\ HeapType(heap) /\ u \in Of(g)!Node
    BY <1>1, ScanFacts
<1>3. PICK own, x : /\ x \in Int /\ Complete(own) /\ LastBefore(g, own, u, x, p)
                    /\ \A y \in Of(g)!Incident(u) : y < x \/ ~Of(g)!Admissible(f, h, u, y)
    BY <1>2 DEF Scanning
<1>4. PICK y \in Of(g)!Incident(u) :
          /\ y \in Int
          /\ \A z \in Of(g)!Incident(u) : z < x <=> z = y \/ z < y
          /\ heap.link[p].edge = y
          /\ heap.link[p].next \in Link \cup {NULL}
          /\ LastBefore(g, own, u, y, heap.link[p].next)
    BY <1>1, <1>2, <1>3, LinkFacts
<1>5. \A z \in Of(g)!Incident(u) : z < y \/ ~Of(g)!Admissible(f, h, u, z)
    BY <1>1, <1>3, <1>4
<1>6. Types'
    BY <1>1, <1>2, <1>4, TypesKept DEF Types
<1>7. Scanning'
  <2>1. Heads' /\ Complete(own)'
      BY <1>1, <1>2, <1>3 DEF Scanning, Heads, Complete
  <2>2. \E own2 : \E z \in Int :
            /\ Complete(own2)' /\ LastBefore(g', own2, u', z, p')
            /\ \A v \in Of(g')!Incident(u') : v < z \/ ~Of(g')!Admissible(f', h', u', v)
      BY <2>1, <1>1, <1>4, <1>5
  <2> QED
      BY <2>1, <2>2, <1>1, <1>2 DEF Scanning
<1> QED
    BY <1>1, <1>6, <1>7 DEF IInv

LEMMA PushStep == IInv /\ Push => IInv'
<1> SUFFICES ASSUME IInv, Push PROVE IInv'
    OBVIOUS
<1>1. /\ at = "scan" /\ p # NULL /\ Of(g)!Admissible(f, h, u, heap.link[p].edge)
      /\ PushAlong(e, u, heap.link[p].edge) /\ at' = "choose"
      /\ UNCHANGED <<calls, g, h, heap, u, p, i, result>>
    BY DEF Push, Found
<1>2. /\ Types /\ Scanning /\ g \in Inputs /\ HeapType(heap) /\ u \in Of(g)!Node
      /\ e[u] > 0 /\ e \in [Of(g)!Node -> Nat]
    BY <1>1, ScanFacts
<1>3. PICK own, x : /\ x \in Int /\ Complete(own) /\ LastBefore(g, own, u, x, p)
    BY <1>2 DEF Scanning
<1> DEFINE y == heap.link[p].edge
           d == Of(g)!Amount(f, e, u, y)
           b == Of(g)!Other(u, y)
<1>4. y \in Of(g)!Incident(u)
    BY <1>1, <1>2, <1>3, LinkFacts
<1>5. /\ f' = Of(g)!FlowAfter(f, u, y, d)
      /\ e' = Of(g)!ExcessAfter(e, u, y, d)
      /\ excess' = EnteredIfNew(IF e'[u] > 0 THEN Entered(excess, u) ELSE excess, e', b, d)
      /\ Of(g)!Admissible(f, h, u, y)
    BY <1>1 DEF PushAlong
<1> HIDE DEF y
<1>6. b \in Of(g)!Node /\ u # b
    BY <1>2, <1>4, GraphFacts
<1>7. /\ G(g)!Preflow(h, e', f', {})
      /\ d \in Nat /\ d > 0
      /\ e'[b] = e[b] + d
      /\ \A c \in Of(g)!Inner : c \notin {u, b} => e'[c] = e[c]
  <2>1. G(g)!Preflow(h, e, f, {}) /\ d = Of(g)!Amount(f, e, u, y)
      BY <1>2 DEF Scanning
  <2> HIDE DEF d
  <2>2. /\ G(g)!Preflow(h, e', f', {})
        /\ d \in Nat /\ d > 0
        /\ e'[Of(g)!Other(u, y)] = e[Of(g)!Other(u, y)] + d
        /\ \A c \in Of(g)!Inner : c \notin {u, Of(g)!Other(u, y)} => e'[c] = e[c]
      BY <2>1, <1>2, <1>4, <1>5, LaterPush
  <2> QED
      BY <2>2
<1> HIDE DEF d, b
<1>8. ListOf(g, excess', Excessive(g, e'))
  <2>1. ListOf(g, excess, Excessive(g, e) \ {u})
      BY <1>2 DEF Scanning
  <2>2. ListOf(g, EnteredIfNew(IF e'[u] > 0 THEN Entered(excess, u) ELSE excess, e', b, d),
               Excessive(g, e'))
      BY <2>1, <1>2, <1>6, <1>7, PushedList
  <2> QED
      BY <2>2, <1>5
<1>9. Types'
    BY <1>1, <1>2, TypesKept DEF Types, Places
<1>10. Choosing'
  <2>1. Heads' /\ Complete(own)'
      BY <1>1, <1>2, <1>3 DEF Scanning, Heads, Complete
  <2> QED
      BY <2>1, <1>1, <1>7, <1>8 DEF Choosing
<1> QED
    BY <1>1, <1>9, <1>10 DEF IInv

LEMMA RelabelStep == IInv /\ Relabel => IInv'
<1> SUFFICES ASSUME IInv, Relabel PROVE IInv'
    OBVIOUS
<1>1. /\ at = "scan" /\ p = NULL /\ h' = [h EXCEPT ![u] = @ + 1]
      /\ excess' = Entered(excess, u) /\ at' = "choose"
      /\ UNCHANGED <<calls, g, e, f, heap, u, p, i, result>>
    BY DEF Relabel
<1>2. /\ Types /\ Scanning /\ g \in Inputs /\ u \in Of(g)!Inner /\ u \in Of(g)!Node
      /\ e[u] > 0
    BY <1>1, ScanFacts
<1>3. PICK own, x : /\ x \in Int /\ Complete(own) /\ LastBefore(g, own, u, x, NULL)
                    /\ \A y \in Of(g)!Incident(u) : y < x \/ ~Of(g)!Admissible(f, h, u, y)
    BY <1>1, <1>2 DEF Scanning
<1>4. own \in [Of(g)!Node -> [Of(g)!Edge -> Link]]
    BY <1>3 DEF Complete, Listed
<1>5. \A y \in Of(g)!Incident(u) : ~Of(g)!Admissible(f, h, u, y)
    BY <1>2, <1>3, <1>4, NoLink
<1>6. G(g)!Preflow(h', e, f, {})
    BY <1>1, <1>2, <1>5, RelabelIsPreflow DEF Scanning
<1>7. ListOf(g, excess', Excessive(g, e))
  <2>1. ListOf(g, excess, Excessive(g, e) \ {u}) /\ u \notin Excessive(g, e) \ {u}
      BY <1>2 DEF Scanning
  <2>2. ListOf(g, Entered(excess, u), (Excessive(g, e) \ {u}) \cup {u})
      BY <2>1, <1>2, EnterInFront
  <2>3. (Excessive(g, e) \ {u}) \cup {u} = Excessive(g, e)
      BY <1>2 DEF Excessive
  <2> QED
      BY <2>2, <2>3, <1>1
<1>8. Types'
    BY <1>1, <1>2, TypesKept DEF Types, Places
<1>9. Choosing'
  <2>1. Heads' /\ Complete(own)'
      BY <1>1, <1>2, <1>3 DEF Scanning, Heads, Complete
  <2> QED
      BY <2>1, <1>1, <1>6, <1>7 DEF Choosing
<1> QED
    BY <1>1, <1>8, <1>9 DEF IInv

LEMMA ReturnStep == IInv /\ ReturnFlow => IInv'
<1> SUFFICES ASSUME IInv, ReturnFlow PROVE IInv'
    OBVIOUS
<1>1. /\ at = "choose" /\ excess.first = NoNode /\ result' = e[t]
      /\ i' = 0 /\ p' = heap.head[0] /\ at' = "free"
      /\ UNCHANGED <<calls, g, h, e, f, heap, excess, u>>
    BY DEF ReturnFlow
<1>2. Types /\ Choosing /\ g \in Inputs
    BY <1>1 DEF IInv, Types
<1>3. /\ 0 \in Of(g)!Node /\ t \in Of(g)!Node /\ g.m \in Nat
      /\ \A a \in Of(g)!Node : a \in Int /\ ~(a < 0)
  <2>1. g.n \in Nat /\ g.m \in Nat
      BY <1>2, InputFacts
  <2> QED
      BY <2>1, <1>2, GraphFacts
<1>4. PICK own : Complete(own)
    BY <1>2 DEF Choosing
<1>5. G(g)!Preflow(h, e, f, {}) /\ e \in [Of(g)!Node -> Nat]
    BY <1>2, PreflowFacts DEF Choosing
<1>6. \A a \in Of(g)!Inner : e[a] = 0
  <2>1. Excessive(g, e) = {}
      BY <1>1, <1>2, LeaveFront DEF Choosing
  <2>2. \A a \in Of(g)!Inner : e[a] \in Nat /\ ~(e[a] > 0)
      BY <2>1, <1>2, <1>5, GraphFacts DEF Excessive
  <2> QED
      BY <2>2
<1>7. result' = Of(g)!MaxFlowValue /\ result' \in Nat
    BY <1>1, <1>2, <1>3, <1>5, <1>6, FinalPreflow
<1>8. heap.head \in [Of(g)!Node -> Link \cup {NULL}]
    BY <1>2 DEF Choosing, Heads
<1>9. Left' = heap.head
  <2>1. Left' = [a \in Of(g)!Node |-> heap.head[a]]
      BY <1>1, <1>3 DEF Left
  <2> QED
      BY <2>1, <1>8
<1>10. Types'
    BY <1>1, <1>2, <1>3, <1>7, <1>8, TypesKept DEF Types, Places
<1>11. Freeing'
  <2> DEFINE b == UpTo(g, g.m + 1)
  <2>1. Listed(g, own, b, heap.head, heap) /\ \A a \in Of(g)!Node : b[a] <= g.m + 1
      BY <1>3, <1>4 DEF Complete, UpTo
  <2> HIDE DEF b
  <2>2. \E own2, b2 : Listed(g', own2, b2, Left', heap')
                      /\ \A a \in Of(g')!Node : b2[a] <= g'.m + 1
      BY <2>1, <1>1, <1>9
  <2>3. Heads' /\ i' \in Of(g')!Node
      BY <1>1, <1>2, <1>3 DEF Choosing, Heads
  <2> QED
      BY <2>2, <2>3, <1>1, <1>5, <1>7 DEF Freeing
<1> QED
    BY <1>1, <1>10, <1>11 DEF IInv

\* What free_graph knows.
LEMMA FreeFacts ==
    ASSUME IInv, at = "free"
    PROVE  /\ Types /\ Freeing /\ g \in Inputs /\ HeapType(heap)
           /\ i \in Of(g)!Node /\ g.m \in Nat /\ g.n \in Nat
           /\ Left \in [Of(g)!Node -> Link \cup {NULL}]
           /\ Left[i] = p
           /\ \A a \in Of(g)!Node : a \in Int
<1>1. Types /\ Freeing /\ g \in Inputs /\ HeapType(heap) /\ i \in Of(g)!Node
    BY DEF IInv, Types, Freeing
<1>2. g.m \in Nat /\ g.n \in Nat /\ \A a \in Of(g)!Node : a \in Int
    BY <1>1, InputFacts, GraphFacts
<1>3. p \in Link \cup {NULL} /\ heap.head \in [Of(g)!Node -> Link \cup {NULL}]
    BY <1>1 DEF Types, Freeing, Heads
<1>4. Left \in [Of(g)!Node -> Link \cup {NULL}]
    BY <1>3 DEF Left
<1>5. Left[i] = p
  <2>1. ~(i < i)
      BY <1>1, <1>2
  <2> QED
      BY <2>1, <1>1 DEF Left
<1> QED
    BY <1>1, <1>2, <1>4, <1>5

LEMMA FreeLinkStep == IInv /\ FreeLink => IInv'
<1> SUFFICES ASSUME IInv, FreeLink PROVE IInv'
    OBVIOUS
<1>1. /\ at = "free" /\ p # NULL
      /\ heap' = [heap EXCEPT !.live = @ \ {p}, !.link[p] = Freed]
      /\ p' = heap.link[p].next
      /\ UNCHANGED <<calls, at, g, h, e, f, excess, u, i, result>>
    BY DEF FreeLink
<1>2. /\ Types /\ Freeing /\ g \in Inputs /\ HeapType(heap)
      /\ i \in Of(g)!Node /\ g.m \in Nat
      /\ Left \in [Of(g)!Node -> Link \cup {NULL}] /\ Left[i] = p
      /\ \A a \in Of(g)!Node : a \in Int
    BY <1>1, FreeFacts
<1>3. PICK own, b : Listed(g, own, b, Left, heap) /\ \A a \in Of(g)!Node : b[a] <= g.m + 1
    BY <1>2 DEF Freeing
<1>4. PICK b2 : /\ HeapType(heap') /\ heap'.head = heap.head
                /\ Listed(g, own, b2, Left', heap')
                /\ \A w \in Of(g)!Node : b2[w] <= b[w]
  <2>1. heap'.head = heap.head
      BY <1>1, <1>2 DEF HeapType
  <2>2. Left' = [a \in Of(g)!Node |-> IF a < i THEN NULL
                                      ELSE IF a = i THEN p' ELSE heap.head[a]]
      BY <2>1, <1>1 DEF Left
  <2>3. ~(i < i)
      BY <1>2
  <2>4. Advanced(g, Left, i, heap.link[p].next, Left')
      BY <2>2, <2>3, <1>1, <1>2 DEF Left, Advanced
  <2>5. Removable(g, own, b, Left, heap, i, p) /\ heap' = Without(heap, p)
      BY <1>1, <1>2, <1>3 DEF Removable, Without
  <2>6. \E b2 : /\ Listed(g, own, b2, Left', heap')
                /\ \A w \in Of(g)!Node : b2[w] <= b[w]
      BY <2>4, <2>5, <1>2, LinkFreed
  <2>7. HeapType(heap')
      BY <2>4, <2>5, <1>2, LinkFreed
  <2> QED
      BY <2>1, <2>6, <2>7
<1>5. p' \in Link \cup {NULL}
  <2>1. p \in Link
      BY <1>1, <1>2 DEF Types
  <2> QED
      BY <2>1, <1>1, <1>2 DEF HeapType, Cell
<1>6. \A a \in Of(g)!Node : b2[a] <= g.m + 1
  <2> SUFFICES ASSUME NEW a \in Of(g)!Node PROVE b2[a] <= g.m + 1
      OBVIOUS
  <2>1. b2[a] \in Int /\ b[a] \in Int
      BY <1>3, <1>4 DEF Listed
  <2>2. b2[a] <= b[a] /\ b[a] <= g.m + 1
      BY <1>3, <1>4
  <2> QED
      BY <2>1, <2>2, <1>2
<1>7. Types'
    BY <1>1, <1>2, <1>4, <1>5 DEF Types
<1>8. Freeing'
  <2>1. Listed(g', own, b2, Left', heap') /\ \A a \in Of(g')!Node : b2[a] <= g'.m + 1
      BY <1>1, <1>4, <1>6
  <2>2. Heads'
      BY <1>1, <1>2, <1>4 DEF Freeing, Heads
  <2> QED
      BY <2>1, <2>2, <1>1, <1>2 DEF Freeing
<1> QED
    BY <1>1, <1>7, <1>8 DEF IInv

LEMMA FreeNextStep == IInv /\ FreeNextNode => IInv'
<1> SUFFICES ASSUME IInv, FreeNextNode PROVE IInv'
    OBVIOUS
<1>1. /\ at = "free" /\ p = NULL /\ i < g.n - 1
      /\ i' = i + 1 /\ p' = heap.head[i + 1]
      /\ UNCHANGED <<calls, at, g, h, e, f, heap, excess, u, result>>
    BY DEF FreeNextNode, LastNode
<1>2. /\ Types /\ Freeing /\ g \in Inputs
      /\ i \in Of(g)!Node /\ g.n \in Nat
      /\ Left[i] = p
      /\ \A a \in Of(g)!Node : a \in Int
    BY <1>1, FreeFacts
<1>3. i + 1 \in Of(g)!Node
    BY <1>1, <1>2, GraphFacts
<1>4. Left' = Left
  <2>1. \A a \in Of(g)!Node :
            (IF a < i + 1 THEN NULL ELSE IF a = i + 1 THEN heap.head[i + 1] ELSE heap.head[a])
          = (IF a < i THEN NULL ELSE IF a = i THEN p ELSE heap.head[a])
    <3> SUFFICES ASSUME NEW a \in Of(g)!Node
                 PROVE  (IF a < i + 1 THEN NULL
                         ELSE IF a = i + 1 THEN heap.head[i + 1] ELSE heap.head[a])
                        = (IF a < i THEN NULL ELSE IF a = i THEN p ELSE heap.head[a])
        OBVIOUS
    <3>1. a \in Int /\ i \in Int
        BY <1>2
    <3>2. a < i + 1 <=> a < i \/ a = i
        BY <3>1
    <3> QED
        BY <3>2, <1>1
  <2>2. Left' = [a \in Of(g)!Node |-> IF a < i + 1 THEN NULL
                   ELSE IF a = i + 1 THEN heap.head[i + 1] ELSE heap.head[a]]
      BY <1>1 DEF Left
  <2> QED
      BY <2>1, <2>2 DEF Left
<1>5. p' \in Link \cup {NULL} /\ i' \in Nat
    BY <1>1, <1>2, <1>3 DEF Freeing, Heads, Types
<1>6. Types'
    BY <1>1, <1>2, <1>5, TypesKept DEF Types
<1>7. Freeing'
  <2>1. \E own, b : Listed(g', own, b, Left', heap') /\ \A a \in Of(g')!Node : b[a] <= g'.m + 1
      BY <1>1, <1>2, <1>4 DEF Freeing
  <2>2. Heads'
      BY <1>1, <1>2 DEF Freeing, Heads
  <2> QED
      BY <2>1, <2>2, <1>1, <1>2, <1>3 DEF Freeing
<1> QED
    BY <1>1, <1>6, <1>7 DEF IInv

\* When no list is left, nothing is allocated.
LEMMA FreeGraphStep == IInv /\ FreeGraph => IInv'
<1> SUFFICES ASSUME IInv, FreeGraph PROVE IInv'
    OBVIOUS
<1>1. /\ at = "free" /\ p = NULL /\ i = g.n - 1
      /\ heap' = [heap EXCEPT !.head = << >>] /\ at' = "out"
      /\ UNCHANGED <<calls, g, p, i, result>>
    BY DEF FreeGraph, LastNode
<1>2. /\ Types /\ Freeing /\ g \in Inputs /\ HeapType(heap)
      /\ i \in Of(g)!Node /\ g.n \in Nat
    BY <1>1, FreeFacts
<1>3. PICK own, b : Listed(g, own, b, Left, heap)
    BY <1>2 DEF Freeing
<1>4. \A a \in Of(g)!Node : Left[a] = NULL
  <2> SUFFICES ASSUME NEW a \in Of(g)!Node PROVE Left[a] = NULL
      OBVIOUS
  <2>1. a < i \/ a = i
      BY <1>1, <1>2, GraphFacts
  <2> QED
      BY <2>1, <1>1 DEF Left
<1>5. heap.live = {}
  <2>1. own \in [Of(g)!Node -> [Of(g)!Edge -> Link]]
      BY <1>3 DEF Listed
  <2>2. ASSUME NEW a \in Of(g)!Node PROVE \A y \in Of(g)!Incident(a) : ~(y < b[a])
    <3>1. LastBefore(g, own, a, b[a], NULL)
        BY <1>3, <1>4 DEF Listed
    <3> QED
        BY <2>1, <3>1, <1>2, NoLink
  <2> QED
      BY <2>2, <1>3 DEF Listed
<1>6. /\ heap' = [live |-> heap'.live, link |-> heap'.link, head |-> heap'.head]
      /\ heap'.live = heap.live /\ heap'.link = heap.link
  <2>1. heap' = [live |-> heap.live, link |-> heap.link, head |-> << >>]
      BY <1>1, <1>2 DEF HeapType
  <2> QED
      BY <2>1
<1>7. Types'
    BY <1>1, <1>2, <1>6 DEF Types, HeapType, Places
<1> QED
    BY <1>1, <1>5, <1>6, <1>7 DEF IInv


-----------------------------------------------------------------------------
(* The theorems.                                                            *)

LEMMA NextStep == IInv /\ [Next]_vars => IInv'
<1> SUFFICES ASSUME IInv, [Next]_vars PROVE IInv'
    OBVIOUS
<1>1. CASE UNCHANGED vars
    BY <1>1, Zenon DEF vars, IInv, Types, Connecting, Saturating, Choosing, Scanning,
                       Freeing, Heads, Complete, Left
<1>2. CASE Next
    BY <1>2, CallStep, AllocateStep, ConnectStep, OutOfMemoryStep, StartStep,
       InitialPushStep, InitialDoneStep, LeaveStep, ScanOnStep, PushStep, RelabelStep,
       ReturnStep, FreeLinkStep, FreeNextStep, FreeGraphStep DEF Next, Run
<1> QED
    BY <1>1, <1>2

LEMMA Invariance == Spec => []IInv
BY InitIInv, NextStep, PTL DEF Spec

\* The types of the arrays and of g->excess, wherever they are allocated.
LEMMA ArrayTypes ==
    ASSUME IInv, at \in {"connect", "initial", "choose", "scan", "free"}
    PROVE  /\ h \in [Of(g)!Node -> Nat]
           /\ e \in [Of(g)!Node -> Nat]
           /\ f \in [Of(g)!Edge -> Int]
           /\ excess.first \in Of(g)!Inner \cup {NoNode}
<1>1. g \in Inputs
    BY DEF IInv, Types
<1>2. CASE at = "connect"
  <2>1. Connecting
      BY <1>2 DEF IInv
  <2>2. excess.first = NoNode
      BY <2>1, <1>1, LeaveFront DEF Connecting
  <2>3. h = Zeroed(Of(g)!Node) /\ e = Zeroed(Of(g)!Node) /\ f = Zeroed(Of(g)!Edge)
      BY <2>1 DEF Connecting
  <2> QED
      BY <2>2, <2>3 DEF Zeroed
<1>3. CASE at = "initial"
  <2>1. Saturating
      BY <1>3 DEF IInv
  <2>2. PICK pend : G(g)!Preflow(h, e, f, pend)
      BY <2>1 DEF Saturating
  <2>3. excess.first \in Of(g)!Inner \cup {NoNode}
      BY <2>1, <1>1, LeaveFront DEF Saturating
  <2> QED
      BY <2>2, <2>3, <1>1, PreflowFacts
<1>4. CASE at = "choose"
  <2>1. Choosing
      BY <1>4 DEF IInv
  <2>2. excess.first \in Of(g)!Inner \cup {NoNode}
      BY <2>1, <1>1, LeaveFront DEF Choosing
  <2> QED
      BY <2>1, <2>2, <1>1, PreflowFacts DEF Choosing
<1>5. CASE at = "scan"
  <2>1. Scanning
      BY <1>5 DEF IInv
  <2>2. excess.first \in Of(g)!Inner \cup {NoNode}
      BY <2>1, <1>1, LeaveFront DEF Scanning
  <2> QED
      BY <2>1, <2>2, <1>1, PreflowFacts DEF Scanning
<1>6. CASE at = "free"
  <2>1. Freeing
      BY <1>6 DEF IInv
  <2> QED
      BY <2>1, <1>1, PreflowFacts DEF Freeing
<1> QED
    BY <1>2, <1>3, <1>4, <1>5, <1>6

\* Every variable keeps its type, in particular: no flow, excess or height of any
\* call is a wild value, and the first node of the list is an inner one.
THEOREM TypeCorrect == Spec => []TypeOK
<1>1. IInv => TypeOK
  <2> SUFFICES ASSUME IInv PROVE TypeOK
      OBVIOUS
  <2>1. /\ calls \in 0 .. Calls /\ at \in Places /\ g \in Inputs
        /\ HeapType(heap)
        /\ p \in Link \cup {NULL} /\ i \in Nat /\ result \in Nat
      BY DEF IInv, Types
  <2>2. /\ heap.live \subseteq Link
        /\ \A c \in Link : heap.link[c].next \in Link \cup {NULL}
      BY <2>1 DEF HeapType, Cell
  <2> QED
      BY <2>1, <2>2, ArrayTypes DEF TypeOK
<1> QED
    BY <1>1, Invariance, PTL

\* The next pointers from g->excess (enter_excess and leave_excess, lines 301-332)
\* go through exactly the inner nodes with excess and end, whatever graph a call is
\* for and in whatever order the nodes get and lose their excess.
THEOREM ListAlwaysHoldsTheExcess == Spec => []ListHoldsTheExcess
<1>1. IInv => ListHoldsTheExcess
  <2> SUFFICES ASSUME IInv, at \in {"initial", "choose", "scan"}
               PROVE  LET nodes == OnList
                          taken == IF at = "scan" THEN {u} ELSE {}
                      IN  /\ (UNION {nodes[k] : k \in 0 .. g.n}) \ {NoNode} =
                               {a \in Of(g)!Inner : e[a] > 0} \ taken
                          /\ nodes[g.n] \subseteq {NoNode}
      BY DEF ListHoldsTheExcess
  <2> DEFINE S == Excessive(g, e) \ (IF at = "scan" THEN {u} ELSE {})
  <2>1. g \in Inputs
      BY DEF IInv, Types
  <2>2. ListOf(g, excess, S)
    <3>1. CASE at = "scan"
        BY <3>1 DEF IInv, Scanning
    <3>2. CASE at # "scan"
      <4>1. S = Excessive(g, e)
          BY <3>2
      <4>2. ListOf(g, excess, Excessive(g, e))
          BY <3>2 DEF IInv, Saturating, Choosing
      <4> QED
          BY <4>1, <4>2
    <3> QED
        BY <3>1, <3>2
  <2> HIDE DEF S
  <2>3. /\ (UNION {OnList[k] : k \in 0 .. g.n}) \ {NoNode} = S
        /\ OnList[g.n] \subseteq {NoNode}
      BY <2>1, <2>2, WholeList
  <2> QED
      BY <2>3 DEF S, Excessive
<1> QED
    BY <1>1, Invariance, PTL

\* The links of the lists are the allocated ones.
LEMMA ListsReachMemory ==
    ASSUME g \in Inputs, NEW own, NEW b, NEW top, Listed(g, own, b, top, heap),
           \A a \in Of(g)!Node : b[a] <= g.m + 1
    PROVE  /\ heap.live = UNION {Reached(top[a]) : a \in Of(g)!Node}
           /\ \A a \in Of(g)!Node : top[a] = NULL => Reached(NULL) = {}
<1>1. /\ own \in [Of(g)!Node -> [Of(g)!Edge -> Link]]
      /\ \A d : d \in heap.live <=>
            \E a \in Of(g)!Node : \E y \in Of(g)!Incident(a) : y < b[a] /\ d = own[a][y]
      /\ \A a \in Of(g)!Node : LastBefore(g, own, a, b[a], top[a])
    BY DEF Listed
<1>2. \A a \in Of(g)!Node : \A d :
          d \in Reached(top[a]) <=> \E y \in Of(g)!Incident(a) : y < b[a] /\ d = own[a][y]
    BY ReachedFacts
<1>3. heap.live = UNION {Reached(top[a]) : a \in Of(g)!Node}
  <2>1. \A d : d \in heap.live <=> \E a \in Of(g)!Node : d \in Reached(top[a])
      BY <1>1, <1>2
  <2> QED
      BY <2>1
<1>4. ASSUME NEW a \in Of(g)!Node, top[a] = NULL PROVE Reached(NULL) = {}
  <2>1. \A y \in Of(g)!Incident(a) : ~(y < b[a])
      BY <1>1, <1>4, NoLink
  <2>2. \A d : d \notin Reached(top[a])
      BY <2>1, <1>2
  <2> QED
      BY <2>2, <1>4
<1> QED
    BY <1>3, <1>4

\* Nothing is lost and nothing freed is looked at: the allocated links are those the
\* lists still reach, while new_graph builds them, while the flow is computed, while
\* free_graph (lines 493-510) takes them apart, and there are none between two calls.
THEOREM MemoryIsAlwaysReached == Spec => []MemoryIsReached
<1>1. IInv => MemoryIsReached
  <2> SUFFICES ASSUME IInv, at # "exit"
               PROVE  heap.live = UNION {Reached(c) : c \in
                 CASE at \in {"connect", "initial", "choose", "scan"} ->
                        {heap.head[a] : a \in Of(g)!Node}
                   [] at = "free" -> {p} \cup {heap.head[a] : a \in i + 1 .. g.n - 1}
                   [] OTHER -> {}}
      BY DEF MemoryIsReached
  <2>1. g \in Inputs /\ g.m \in Nat /\ g.n \in Nat /\ at \in Places
      BY InputFacts DEF IInv, Types
  <2>2. CASE at \in {"connect", "initial", "choose", "scan"}
    <3>1. \E x \in Int : /\ x <= g.m + 1
                         /\ \E own : Listed(g, own, UpTo(g, x), heap.head, heap)
      <4>1. CASE at = "connect"
        <5>1. /\ i \in 1 .. g.m + 1
              /\ \E own : Listed(g, own, UpTo(g, i), heap.head, heap)
            BY <4>1 DEF IInv, Connecting
        <5>2. i \in Int /\ i <= g.m + 1
            BY <5>1, <2>1
        <5> QED
            BY <5>1, <5>2
      <4>2. CASE at # "connect"
        <5>1. \E own : Listed(g, own, UpTo(g, g.m + 1), heap.head, heap)
            BY <2>2, <4>2 DEF IInv, Saturating, Choosing, Scanning, Complete
        <5>2. g.m + 1 \in Int /\ g.m + 1 <= g.m + 1
            BY <2>1
        <5> QED
            BY <5>1, <5>2
      <4> QED
          BY <4>1, <4>2
    <3>2. PICK x \in Int :
              x <= g.m + 1 /\ \E own : Listed(g, own, UpTo(g, x), heap.head, heap)
        BY <3>1
    <3>3. PICK own : Listed(g, own, UpTo(g, x), heap.head, heap)
        BY <3>2
    <3>4. \A a \in Of(g)!Node : UpTo(g, x)[a] <= g.m + 1
        BY <3>2 DEF UpTo
    <3>5. heap.live = UNION {Reached(heap.head[a]) : a \in Of(g)!Node}
        BY <2>1, <3>3, <3>4, ListsReachMemory
    <3>6. heap.live = UNION {Reached(c) : c \in {heap.head[a] : a \in Of(g)!Node}}
        BY <3>5
    <3> QED
        BY <3>6, <2>2
  <2>3. CASE at = "free"
    <3> DEFINE Tops == {p} \cup {heap.head[a] : a \in i + 1 .. g.n - 1}
    <3>1. Freeing
        BY <2>3 DEF IInv
    <3>2. PICK own, b : /\ Listed(g, own, b, Left, heap)
                        /\ \A a \in Of(g)!Node : b[a] <= g.m + 1
        BY <3>1 DEF Freeing
    <3>3. /\ heap.live = UNION {Reached(Left[a]) : a \in Of(g)!Node}
          /\ \A a \in Of(g)!Node : Left[a] = NULL => Reached(NULL) = {}
        BY <2>1, <3>2, ListsReachMemory
    <3>4. /\ i \in Of(g)!Node /\ Of(g)!Node \subseteq Int
          /\ \A a \in Of(g)!Node : a > i <=> a \in i + 1 .. g.n - 1
          /\ \A a \in i + 1 .. g.n - 1 : a \in Of(g)!Node
        BY <2>1, <3>1, GraphFacts DEF Freeing
    <3>5. /\ \A a \in Of(g)!Node : a < i => Left[a] = NULL
          /\ Left[i] = p
          /\ \A a \in i + 1 .. g.n - 1 : Left[a] = heap.head[a]
        BY <3>4 DEF Left
    <3>6. \A a \in Of(g)!Node : Left[a] \in Tops \/ Reached(Left[a]) = {}
      <4> SUFFICES ASSUME NEW a \in Of(g)!Node
                   PROVE  Left[a] \in Tops \/ Reached(Left[a]) = {}
          OBVIOUS
      <4>1. CASE a < i
          BY <4>1, <3>3, <3>5
      <4>2. CASE a = i
          BY <4>2, <3>5
      <4>3. CASE a > i
          BY <4>3, <3>4, <3>5
      <4> QED
          BY <4>1, <4>2, <4>3, <3>4
    <3>7. \A c \in Tops : \E a \in Of(g)!Node : c = Left[a]
        BY <3>4, <3>5
    <3> HIDE DEF Tops
    <3>8. heap.live = UNION {Reached(c) : c \in Tops}
        BY <3>3, <3>6, <3>7
    <3> QED
        BY <3>8, <2>3 DEF Tops
  <2>4. CASE at \in {"out", "allocate"}
    <3>1. heap.live = {}
        BY <2>4 DEF IInv
    <3> QED
        BY <3>1, <2>4
  <2> QED
      BY <2>1, <2>2, <2>3, <2>4 DEF Places
<1> QED
    BY <1>1, Invariance, PTL

\* What xpreflow returns is the maximum flow of the graph of its own call, of each
\* call of any number of them, with the links the calls before it have left behind.
THEOREM AnswersAreAlwaysMaxFlows == Spec => []AnswersAreMaxFlows
<1>1. IInv => AnswersAreMaxFlows
    BY DEF IInv, Freeing, AnswersAreMaxFlows
<1> QED
    BY <1>1, Invariance, PTL

\* While the flow is computed and when it is returned, no node of any call has more than
\* the edges of the source of its graph can carry together.
ExcessBound ==
    at \in {"initial", "choose", "scan", "free"} =>
        \A a \in Of(g)!Node : e[a] <= G(g)!SourceCapacity

\* If the capacities at the source fit an int together, no statement of push or
\* xpreflow that adds to u->e, v->e or s->e overflows, in any call.
THEOREM ExcessAlwaysBounded == Spec => []ExcessBound
<1>1. IInv => ExcessBound
  <2> SUFFICES ASSUME IInv, at \in {"initial", "choose", "scan", "free"},
                      NEW a \in Of(g)!Node
               PROVE  e[a] <= G(g)!SourceCapacity
      BY DEF ExcessBound
  <2>1. g \in Inputs
      BY DEF IInv, Types
  <2>2. \E pend : G(g)!Preflow(h, e, f, pend)
      BY DEF IInv, Saturating, Choosing, Scanning, Freeing
  <2>3. PICK pend : P!Preflow(h, e, f, pend)
      BY <2>2, SamePreflow
  <2>4. a \in P!Node
      BY SameThings
  <2>5. e[a] <= P!SourceCapacity
      BY <2>1, <2>3, <2>4, GraphAssumptions, P!ExcessIsLimited
  <2> QED
      BY <2>5, SameLimit
<1> QED
    BY <1>1, Invariance, PTL

=============================================================================
